-------------------------- MODULE MCPodReconciler --------------------------
(* p1 has a claim for each of its two containers: one claim chooses between*)
(* two images, the other has a subrequest without a configuration and one  *)
(* whose configuration names a container the pod does not have.  The       *)
(* shared claim is that of two pods.                                       *)
EXTENDS PodReconciler, TLC

CONSTANTS p1, p2, c1, c2, main, side, other, cpu, gpu, orig

OneClaimsOf == p1 :> {c1}
TwoClaimsOf == p1 :> {c1, c2}
SharedClaimsOf == p1 :> {c1} @@ p2 :> {c1}

GpuOrCpu == {{<<main, gpu>>}, {<<main, cpu>>}}
OneConfigsOf == c1 :> GpuOrCpu
FallbackConfigsOf == c1 :> GpuOrCpu @@ c2 :> {{<<side, gpu>>}, {}, {<<other, gpu>>}}
SharedConfigsOf == c1 :> {{<<main, gpu>>}}
=============================================================================
