-------------------------- MODULE MCSlicePublisher --------------------------
(* One goroutine that downloads and two callbacks in flight: enough for two*)
(* changes whose callbacks publish in the other order.                     *)
EXTENDS SlicePublisher

MCScanSizes == {1}
=============================================================================
