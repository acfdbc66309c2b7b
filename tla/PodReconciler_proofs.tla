------------------------ MODULE PodReconciler_proofs ------------------------
(* Proofs about PodReconciler for any pods, claims and configurations.     *)
EXTENDS PodReconciler, TLAPS

USE DEF PodState, ClaimState, WorkerState

-----------------------------------------------------------------------------
(* What the controller makes of the images of a pod.                       *)

(* The configurations the controller reads are pairs of a container name   *)
(* and an image.                                                           *)
LEMMA ConfigsType ==
    ASSUME NEW p \in Pod, TypeOK
    PROVE  Configs(p) \subseteq Name \X Image
<1>1. ClaimsOf[p] \subseteq Claim
  BY ReconcilerAssumption
<1> QED BY <1>1 DEF Configs, TypeOK

(* Applying the configurations gives every container an image.             *)
LEMMA AppliedType ==
    ASSUME NEW configs \in SUBSET (Name \X Image),
           NEW image \in [Container -> Image]
    PROVE  Applied(configs, image) \in [Container -> Image]
<1>1. ASSUME NEW k \in Container, \E a \in configs : a[1] = k
      PROVE  (CHOOSE a \in configs : a[1] = k)[2] \in Image
  BY <1>1
<1>2. QED BY <1>1 DEF Applied

(* Applying configurations without a contradiction leaves every configured *)
(* container with its image.                                               *)
LEMMA AppliedHas ==
    ASSUME NEW configs, NEW image, WellConfigured(configs)
    PROVE  Has(Applied(configs, image), configs)
<1> SUFFICES ASSUME NEW a \in configs
             PROVE  a[1] \in Container /\ Applied(configs, image)[a[1]] = a[2]
  BY DEF Has
<1>1. a[1] \in Container
  BY DEF WellConfigured
<1>2. Applied(configs, image)[a[1]] = (CHOOSE b \in configs : b[1] = a[1])[2]
  BY <1>1 DEF Applied
<1>3. PICK b \in configs : b = CHOOSE x \in configs : x[1] = a[1]
  OBVIOUS
<1>4. b[1] = a[1]
  BY <1>3
<1>5. QED BY <1>1, <1>2, <1>3, <1>4 DEF WellConfigured

-----------------------------------------------------------------------------
(* The worker is idle or works on a pod: the queue only ever gets a pod    *)
(* back from a conflict.                                                   *)
WorkerHasPod == worker.pc # "idle" => worker.pod \in Pod

(* Both are kept by every step of the controller and of what surrounds it. *)
LEMMA TypesAndWorker == Spec => [](TypeOK /\ WorkerHasPod)
<1> USE ReconcilerAssumption
<1> DEFINE TInv == TypeOK /\ WorkerHasPod
<1>1. Init => TInv
  BY DEF Init, TypeOK, Idle, WorkerHasPod
<1>2. TInv /\ [Next]_vars => TInv'
  <2> SUFFICES ASSUME TInv, [Next]_vars PROVE TInv'
    OBVIOUS
  <2> USE DEF TypeOK, WorkerHasPod
  <2>0. Idle \in WorkerState
    BY DEF Idle
  <2>1. ASSUME NEW p \in Pod, Drop(p) PROVE TInv'
    BY <2>1 DEF Drop, Dequeue
  <2>2. ASSUME NEW p \in Pod, Reconcile(p) PROVE TInv'
    <3>1. {<<c, claimCache[c].rv>> : c \in Pending(p)} \subseteq Claim \X Nat
      BY DEF Pending
    <3>2. podCache[p].rv \in Nat
      OBVIOUS
    <3>3. /\ Has(podCache[p].image, Configs(p)) \in BOOLEAN
          /\ Configs(p) \subseteq Name \X Image
      BY ConfigsType DEF Has
    <3>4. worker' \in WorkerState
      BY <2>2, <3>1, <3>2, <3>3 DEF Reconcile
    <3> QED BY <2>2, <3>4 DEF Reconcile, Dequeue
  <2>3. ASSUME NEW p \in Pod, SyncPod(p) PROVE TInv'
    BY <2>3 DEF SyncPod
  <2>4. ASSUME NEW p \in Pod, Nominate(p) \/ Bind(p) \/ Delete(p)
        PROVE  TInv'
    <3>1. PICK to \in {"pending", "nominated", "bound", "deleting"} :
             pod' = [pod EXCEPT ![p].phase = to, ![p].rv = @ + 1]
      BY <2>4 DEF Nominate, Bind, Delete, Phase
    <3>2. UNCHANGED <<claim, podCache, claimCache, queue, worker, crashes,
                      timeouts, misled>>
      BY <2>4 DEF Nominate, Bind, Delete, Scheduler
    <3>3. pod' = [pod EXCEPT ![p] = [rv |-> pod[p].rv + 1, phase |-> to,
                                     image |-> pod[p].image]]
      BY <3>1
    <3>4. pod' \in [Pod -> PodState]
      BY <3>3
    <3> HIDE DEF PodState, ClaimState, WorkerState
    <3> QED BY <3>2, <3>4
  <2>5. ASSUME NEW p \in Pod, Timeout(p) PROVE TInv'
    <3>1. pod' \in [Pod -> PodState]
      BY <2>5 DEF Timeout, Phase
    <3>2. claim' \in [Claim -> ClaimState]
      BY <2>5 DEF Timeout
    <3>3. timeouts' \in 0..MaxTimeouts
      BY <2>5 DEF Timeout
    <3>4. UNCHANGED <<podCache, claimCache, queue, worker, crashes, misled>>
      BY <2>5 DEF Timeout, Scheduler
    <3> QED BY <3>1, <3>2, <3>3, <3>4
  <2>6. ASSUME NEW p \in Pod, NEW c \in Claim, Allocate(p, c) PROVE TInv'
    <3>1. PICK config \in ConfigsOf[c] :
             claim' = [claim EXCEPT ![c].alloc = TRUE, ![c].config = config,
                                    ![c].rv = @ + 1]
      BY <2>6 DEF Allocate
    <3>2. claim' = [claim EXCEPT ![c] = [rv |-> claim[c].rv + 1,
                                         alloc |-> TRUE,
                                         cond |-> claim[c].cond,
                                         config |-> config]]
      BY <3>1
    <3>3. config \subseteq Name \X Image
      OBVIOUS
    <3>4. claim' \in [Claim -> ClaimState]
      BY <3>2, <3>3
    <3> QED BY <2>6, <3>4 DEF Allocate, Scheduler
  <2>7. ASSUME NEW c \in Claim, SyncClaim(c) PROVE TInv'
    BY <2>7 DEF SyncClaim
  <2>8. CASE patchImages
    <3>1. PICK p \in Pod : p = worker.pod
      BY <2>8 DEF patchImages
    <3>2. CASE /\ pod' = [pod EXCEPT ![p].image = Applied(worker.configs, @),
                                    ![p].rv = @ + 1]
               /\ worker' = [worker EXCEPT !.pc = "set"]
               /\ misled' = misled \ {p}
               /\ UNCHANGED <<claim, queue>>
      <4>1. Applied(worker.configs, pod[p].image) \in [Container -> Image]
        BY AppliedType
      <4>2. pod' \in [Pod -> PodState]
        <5>1. pod \in [Pod -> PodState]
          OBVIOUS
        <5> HIDE DEF TypeOK, ClaimState, WorkerState
        <5>2. pod' = [pod EXCEPT ![p] = [rv |-> pod[p].rv + 1,
                                         phase |-> pod[p].phase,
                                         image |-> Applied(worker.configs,
                                                           pod[p].image)]]
          BY <3>2, <5>1
        <5> QED BY <4>1, <5>1, <5>2
      <4>3. worker' \in WorkerState /\ worker'.pod \in Pod
        BY <3>1, <3>2
      <4>4. UNCHANGED <<podCache, claimCache, crashes, timeouts>>
        BY <2>8 DEF patchImages
      <4> HIDE DEF PodState, ClaimState, WorkerState
      <4> QED BY <3>2, <4>2, <4>3, <4>4
    <3>3. CASE /\ worker' = [worker EXCEPT !.pc = "set"]
               /\ misled' \subseteq misled \union {p}
               /\ UNCHANGED <<pod, claim, queue>>
      BY <2>8, <3>1, <3>3 DEF patchImages
    <3>4. CASE Conflict /\ UNCHANGED misled
      BY <2>0, <2>8, <3>1, <3>4 DEF patchImages, Conflict, Done, Idle
    <3> QED BY <2>8, <3>1, <3>2, <3>3, <3>4 DEF patchImages
  <2>9. CASE setBindingCondition
    <3>1. PICK p \in Pod : p = worker.pod
      BY <2>9 DEF setBindingCondition
    <3>2. PICK t \in worker.todo :
             \/ /\ claim' = [claim EXCEPT ![t[1]].cond = TRUE,
                                          ![t[1]].rv = @ + 1]
                /\ worker' = [worker EXCEPT !.todo = @ \ {t}]
                /\ UNCHANGED <<pod, queue>>
             \/ Conflict
      BY <2>9 DEF setBindingCondition
    <3>3. CASE Conflict
      BY <2>0, <2>9, <3>1, <3>3 DEF setBindingCondition, Conflict, Done, Idle
    <3>4. CASE ~Conflict
      <4>1. t[1] \in Claim
        OBVIOUS
      <4>2. claim' \in [Claim -> ClaimState]
        <5>1. PICK c \in Claim : c = t[1]
          BY <4>1
        <5>2. claim \in [Claim -> ClaimState]
          OBVIOUS
        <5> HIDE DEF TypeOK, PodState, WorkerState
        <5>3. claim' = [claim EXCEPT ![c] = [rv |-> claim[c].rv + 1,
                                             alloc |-> claim[c].alloc,
                                             cond |-> TRUE,
                                             config |-> claim[c].config]]
          BY <3>2, <3>4, <5>1, <5>2
        <5> QED BY <5>1, <5>2, <5>3
      <4>3. worker' \in WorkerState
        <5>1. worker' = [worker EXCEPT !.todo = worker.todo \ {t}]
          BY <3>2, <3>4
        <5>2. worker.todo \ {t} \subseteq Claim \X Nat
          OBVIOUS
        <5> QED BY <5>1, <5>2
      <4>4. worker'.pod \in Pod
        BY <3>1, <3>2, <3>4
      <4>5. UNCHANGED <<podCache, claimCache, crashes, timeouts, misled>>
        BY <2>9 DEF setBindingCondition
      <4>6. UNCHANGED <<pod, queue>>
        BY <3>2, <3>4
      <4> HIDE DEF PodState, ClaimState, WorkerState
      <4> QED BY <4>2, <4>3, <4>4, <4>5, <4>6
    <3> QED BY <3>3, <3>4
  <2>10. CASE Reconciled
    BY <2>0, <2>10 DEF Reconciled, Done, Idle
  <2>11. CASE Crash
    BY <2>0, <2>11 DEF Crash, Done, Idle
  <2>12. CASE UNCHANGED vars
    BY <2>12 DEF vars
  <2> QED BY <2>1, <2>2, <2>3, <2>4, <2>5, <2>6, <2>7, <2>8, <2>9, <2>10,
             <2>11, <2>12 DEF Next, Controller
<1>3. QED BY <1>1, <1>2, PTL DEF Spec

(* The types of the objects in the API server, of the informers' copies and*)
(* of the worker's variables.                                              *)
THEOREM TypeCorrect == Spec => []TypeOK
BY TypesAndWorker, PTL

-----------------------------------------------------------------------------
(* A copy in the claim informer is never ahead of the API server and, with *)
(* the same resourceVersion, is the same object; and a version the worker  *)
(* holds is that of an allocated claim.                                    *)
CopiesOfClaims ==
    /\ \A c \in Claim : /\ claimCache[c].rv <= claim[c].rv
                        /\ claimCache[c].rv = claim[c].rv
                             => claimCache[c] = claim[c]
    /\ \A t \in worker.todo : /\ t[2] <= claim[t[1]].rv
                              /\ t[2] = claim[t[1]].rv => claim[t[1]].alloc

(* A claim is only replaced by one of the next version or stays as it is.  *)
LEMMA CopiesStayBehind ==
    ASSUME TypeOK, CopiesOfClaims, TypeOK',
           \A c \in Claim : claim'[c] = claim[c] \/ claim'[c].rv = claim[c].rv + 1
    PROVE  /\ UNCHANGED claimCache => \A c \in Claim :
                /\ claimCache'[c].rv <= claim'[c].rv
                /\ claimCache'[c].rv = claim'[c].rv => claimCache'[c] = claim'[c]
           /\ worker'.todo \subseteq worker.todo => \A t \in worker'.todo :
                /\ t[2] <= claim'[t[1]].rv
                /\ t[2] = claim'[t[1]].rv => claim'[t[1]].alloc
<1>0. /\ \A c \in Claim : /\ claim[c].rv \in Nat /\ claimCache[c].rv \in Nat
                          /\ claim'[c].rv \in Nat
      /\ \A t \in worker.todo : t[1] \in Claim /\ t[2] \in Nat
  BY DEF TypeOK
<1>1. ASSUME UNCHANGED claimCache, NEW c \in Claim
      PROVE  /\ claimCache'[c].rv <= claim'[c].rv
             /\ claimCache'[c].rv = claim'[c].rv => claimCache'[c] = claim'[c]
  BY <1>0, <1>1 DEF CopiesOfClaims
<1>2. ASSUME NEW t \in worker.todo
      PROVE  /\ t[2] <= claim'[t[1]].rv
             /\ t[2] = claim'[t[1]].rv => claim'[t[1]].alloc
  BY <1>0 DEF CopiesOfClaims
<1>3. QED BY <1>1, <1>2

(* Both that and that a condition is on an allocated claim are kept.       *)
LEMMA CopiesAndConditions ==
    Spec => [](CopiesOfClaims /\ ConditionNeedsAllocation)
<1> USE ReconcilerAssumption
<1> DEFINE CInv == CopiesOfClaims /\ ConditionNeedsAllocation
<1>1. Init => CInv
  BY DEF Init, Idle, CopiesOfClaims, ConditionNeedsAllocation
<1>2. TypeOK /\ TypeOK' /\ CInv /\ [Next]_vars => CInv'
  <2> SUFFICES ASSUME TypeOK, TypeOK', CInv, [Next]_vars PROVE CInv'
    OBVIOUS
  <2>0. /\ claim \in [Claim -> ClaimState] /\ claimCache \in [Claim -> ClaimState]
        /\ \A t \in worker.todo : t[1] \in Claim /\ t[2] \in Nat
    BY DEF TypeOK
  <2>1. ASSUME \A c \in Claim : claim'[c] = claim[c]
                                \/ claim'[c].rv = claim[c].rv + 1,
               worker'.todo \subseteq worker.todo, UNCHANGED claimCache
        PROVE  CopiesOfClaims'
    BY <2>1, CopiesStayBehind DEF CopiesOfClaims
  <2>2. ASSUME UNCHANGED <<claim, claimCache>>, worker'.todo \subseteq worker.todo
        PROVE  CInv'
    BY <2>1, <2>2 DEF ConditionNeedsAllocation
  <2>3. Idle.todo \subseteq worker.todo
    BY DEF Idle
  <2>4. ASSUME NEW p \in Pod, Drop(p) \/ SyncPod(p) PROVE CInv'
    BY <2>2, <2>4 DEF Drop, Dequeue, SyncPod
  <2>5. ASSUME NEW p \in Pod, Reconcile(p) PROVE CInv'
    <3>1. UNCHANGED <<claim, claimCache>>
      BY <2>5 DEF Reconcile, Dequeue
    <3>2. worker'.todo = {<<c, claimCache[c].rv>> : c \in Pending(p)}
      BY <2>5 DEF Reconcile
    <3>3. \A c \in Pending(p) : c \in Claim /\ claimCache[c].alloc
      BY <2>5 DEF Reconcile, Allocated, Pending
    <3>4. ASSUME NEW c \in Pending(p)
          PROVE  /\ claimCache[c].rv <= claim[c].rv
                 /\ claimCache[c].rv = claim[c].rv => claim[c].alloc
      BY <3>3 DEF CopiesOfClaims
    <3> QED BY <3>1, <3>2, <3>4 DEF CopiesOfClaims, ConditionNeedsAllocation
  <2>6. ASSUME NEW p \in Pod, Nominate(p) \/ Bind(p) \/ Delete(p) PROVE CInv'
    BY <2>2, <2>6 DEF Nominate, Bind, Delete, Scheduler
  <2>7. ASSUME NEW p \in Pod, Timeout(p) PROVE CInv'
    <3>1. UNCHANGED <<worker, claimCache>>
      BY <2>7 DEF Timeout, Scheduler
    <3>2. \A c \in Claim : \/ claim'[c] = claim[c]
                           \/ claim'[c] = [rv |-> claim[c].rv + 1,
                                           alloc |-> FALSE, cond |-> FALSE,
                                           config |-> {}]
      BY <2>7 DEF Timeout
    <3>3. \A c \in Claim : \/ claim'[c] = claim[c]
                           \/ claim'[c].rv = claim[c].rv + 1 /\ ~claim'[c].cond
      <4> SUFFICES ASSUME NEW c \in Claim, claim'[c] # claim[c]
                   PROVE  claim'[c].rv = claim[c].rv + 1 /\ ~claim'[c].cond
        OBVIOUS
      <4>1. claim'[c] = [rv |-> claim[c].rv + 1, alloc |-> FALSE,
                         cond |-> FALSE, config |-> {}]
        BY <3>2
      <4>2. claim'[c].rv = claim[c].rv + 1 /\ claim'[c].cond = FALSE
        BY <4>1
      <4> QED BY <4>2
    <3>4. CopiesOfClaims'
      BY <2>1, <3>1, <3>3
    <3> QED BY <3>3, <3>4 DEF ConditionNeedsAllocation
  <2>8. ASSUME NEW p \in Pod, NEW c \in Claim, Allocate(p, c) PROVE CInv'
    <3>1. UNCHANGED <<worker, claimCache>>
      BY <2>8 DEF Allocate, Scheduler
    <3>2. \A d \in Claim : \/ claim'[d] = claim[d]
                           \/ claim'[d].rv = claim[d].rv + 1 /\ claim'[d].alloc
      BY <2>0, <2>8 DEF Allocate
    <3> QED BY <2>1, <3>1, <3>2 DEF ConditionNeedsAllocation
  <2>9. ASSUME NEW c \in Claim, SyncClaim(c) PROVE CInv'
    BY <2>0, <2>9 DEF SyncClaim, CopiesOfClaims, ConditionNeedsAllocation
  <2>10. CASE Conflict /\ UNCHANGED claimCache
    BY <2>2, <2>3, <2>10 DEF Conflict, Done
  <2>11. CASE patchImages
    <3>1. CASE worker' = [worker EXCEPT !.pc = "set"] /\ UNCHANGED claim
      <4>1. worker'.todo = worker.todo
        BY <3>1 DEF TypeOK
      <4> QED BY <2>2, <2>11, <3>1, <4>1 DEF patchImages
    <3>2. CASE Conflict
      BY <2>10, <2>11, <3>2 DEF patchImages
    <3> QED BY <2>11, <3>1, <3>2 DEF patchImages
  <2>12. CASE setBindingCondition
    <3>1. PICK t \in worker.todo :
             \/ /\ claim[t[1]].rv = t[2]
                /\ claim' = [claim EXCEPT ![t[1]].cond = TRUE,
                                          ![t[1]].rv = @ + 1]
                /\ worker' = [worker EXCEPT !.todo = @ \ {t}]
             \/ Conflict
      BY <2>12 DEF setBindingCondition
    <3>2. UNCHANGED claimCache
      BY <2>12 DEF setBindingCondition
    <3>3. CASE Conflict
      BY <2>10, <3>2, <3>3
    <3>4. CASE ~Conflict
      <4>1. PICK c \in Claim : c = t[1]
        BY <2>0
      <4>2. claim[c].alloc
        BY <3>1, <3>4, <4>1 DEF CopiesOfClaims
      <4>3. worker'.todo \subseteq worker.todo
        <5>1. worker' = [worker EXCEPT !.todo = worker.todo \ {t}]
          BY <3>1, <3>4
        <5> QED BY <5>1 DEF TypeOK
      <4>4. \A d \in Claim : \/ claim'[d] = claim[d]
                             \/ /\ d = c
                                /\ claim'[d].rv = claim[d].rv + 1
                                /\ claim'[d].alloc = claim[d].alloc
        BY <2>0, <3>1, <3>4, <4>1
      <4> QED BY <2>1, <3>2, <4>2, <4>3, <4>4 DEF ConditionNeedsAllocation
    <3> QED BY <3>3, <3>4
  <2>13. CASE Reconciled
    BY <2>2, <2>3, <2>13 DEF Reconciled, Done
  <2>14. CASE Crash
    <3>1. worker'.todo = {} /\ claim' = claim /\ claimCache' = claim
      BY <2>14 DEF Crash, Done, Idle
    <3> QED BY <2>0, <3>1 DEF CopiesOfClaims, ConditionNeedsAllocation
  <2>15. CASE UNCHANGED vars
    BY <2>2, <2>15 DEF vars
  <2> QED BY <2>4, <2>5, <2>6, <2>7, <2>8, <2>9, <2>11, <2>12, <2>13, <2>14,
             <2>15 DEF Next, Controller
<1>3. QED BY <1>1, <1>2, TypeCorrect, PTL DEF Spec

(* The binding condition is only ever on an allocated claim, whatever old  *)
(* copies the controller works from and however often allocations are      *)
(* undone and made again.                                                  *)
THEOREM ConditionOnAllocatedClaims == Spec => []ConditionNeedsAllocation
BY CopiesAndConditions, PTL

-----------------------------------------------------------------------------
(* The ImageConfigs of a claim, and those the informer shows, are those of *)
(* its alternatives.                                                       *)
AllocatedConfigs ==
    \A c \in Claim : /\ claim[c].config \subseteq UNION ConfigsOf[c]
                     /\ claimCache[c].config \subseteq UNION ConfigsOf[c]

(* Only an allocation writes ImageConfigs, and it chooses one alternative. *)
LEMMA ConfigsAreAlternatives == Spec => []AllocatedConfigs
<1> USE ReconcilerAssumption
<1>1. Init => AllocatedConfigs
  BY DEF Init, AllocatedConfigs
<1>2. TypeOK /\ AllocatedConfigs /\ [Next]_vars => AllocatedConfigs'
  <2> SUFFICES ASSUME TypeOK, AllocatedConfigs, [Next]_vars
               PROVE  AllocatedConfigs'
    OBVIOUS
  <2>0. claim \in [Claim -> ClaimState] /\ claimCache \in [Claim -> ClaimState]
        /\ \A t \in worker.todo : t[1] \in Claim
    BY DEF TypeOK
  <2>1. \/ UNCHANGED claimCache
        \/ /\ UNCHANGED claim
           /\ \A c \in Claim : claimCache'[c] \in {claimCache[c], claim[c]}
    <3>1. ASSUME NEW c \in Claim, SyncClaim(c)
          PROVE  /\ UNCHANGED claim
                 /\ \A d \in Claim : claimCache'[d] \in {claimCache[d], claim[d]}
      BY <2>0, <3>1 DEF SyncClaim
    <3>2. ASSUME Crash
          PROVE  /\ UNCHANGED claim
                 /\ \A d \in Claim : claimCache'[d] \in {claimCache[d], claim[d]}
      BY <3>2 DEF Crash
    <3> QED BY <3>1, <3>2 DEF Next, Controller, Drop, Dequeue, Reconcile,
               SyncPod, Nominate, Bind, Timeout, Delete, Allocate, Scheduler,
               patchImages, setBindingCondition, Reconciled, vars
  <2>2. \A c \in Claim : claim'[c].config \subseteq UNION ConfigsOf[c]
    <3>1. ASSUME NEW p \in Pod, NEW d \in Claim, Allocate(p, d), NEW c \in Claim
          PROVE  claim'[c].config \subseteq UNION ConfigsOf[c]
      <4>1. PICK config \in ConfigsOf[d] :
               claim' = [claim EXCEPT ![d].alloc = TRUE, ![d].config = config,
                                      ![d].rv = @ + 1]
        BY <3>1 DEF Allocate
      <4>2. claim'[c].config = IF c = d THEN config ELSE claim[c].config
        BY <2>0, <4>1
      <4> QED BY <4>2 DEF AllocatedConfigs
    <3>2. ASSUME NEW p \in Pod, Timeout(p), NEW c \in Claim
          PROVE  claim'[c].config \subseteq UNION ConfigsOf[c]
      <4>1. \/ claim'[c] = claim[c]
            \/ claim'[c] = [rv |-> claim[c].rv + 1, alloc |-> FALSE,
                            cond |-> FALSE, config |-> {}]
        BY <3>2 DEF Timeout
      <4>2. claim'[c].config = claim[c].config \/ claim'[c].config = {}
        BY <4>1
      <4> QED BY <4>2 DEF AllocatedConfigs
    <3>3. ASSUME setBindingCondition, NEW c \in Claim
          PROVE  claim'[c].config \subseteq UNION ConfigsOf[c]
      <4>1. CASE UNCHANGED claim
        BY <4>1 DEF AllocatedConfigs
      <4>2. CASE ~UNCHANGED claim
        <5>1. PICK t \in worker.todo :
                 claim' = [claim EXCEPT ![t[1]].cond = TRUE, ![t[1]].rv = @ + 1]
          BY <3>3, <4>2 DEF setBindingCondition, Conflict
        <5>2. claim'[c].config = claim[c].config
          BY <2>0, <5>1
        <5> QED BY <5>2 DEF AllocatedConfigs
      <4> QED BY <4>1, <4>2
    <3>4. CASE UNCHANGED claim
      BY <3>4 DEF AllocatedConfigs
    <3> QED BY <3>1, <3>2, <3>3, <3>4 DEF Next, Controller, Drop, Dequeue,
               Reconcile, SyncPod, SyncClaim, Nominate, Bind, Delete,
               patchImages, Conflict, Reconciled, Crash, vars
  <2> QED BY <2>1, <2>2 DEF AllocatedConfigs
<1>3. QED BY <1>1, <1>2, TypeCorrect, PTL DEF Spec

(* What patchImages does: it conflicts, or leaves the pod alone, or gives  *)
(* it the images that the worker read.                                     *)
LEMMA PatchStep ==
    ASSUME TypeOK, WorkerHasPod, patchImages, NEW q, q = worker.pod
    PROVE  /\ q \in Pod /\ worker.pc = "patch"
           /\ UNCHANGED <<claim, podCache, claimCache>>
           /\ \A p \in Pod : /\ pod'[p].phase = pod[p].phase
                             /\ p # q => /\ pod'[p].image = pod[p].image
                                         /\ p \in misled' <=> p \in misled
           /\ \/ worker' = Idle /\ UNCHANGED <<pod, misled>>
              \/ /\ worker' = [worker EXCEPT !.pc = "set"]
                 /\ \/ /\ worker.verified
                       /\ UNCHANGED pod
                       /\ q \in misled' <=> ~Has(pod[q].image, worker.configs)
                    \/ /\ q \notin misled'
                       /\ pod'[q].image = Applied(worker.configs, pod[q].image)
<1>1. q \in Pod /\ worker.pc = "patch" /\ UNCHANGED <<claim, podCache, claimCache>>
  BY DEF patchImages, WorkerHasPod, Conflict
<1>2. CASE Conflict /\ UNCHANGED misled
  BY <1>1, <1>2 DEF Conflict, Done
<1>3. CASE /\ worker.verified
           /\ worker' = [worker EXCEPT !.pc = "set"]
           /\ misled' = IF Has(pod[q].image, worker.configs)
                        THEN misled \ {q} ELSE misled \union {q}
           /\ UNCHANGED pod
  <2>1. \A p \in Pod \ {q} : p \in misled' <=> p \in misled
    BY <1>3
  <2>2. q \in misled' <=> ~Has(pod[q].image, worker.configs)
    BY <1>3
  <2> QED BY <1>1, <1>3, <2>1, <2>2
<1>4. CASE /\ pod' = [pod EXCEPT ![q].image = Applied(worker.configs, @),
                                 ![q].rv = @ + 1]
           /\ worker' = [worker EXCEPT !.pc = "set"]
           /\ misled' = misled \ {q}
  <2>1. pod \in [Pod -> PodState]
    BY DEF TypeOK
  <2>2. /\ pod'[q].image = Applied(worker.configs, pod[q].image)
        /\ pod'[q].phase = pod[q].phase
        /\ \A p \in Pod \ {q} : pod'[p] = pod[p]
    BY <1>1, <1>4, <2>1
  <2> QED BY <1>1, <1>4, <2>2
<1> QED BY <1>2, <1>3, <1>4 DEF patchImages

(* Images change only when they are patched.                               *)
LEMMA OnlyPatchChangesImages ==
    ASSUME TypeOK, [Next]_vars, ~patchImages
    PROVE  UNCHANGED misled /\ \A p \in Pod : pod'[p].image = pod[p].image
<1>0. pod \in [Pod -> PodState]
  BY DEF TypeOK
<1>1. ASSUME NEW p \in Pod PROVE pod'[p].image = pod[p].image
  <2>1. ASSUME NEW q \in Pod, NEW from, NEW to, Phase(q, from, to)
        PROVE  pod'[p].image = pod[p].image
    BY <1>0, <2>1 DEF Phase
  <2>2. ASSUME NEW q \in Pod, Nominate(q) \/ Bind(q) \/ Timeout(q) \/ Delete(q)
        PROVE  pod'[p].image = pod[p].image
    BY <2>1, <2>2 DEF Nominate, Bind, Timeout, Delete
  <2>3. ASSUME pod' = pod PROVE pod'[p].image = pod[p].image
    BY <2>3
  <2> QED BY <2>2, <2>3 DEF Next, Controller, Drop, Dequeue, Reconcile,
             SyncPod, Allocate, SyncClaim, setBindingCondition, Conflict,
             Reconciled, Crash, vars
<1>2. UNCHANGED misled
  BY DEF Next, Controller, Drop, Dequeue, Reconcile, SyncPod, SyncClaim,
         Allocate, Nominate, Bind, Timeout, Delete, Scheduler,
         setBindingCondition, Reconciled, Crash, vars
<1> QED BY <1>1, <1>2

(* The worker stays or goes idle; claims are replaced by ones without the  *)
(* condition; the informer is brought nothing but what is there.           *)
Quiet ==
    /\ worker' = worker \/ worker' = Idle
    /\ \A c \in Claim : \/ claim'[c] = claim[c]
                        \/ claim'[c].rv = claim[c].rv + 1 /\ ~claim'[c].cond
    /\ \A c \in Claim : \/ claimCache'[c] = claimCache[c]
                        \/ claimCache'[c] = claim[c] /\ claim'[c] = claim[c]

(* A step is quiet unless it is one of the three of a reconciliation that  *)
(* succeeds.                                                               *)
LEMMA OtherStepsAreQuiet ==
    ASSUME TypeOK, ConditionNeedsAllocation, [Next]_vars, ~patchImages,
           \A p \in Pod : ~Reconcile(p), setBindingCondition => Conflict
    PROVE  Quiet
<1>0. claim \in [Claim -> ClaimState] /\ claimCache \in [Claim -> ClaimState]
  BY DEF TypeOK
<1>1. ASSUME UNCHANGED <<claim, claimCache>>, worker' = worker \/ worker' = Idle
      PROVE  Quiet
  BY <1>1 DEF Quiet
<1>2. ASSUME NEW p \in Pod, \/ Drop(p) \/ SyncPod(p) \/ Nominate(p)
                            \/ Bind(p) \/ Delete(p)
      PROVE  Quiet
  BY <1>1, <1>2 DEF Drop, Dequeue, SyncPod, Nominate, Bind, Delete, Scheduler
<1>3. ASSUME NEW p \in Pod, Timeout(p) PROVE Quiet
  <2>1. UNCHANGED <<worker, claimCache>>
    BY <1>3 DEF Timeout, Scheduler
  <2>2. ASSUME NEW c \in Claim, claim'[c] # claim[c]
        PROVE  claim'[c].rv = claim[c].rv + 1 /\ ~claim'[c].cond
    <3>1. claim'[c] = [rv |-> claim[c].rv + 1, alloc |-> FALSE,
                       cond |-> FALSE, config |-> {}]
      BY <1>3, <2>2 DEF Timeout
    <3>2. claim'[c].rv = claim[c].rv + 1 /\ claim'[c].cond = FALSE
      BY <3>1
    <3> QED BY <3>2
  <2> QED BY <2>1, <2>2 DEF Quiet
<1>4. ASSUME NEW p \in Pod, NEW d \in Claim, Allocate(p, d) PROVE Quiet
  <2>1. UNCHANGED <<worker, claimCache>>
    BY <1>4 DEF Allocate, Scheduler
  <2>2. ~claim[d].cond
    BY <1>4 DEF Allocate, ConditionNeedsAllocation
  <2>3. ASSUME NEW c \in Claim, claim'[c] # claim[c]
        PROVE  claim'[c].rv = claim[c].rv + 1 /\ ~claim'[c].cond
    BY <1>0, <1>4, <2>2, <2>3 DEF Allocate
  <2> QED BY <2>1, <2>3 DEF Quiet
<1>5. ASSUME NEW d \in Claim, SyncClaim(d) PROVE Quiet
  BY <1>0, <1>5 DEF SyncClaim, Quiet
<1>6. CASE setBindingCondition
  <2>1. Conflict /\ UNCHANGED claimCache
    BY <1>6 DEF setBindingCondition
  <2> QED BY <1>1, <2>1 DEF Conflict, Done
<1>7. CASE Reconciled
  BY <1>1, <1>7 DEF Reconciled, Done
<1>8. CASE Crash
  BY <1>8 DEF Crash, Done, Quiet
<1>9. CASE UNCHANGED vars
  BY <1>1, <1>9 DEF vars
<1> QED BY <1>2, <1>3, <1>4, <1>5, <1>6, <1>7, <1>8, <1>9 DEF Next, Controller

-----------------------------------------------------------------------------
(* An image that all alternatives agree on is there if the informer shows  *)
(* it: it is never replaced by another.                                    *)
SoleCopies ==
    \A p \in Pod : \A a \in Sole(p) :
       a[1] \in Container /\ podCache[p].image[a[1]] = a[2]
         => pod[p].image[a[1]] = a[2]

(* So what the worker has verified of those images is so.                  *)
WorkerVerifies ==
    worker.pc # "idle" =>
       /\ worker.configs \subseteq Alternatives(worker.pod)
       /\ WellConfigured(worker.configs)
       /\ worker.pc = "patch" /\ worker.verified
            => Has(pod[worker.pod].image, worker.configs \intersect Sole(worker.pod))

(* A step changes no image that all alternatives agree on.                 *)
LEMMA ImagesStay ==
    ASSUME TypeOK, WorkerHasPod, WorkerVerifies, [Next]_vars,
           NEW p \in Pod, NEW a \in Sole(p),
           a[1] \in Container, pod[p].image[a[1]] = a[2]
    PROVE  pod'[p].image[a[1]] = a[2]
<1>1. CASE ~patchImages
  BY <1>1, OnlyPatchChangesImages
<1>2. CASE patchImages
  <2>1. CASE pod'[p].image = pod[p].image
    BY <2>1
  <2>2. CASE pod'[p].image # pod[p].image
    <3>1. /\ p = worker.pod /\ worker.pc = "patch"
          /\ pod'[p].image = Applied(worker.configs, pod[p].image)
      BY <1>2, <2>2, PatchStep
    <3>2. CASE \E b \in worker.configs : b[1] = a[1]
      <4>1. PICK b \in worker.configs :
               b = CHOOSE x \in worker.configs : x[1] = a[1]
        BY <3>2
      <4>2. b[1] = a[1]
        BY <3>2, <4>1
      <4>3. b \in Alternatives(p)
        BY <3>1 DEF WorkerVerifies
      <4>4. pod'[p].image[a[1]] = b[2]
        BY <3>1, <3>2, <4>1 DEF Applied
      <4> QED BY <4>2, <4>3, <4>4 DEF Sole
    <3>3. CASE ~ \E b \in worker.configs : b[1] = a[1]
      BY <3>1, <3>3 DEF Applied
    <3> QED BY <3>2, <3>3
  <2> QED BY <2>1, <2>2
<1> QED BY <1>1, <1>2

(* However old the copies are that the controller verifies.                *)
LEMMA SoleVerified == Spec => [](SoleCopies /\ WorkerVerifies)
<1> USE ReconcilerAssumption
<1> DEFINE SInv == SoleCopies /\ WorkerVerifies
<1>1. Init => SInv
  BY DEF Init, Idle, SoleCopies, WorkerVerifies
<1>2. TypeOK /\ WorkerHasPod /\ AllocatedConfigs /\ SInv /\ [Next]_vars => SInv'
  <2> SUFFICES ASSUME TypeOK, WorkerHasPod, AllocatedConfigs, SInv, [Next]_vars
               PROVE  SInv'
    OBVIOUS
  <2>0. worker \in WorkerState /\ podCache \in [Pod -> PodState]
    BY DEF TypeOK
  <2>1. ASSUME NEW p \in Pod, NEW configs, configs \subseteq Sole(p),
               Has(pod[p].image, configs)
        PROVE  Has(pod'[p].image, configs)
    <3> SUFFICES ASSUME NEW a \in configs
                 PROVE  a[1] \in Container /\ pod'[p].image[a[1]] = a[2]
      BY DEF Has
    <3>1. a \in Sole(p) /\ a[1] \in Container /\ pod[p].image[a[1]] = a[2]
      BY <2>1 DEF Has
    <3> QED BY <3>1, ImagesStay
  <2>2. SoleCopies'
    <3>1. \A p \in Pod : \/ podCache'[p] = podCache[p]
                         \/ podCache'[p] = pod[p] /\ UNCHANGED pod
      <4>1. ASSUME NEW p \in Pod, SyncPod(p)
            PROVE  /\ UNCHANGED pod
                   /\ \A q \in Pod : podCache'[q] = podCache[q] \/ podCache'[q] = pod[q]
        BY <2>0, <4>1 DEF SyncPod
      <4>2. CASE Crash
        BY <4>2 DEF Crash
      <4>3. CASE \E p \in Pod : SyncPod(p)
        BY <4>1, <4>3
      <4>4. CASE UNCHANGED podCache
        BY <4>4
      <4> QED BY <4>2, <4>3, <4>4 DEF Next, Controller, Drop, Dequeue, Reconcile,
                 SyncClaim, Nominate, Bind, Timeout, Delete, Allocate, Scheduler,
                 patchImages, setBindingCondition, Reconciled, vars
    <3>2. ASSUME NEW p \in Pod, NEW a \in Sole(p),
                 a[1] \in Container, podCache'[p].image[a[1]] = a[2]
          PROVE  pod'[p].image[a[1]] = a[2]
      <4>1. CASE podCache'[p] = pod[p] /\ UNCHANGED pod
        BY <3>2, <4>1
      <4>2. CASE podCache'[p] = podCache[p]
        <5>1. pod[p].image[a[1]] = a[2]
          BY <3>2, <4>2 DEF SoleCopies
        <5> QED BY <3>2, <5>1, ImagesStay
      <4> QED BY <3>1, <4>1, <4>2
    <3> QED BY <3>2 DEF SoleCopies, Sole, Alternatives
  <2>3. WorkerVerifies'
    <3>1. ASSUME NEW p \in Pod, Reconcile(p) PROVE WorkerVerifies'
      <4>1. /\ UNCHANGED <<pod, podCache>>
            /\ worker'.pod = p /\ worker'.configs = Configs(p)
            /\ worker'.verified = Has(podCache[p].image, Configs(p))
            /\ WellConfigured(Configs(p))
        BY <3>1 DEF Reconcile, Dequeue
      <4>2. Configs(p) \subseteq Alternatives(p)
        BY DEF Configs, Alternatives, AllocatedConfigs
      <4>3. Has(podCache[p].image, Configs(p))
              => Has(pod[p].image, Configs(p) \intersect Sole(p))
        BY DEF Has, SoleCopies
      <4>4. WellConfigured(worker'.configs)
        BY <4>1
      <4> QED BY <4>1, <4>2, <4>3, <4>4 DEF WorkerVerifies, Alternatives,
                 Sole, WellConfigured
    <3>2. CASE worker' = Idle
      BY <3>2 DEF WorkerVerifies, Idle
    <3>3. ASSUME worker.pc # "idle", worker'.pod = worker.pod,
                 worker'.configs = worker.configs,
                 worker'.pc = "patch" => worker.pc = "patch",
                 worker'.verified = worker.verified
          PROVE  WorkerVerifies'
      <4>1. PICK p \in Pod : p = worker.pod
        BY <3>3 DEF WorkerHasPod
      <4>2. WellConfigured(worker'.configs)
        BY <3>3 DEF WorkerVerifies
      <4>3. ASSUME worker'.pc = "patch", worker.verified
            PROVE  Has(pod'[p].image, worker.configs \intersect Sole(p))
        BY <2>1, <3>3, <4>1, <4>3 DEF WorkerVerifies
      <4> QED BY <3>3, <4>1, <4>2, <4>3 DEF WorkerVerifies, Alternatives,
                 Sole, WellConfigured
    <3>4. CASE worker' = worker
      BY <3>3, <3>4 DEF WorkerVerifies
    <3>5. CASE patchImages
      <4>1. worker.pc = "patch" /\ (worker' = Idle \/ worker' = [worker EXCEPT !.pc = "set"])
        BY <3>5, PatchStep
      <4> QED BY <2>0, <3>2, <3>3, <4>1
    <3>6. CASE setBindingCondition /\ ~Conflict
      <4>1. PICK t \in worker.todo :
               worker.pc = "set" /\ worker' = [worker EXCEPT !.todo = @ \ {t}]
        BY <3>6 DEF setBindingCondition
      <4> QED BY <2>0, <3>3, <4>1
    <3>7. CASE Conflict
      BY <3>2, <3>7 DEF Conflict, Done
    <3> QED BY <3>1, <3>2, <3>4, <3>5, <3>6, <3>7 DEF Next, Controller, Drop,
               Dequeue, SyncPod, SyncClaim, Nominate, Bind, Timeout, Delete,
               Allocate, Scheduler, Reconciled, Crash, Done, vars
  <2> QED BY <2>2, <2>3
<1>3. QED BY <1>1, <1>2, TypesAndWorker, ConfigsAreAlternatives, PTL DEF Spec

-----------------------------------------------------------------------------
(* The claims of p with a device of this driver that no other pod          *)
(* references.                                                             *)
OwnClaims(p) == {c \in ClaimsOf[p] \intersect Gated :
                    \A q \in Pod \ {p} : c \notin ClaimsOf[q]}

(* A claim with ImageConfigs has the device of this driver, so that its    *)
(* condition guards what its allocation configures, and is its pod's own.  *)
(* Claims from a template such as that of demo/scenario-1 are so.  (With   *)
(* the device in another claim, as in demo/scenario-2, or with a shared    *)
(* claim, the condition can be set for what another allocation or another  *)
(* pod has.)                                                               *)
OwnConfigured ==
    \A p \in Pod : \A c \in ClaimsOf[p] :
       UNION ConfigsOf[c] # {} => c \in OwnClaims(p)

(* What the informer has of a claim with the condition is configured as the*)
(* claim is: the condition was set from that version.                      *)
ConditionIsKnown ==
    \A c \in Claim : claim[c].cond => claimCache[c].config = claim[c].config

(* The worker has read the ImageConfigs of each claim whose condition is   *)
(* set or that it can still set, and sets conditions of its pod's claims   *)
(* only, after the pod got those images or was thought to have them.       *)
WorkerKnows ==
    worker.pc # "idle" =>
       /\ WellConfigured(worker.configs)
       /\ \A c \in ClaimsOf[worker.pod] :
             claim[c].cond => claim[c].config \subseteq worker.configs
       /\ \A t \in worker.todo :
             /\ t[1] \in ClaimsOf[worker.pod]
             /\ t[2] <= claimCache[t[1]].rv
             /\ t[2] = claim[t[1]].rv => claim[t[1]].config \subseteq worker.configs
       /\ worker.pc = "set"
             => Has(pod[worker.pod].image, Owed(worker.pod, worker.configs))

(* The condition on a claim of its own says that a pod has what that claim *)
(* is now allocated and owes it.                                           *)
ConditionMeansPatched ==
    \A p \in Pod : \A c \in OwnClaims(p) :
       claim[c].cond => Has(pod[p].image, Owed(p, claim[c].config))

(* A bound pod keeps the conditions it was bound with.                     *)
BoundHasConditions ==
    \A p \in Pod : pod[p].phase = "bound" => \A c \in OwnClaims(p) : claim[c].cond

PatchInv == /\ ConditionIsKnown
            /\ WorkerKnows
            /\ ConditionMeansPatched

(* A quiet step keeps what the conditions say.                             *)
LEMMA QuietStepKeepsPatched ==
    ASSUME TypeOK, TypeOK', WorkerHasPod, CopiesOfClaims, PatchInv, Quiet,
           UNCHANGED misled, \A p \in Pod : pod'[p].image = pod[p].image
    PROVE  PatchInv'
<1> USE ReconcilerAssumption DEF PatchInv
<1>0. /\ \A c \in Claim : /\ claim[c].rv \in Nat /\ claim'[c].rv \in Nat
                          /\ claimCache[c].rv \in Nat /\ claimCache'[c].rv \in Nat
      /\ \A t \in worker.todo : t[1] \in Claim /\ t[2] \in Nat
  BY DEF TypeOK
<1>1. ConditionIsKnown'
  BY <1>0 DEF ConditionIsKnown, Quiet
<1>2. WorkerKnows'
  <2>1. CASE worker' = Idle
    BY <2>1 DEF WorkerKnows, Idle
  <2>2. CASE worker' = worker /\ worker.pc # "idle"
    <3>0. worker.pod \in Pod /\ ClaimsOf[worker.pod] \subseteq Claim
      BY <2>2 DEF WorkerHasPod
    <3>1. ASSUME NEW c \in ClaimsOf[worker.pod], claim'[c].cond
          PROVE  claim'[c].config \subseteq worker.configs
      BY <2>2, <3>0, <3>1 DEF WorkerKnows, Quiet
    <3>2. ASSUME NEW t \in worker.todo
          PROVE  /\ t[1] \in ClaimsOf[worker.pod]
                 /\ t[2] <= claimCache'[t[1]].rv
                 /\ t[2] = claim'[t[1]].rv
                      => claim'[t[1]].config \subseteq worker.configs
      <4>1. PICK c \in Claim : c = t[1]
        BY <1>0
      <4>2. /\ c \in ClaimsOf[worker.pod]
            /\ t[2] <= claimCache[c].rv /\ t[2] <= claim[c].rv
            /\ t[2] = claim[c].rv => claim[c].config \subseteq worker.configs
        BY <2>2, <4>1 DEF WorkerKnows, CopiesOfClaims
      <4>3. t[2] <= claimCache'[c].rv
        BY <1>0, <4>2 DEF Quiet
      <4>4. t[2] = claim'[c].rv => claim'[c] = claim[c]
        BY <1>0, <4>2 DEF Quiet
      <4> QED BY <4>1, <4>2, <4>3, <4>4
    <3>3. worker.pc = "set"
            => Has(pod'[worker.pod].image, Owed(worker.pod, worker.configs))
      BY <2>2, <3>0 DEF WorkerKnows
    <3> QED BY <2>2, <3>0, <3>1, <3>2, <3>3 DEF WorkerKnows, Owed, Sole,
               Alternatives
  <2>3. CASE worker' = worker /\ worker.pc = "idle"
    BY <2>3 DEF WorkerKnows
  <2> QED BY <2>1, <2>2, <2>3 DEF Quiet
<1>3. ConditionMeansPatched'
  <2>1. \A p \in Pod : OwnClaims(p) \subseteq Claim
    BY DEF OwnClaims
  <2>2. ASSUME NEW p \in Pod, NEW c \in OwnClaims(p),
               claim'[c].cond
        PROVE  Has(pod'[p].image, Owed(p, claim'[c].config))
    BY <2>1, <2>2 DEF ConditionMeansPatched, Quiet
  <2> QED BY <2>2 DEF ConditionMeansPatched, OwnClaims, Owed, Sole, Alternatives
<1> QED BY <1>1, <1>2, <1>3

(* Each step of a reconciliation that succeeds keeps it as well: the reads, *)
(* the patch, and the condition, which is only set on the version that was *)
(* read.                                                                   *)
LEMMA StepKeepsPatched ==
    ASSUME TypeOK, TypeOK', WorkerHasPod, CopiesOfClaims,
           ConditionNeedsAllocation, WorkerVerifies, PatchInv, [Next]_vars
    PROVE  PatchInv'
<1> USE ReconcilerAssumption DEF PatchInv
<1>0. /\ claim \in [Claim -> ClaimState] /\ claimCache \in [Claim -> ClaimState]
      /\ \A t \in worker.todo : t[1] \in Claim /\ t[2] \in Nat
      /\ worker \in WorkerState
  BY DEF TypeOK
<1>o. \A p \in Pod : OwnClaims(p) \subseteq Claim \intersect ClaimsOf[p]
  BY DEF OwnClaims
<1>1. ASSUME NEW p \in Pod, Reconcile(p) PROVE PatchInv'
  <2>1. /\ UNCHANGED <<pod, claim, claimCache, misled>>
        /\ worker'.pc = "patch" /\ worker'.pod = p
        /\ worker'.configs = Configs(p) /\ WellConfigured(Configs(p))
        /\ worker'.todo = {<<c, claimCache[c].rv>> : c \in Pending(p)}
    BY <1>1 DEF Reconcile, Dequeue
  <2>2. \A c \in ClaimsOf[p] : claimCache[c].config \subseteq Configs(p)
    BY DEF Configs
  <2>3. ASSUME NEW c \in ClaimsOf[p], claim[c].cond
        PROVE  claim[c].config \subseteq Configs(p)
    BY <2>2, <2>3 DEF ConditionIsKnown
  <2>4. ASSUME NEW c \in Pending(p)
        PROVE  /\ c \in ClaimsOf[p] /\ claimCache[c].rv <= claimCache[c].rv
               /\ claimCache[c].rv = claim[c].rv
                    => claim[c].config \subseteq Configs(p)
    BY <1>0, <2>2 DEF Pending, CopiesOfClaims
  <2>5. WorkerKnows'
    <3>1. ASSUME NEW t \in worker'.todo
          PROVE  /\ t[1] \in ClaimsOf[p]
                 /\ t[2] <= claimCache[t[1]].rv
                 /\ t[2] = claim[t[1]].rv => claim[t[1]].config \subseteq Configs(p)
      <4>1. PICK c \in Pending(p) : t = <<c, claimCache[c].rv>>
        BY <2>1
      <4> QED BY <2>4, <4>1
    <3>2. WellConfigured(worker'.configs)
      BY <2>1
    <3> QED BY <2>1, <2>3, <3>1, <3>2 DEF WorkerKnows, WellConfigured
  <2> QED BY <2>1, <2>5 DEF ConditionIsKnown, ConditionMeansPatched, OwnClaims,
             Owed, Sole, Alternatives
<1>2. CASE patchImages
  <2>1. PICK q \in Pod : q = worker.pod /\ worker.pc = "patch"
    BY <1>2, PatchStep
  <2>2. /\ UNCHANGED <<claim, claimCache>>
        /\ \A p \in Pod : p # q => /\ pod'[p].image = pod[p].image
                                   /\ p \in misled' <=> p \in misled
        /\ \/ worker' = Idle /\ UNCHANGED <<pod, misled>>
           \/ /\ worker' = [worker EXCEPT !.pc = "set"]
              /\ \/ /\ worker.verified
                    /\ UNCHANGED pod
                    /\ q \in misled' <=> ~Has(pod[q].image, worker.configs)
                 \/ /\ q \notin misled'
                    /\ pod'[q].image = Applied(worker.configs, pod[q].image)
    BY <1>2, <2>1, PatchStep
  <2>3. CASE worker' = Idle
    <3>1. Quiet
      BY <2>2, <2>3 DEF Quiet
    <3>2. UNCHANGED <<pod, misled>>
      BY <1>0, <2>2, <2>3 DEF Idle
    <3> QED BY <3>1, <3>2, QuietStepKeepsPatched
  <2>4. CASE worker' = [worker EXCEPT !.pc = "set"]
    <3>1. worker' # Idle
      BY <1>0, <2>4 DEF Idle
    <3>2. /\ worker'.pod = q /\ worker'.configs = worker.configs
          /\ worker'.todo = worker.todo /\ worker'.pc = "set"
      BY <1>0, <2>1, <2>4
    <3>3. Has(pod'[q].image, IF q \in misled' THEN worker.configs \intersect Sole(q)
                                             ELSE worker.configs)
      <4>1. CASE q \notin misled'
        BY <2>1, <2>2, <3>1, <4>1, AppliedHas DEF WorkerKnows
      <4>2. CASE q \in misled'
        BY <2>1, <2>2, <3>1, <4>2 DEF WorkerVerifies
      <4> QED BY <4>1, <4>2
    <3>4. WellConfigured(worker'.configs)
      BY <2>1, <3>2 DEF WorkerKnows
    <3>5. WorkerKnows'
      BY <2>1, <2>2, <3>2, <3>3, <3>4 DEF WorkerKnows, WellConfigured, Owed,
         Sole, Alternatives
    <3>6. ASSUME NEW p \in Pod, NEW c \in OwnClaims(p), claim[c].cond
          PROVE  Has(pod'[p].image,
                     IF p \in misled' THEN claim[c].config \intersect Sole(p)
                                      ELSE claim[c].config)
      <4>1. CASE p = q
        <5>1. claim[c].config \subseteq worker.configs
          BY <1>o, <2>1, <3>6, <4>1 DEF WorkerKnows
        <5> QED BY <3>3, <4>1, <5>1 DEF Has
      <4>2. CASE p # q
        <5>1. Has(pod[p].image, Owed(p, claim[c].config))
          BY <3>6 DEF ConditionMeansPatched
        <5> QED BY <2>2, <4>2, <5>1 DEF Owed
      <4> QED BY <4>1, <4>2
    <3> QED BY <2>2, <3>5, <3>6 DEF ConditionIsKnown, ConditionMeansPatched,
               OwnClaims, Owed, Sole, Alternatives
  <2> QED BY <2>2, <2>3, <2>4
<1>3. CASE setBindingCondition /\ ~Conflict
  <2>1. PICK t \in worker.todo :
           /\ claim[t[1]].rv = t[2]
           /\ claim' = [claim EXCEPT ![t[1]].cond = TRUE, ![t[1]].rv = @ + 1]
           /\ worker' = [worker EXCEPT !.todo = @ \ {t}]
           /\ UNCHANGED <<pod, claimCache, misled>>
           /\ worker.pc = "set"
    BY <1>3 DEF setBindingCondition
  <2>2. PICK q \in Pod : q = worker.pod
    BY <2>1 DEF WorkerHasPod
  <2>3. PICK c \in Claim : c = t[1]
    BY <1>0
  <2>4. /\ claim'[c].config = claim[c].config
        /\ claim'[c].rv = claim[c].rv + 1
        /\ \A d \in Claim \ {c} : claim'[d] = claim[d]
    BY <1>0, <2>1, <2>3
  <2>5. /\ c \in ClaimsOf[q] /\ t[2] <= claimCache[c].rv
        /\ claim[c].config \subseteq worker.configs
    BY <2>1, <2>2, <2>3 DEF WorkerKnows
  <2>6. claimCache[c] = claim[c]
    BY <1>0, <2>1, <2>3, <2>5 DEF CopiesOfClaims
  <2>7. /\ worker'.pod = q /\ worker'.configs = worker.configs
        /\ worker'.pc = "set" /\ worker'.todo \subseteq worker.todo
    BY <1>0, <2>1, <2>2
  <2>8. ConditionIsKnown'
    BY <2>1, <2>4, <2>6 DEF ConditionIsKnown
  <2>9. WorkerKnows'
    <3>1. WellConfigured(worker'.configs)
      BY <2>1, <2>7 DEF WorkerKnows
    <3>2. ASSUME NEW d \in ClaimsOf[q], claim'[d].cond
          PROVE  claim'[d].config \subseteq worker.configs
      BY <2>1, <2>2, <2>4, <2>5, <3>2 DEF WorkerKnows
    <3>3. ASSUME NEW u \in worker.todo
          PROVE  /\ u[1] \in ClaimsOf[q] /\ u[2] <= claimCache[u[1]].rv
                 /\ u[2] = claim'[u[1]].rv
                      => claim'[u[1]].config \subseteq worker.configs
      <4>1. PICK d \in Claim : d = u[1]
        BY <1>0
      <4>2. /\ d \in ClaimsOf[q] /\ u[2] <= claimCache[d].rv
            /\ u[2] = claim[d].rv => claim[d].config \subseteq worker.configs
        BY <2>1, <2>2, <4>1 DEF WorkerKnows
      <4>3. CASE d = c
        BY <2>4, <2>5, <4>1, <4>2, <4>3
      <4>4. CASE d # c
        BY <2>4, <4>1, <4>2, <4>4
      <4> QED BY <4>3, <4>4
    <3>4. Has(pod[q].image, Owed(q, worker.configs))
      BY <2>1, <2>2 DEF WorkerKnows
    <3> QED BY <2>1, <2>7, <3>1, <3>2, <3>3, <3>4 DEF WorkerKnows,
               WellConfigured, Owed, Sole, Alternatives
  <2>10. ASSUME NEW p \in Pod, NEW d \in OwnClaims(p), claim'[d].cond
         PROVE  Has(pod[p].image, Owed(p, claim'[d].config))
    <3>1. CASE d = c
      <4>1. p = q
        BY <2>5, <3>1 DEF OwnClaims
      <4>2. Has(pod[q].image, Owed(q, worker.configs))
        BY <2>1, <2>2 DEF WorkerKnows
      <4>3. Owed(q, claim'[d].config) \subseteq Owed(q, worker.configs)
        BY <2>4, <2>5, <3>1 DEF Owed
      <4> QED BY <4>1, <4>2, <4>3 DEF Has
    <3>2. CASE d # c
      BY <1>o, <2>4, <2>10, <3>2 DEF ConditionMeansPatched
    <3> QED BY <3>1, <3>2
  <2> QED BY <2>1, <2>8, <2>9, <2>10 DEF ConditionMeansPatched, OwnClaims,
             Owed, Sole, Alternatives
<1>4. CASE /\ ~patchImages /\ (setBindingCondition => Conflict)
           /\ \A p \in Pod : ~Reconcile(p)
  <2>1. Quiet
    BY <1>4, OtherStepsAreQuiet
  <2> QED BY <1>4, <2>1, OnlyPatchChangesImages, QuietStepKeepsPatched
<1> QED BY <1>1, <1>2, <1>3, <1>4

(* The scheduler binds with the conditions set, and takes none back from a *)
(* bound pod.                                                              *)
LEMMA StepKeepsConditions ==
    ASSUME TypeOK, WorkerHasPod, ConditionNeedsAllocation, BoundHasConditions,
           [Next]_vars
    PROVE  BoundHasConditions'
<1> USE ReconcilerAssumption
<1>0. pod \in [Pod -> PodState] /\ claim \in [Claim -> ClaimState]
      /\ \A t \in worker.todo : t[1] \in Claim
  BY DEF TypeOK
<1>o. \A p \in Pod : OwnClaims(p) \subseteq Claim \intersect ClaimsOf[p]
  BY DEF OwnClaims
<1>1. ASSUME \A p \in Pod : pod'[p].phase = "bound" => pod[p].phase = "bound",
             \A c \in Claim : claim[c].cond => claim'[c].cond
      PROVE  BoundHasConditions'
  BY <1>o, <1>1 DEF BoundHasConditions, OwnClaims
<1>2. ASSUME NEW p \in Pod, Nominate(p) \/ Delete(p)
      PROVE  BoundHasConditions'
  <2>1. \A q \in Pod : pod'[q].phase = "bound" => pod[q].phase = "bound"
    BY <1>0, <1>2 DEF Nominate, Delete, Phase
  <2> QED BY <1>1, <1>2, <2>1 DEF Nominate, Delete
<1>3. ASSUME NEW p \in Pod, Bind(p) PROVE BoundHasConditions'
  <2>1. \A q \in Pod \ {p} : pod'[q].phase = pod[q].phase
    BY <1>0, <1>3 DEF Bind, Phase
  <2>2. UNCHANGED claim /\ \A c \in OwnClaims(p) : claim[c].cond
    BY <1>3 DEF Bind, Ready, OwnClaims
  <2> QED BY <2>1, <2>2 DEF BoundHasConditions, OwnClaims
<1>4. ASSUME NEW p \in Pod, Timeout(p) PROVE BoundHasConditions'
  <2>1. /\ \A q \in Pod \ {p} : pod'[q].phase = pod[q].phase
        /\ pod'[p].phase = "pending"
    BY <1>0, <1>4 DEF Timeout, Phase
  <2>2. \A c \in Claim \ ClaimsOf[p] : claim'[c] = claim[c]
    BY <1>4 DEF Timeout
  <2>3. ASSUME NEW q \in Pod, pod'[q].phase = "bound", NEW c \in OwnClaims(q)
        PROVE  claim'[c].cond
    <3>1. q # p /\ pod[q].phase = "bound"
      BY <2>1, <2>3
    <3>2. c \in Claim \ ClaimsOf[p]
      BY <1>o, <3>1 DEF OwnClaims
    <3> QED BY <2>2, <3>1, <3>2 DEF BoundHasConditions
  <2> QED BY <2>3 DEF BoundHasConditions, OwnClaims
<1>5. ASSUME NEW p \in Pod, NEW d \in Claim, Allocate(p, d)
      PROVE  BoundHasConditions'
  <2>1. \A c \in Claim : claim[c].cond => claim'[c].cond
    BY <1>0, <1>5 DEF Allocate, ConditionNeedsAllocation
  <2> QED BY <1>1, <1>5, <2>1 DEF Allocate
<1>6. CASE patchImages
  <2>1. UNCHANGED claim /\ \A p \in Pod : pod'[p].phase = pod[p].phase
    BY <1>6, PatchStep
  <2> QED BY <1>1, <2>1
<1>7. CASE setBindingCondition
  <2>1. UNCHANGED pod
    BY <1>7 DEF setBindingCondition, Conflict
  <2>2. \A c \in Claim : claim[c].cond => claim'[c].cond
    <3>1. CASE UNCHANGED claim
      BY <3>1
    <3>2. CASE ~UNCHANGED claim
      <4>1. PICK t \in worker.todo :
               claim' = [claim EXCEPT ![t[1]].cond = TRUE, ![t[1]].rv = @ + 1]
        BY <1>7, <3>2 DEF setBindingCondition, Conflict
      <4> QED BY <1>0, <4>1
    <3> QED BY <3>1, <3>2
  <2> QED BY <1>1, <2>1, <2>2
<1>8. CASE UNCHANGED <<pod, claim>>
  BY <1>1, <1>8
<1> QED BY <1>2, <1>3, <1>4, <1>5, <1>6, <1>7, <1>8 DEF Next, Controller, Drop,
           Dequeue, Reconcile, SyncPod, SyncClaim, Reconciled, Crash, vars

(* Whichever subrequests are allocated, and allocated again after a binding*)
(* timeout: where each configured claim is its pod's own and carries the   *)
(* condition, a pod is bound only with the images of its current           *)
(* allocations; if an old copy of it was taken for verified, with those    *)
(* that all alternatives agree on.                                         *)
THEOREM BoundOrMisled == OwnConfigured => (Spec => []BoundUnlessMisled)
<1> SUFFICES ASSUME OwnConfigured PROVE Spec => []BoundUnlessMisled
  OBVIOUS
<1>1. Init => PatchInv /\ BoundHasConditions
  BY ReconcilerAssumption
  DEF Init, Idle, PatchInv, ConditionIsKnown, WorkerKnows,
      ConditionMeansPatched, BoundHasConditions, OwnClaims
<1>2. /\ TypeOK /\ TypeOK' /\ WorkerHasPod
      /\ CopiesOfClaims /\ ConditionNeedsAllocation /\ WorkerVerifies
      /\ PatchInv /\ BoundHasConditions /\ [Next]_vars
      => PatchInv' /\ BoundHasConditions'
  BY StepKeepsPatched, StepKeepsConditions
<1>3. AllocatedConfigs /\ PatchInv /\ BoundHasConditions => BoundUnlessMisled
  <2> SUFFICES ASSUME AllocatedConfigs, PatchInv, BoundHasConditions,
                      NEW p \in Pod, pod[p].phase = "bound"
               PROVE  Has(pod[p].image, Owed(p, Configured(p)))
    BY DEF BoundUnlessMisled
  <2>1. ASSUME NEW c \in ClaimsOf[p]
        PROVE  Has(pod[p].image, Owed(p, claim[c].config))
    <3>1. CASE claim[c].config = {}
      BY <3>1 DEF Has, Owed
    <3>2. CASE claim[c].config # {}
      <4>1. c \in Claim
        BY ReconcilerAssumption
      <4>2. c \in OwnClaims(p)
        BY <3>2, <4>1 DEF AllocatedConfigs, OwnConfigured
      <4> QED BY <4>2 DEF BoundHasConditions, PatchInv, ConditionMeansPatched
    <3> QED BY <3>1, <3>2
  <2> QED BY <2>1 DEF Owed, Configured, Has
<1>4. QED BY <1>1, <1>2, <1>3, TypesAndWorker, CopiesAndConditions,
             ConfigsAreAlternatives, SoleVerified, PTL DEF Spec

(* So where the alternatives of a pod's claims agree on the image of each  *)
(* container, a pod is bound only with the images of its allocations.      *)
THEOREM BoundOnlyPatched ==
    OwnConfigured /\ (\A p \in Pod : Sole(p) = Alternatives(p))
       => (Spec => []BoundPodsPatched)
<1> SUFFICES ASSUME OwnConfigured, \A p \in Pod : Sole(p) = Alternatives(p)
             PROVE  Spec => []BoundPodsPatched
  OBVIOUS
<1>1. AllocatedConfigs /\ BoundUnlessMisled => BoundPodsPatched
  <2>1. ASSUME AllocatedConfigs, NEW p \in Pod
        PROVE  Configured(p) \subseteq Alternatives(p)
    BY <2>1, ReconcilerAssumption
    DEF AllocatedConfigs, Configured, Alternatives
  <2>2. ASSUME AllocatedConfigs, NEW p \in Pod
        PROVE  Owed(p, Configured(p)) = Configured(p)
    BY <2>1, <2>2 DEF Owed
  <2> QED BY <2>2 DEF BoundUnlessMisled, BoundPodsPatched, Patched
<1>2. Spec => []BoundUnlessMisled
  BY BoundOrMisled
<1>3. QED BY <1>1, <1>2, ConfigsAreAlternatives, PTL
=============================================================================
