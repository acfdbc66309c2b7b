----------------------- MODULE SlicePublisher_proofs -----------------------
(* Proofs about SlicePublisher for any set of models, claims, downloading  *)
(* goroutines and callback goroutines.                                     *)
EXTENDS SlicePublisher, CacheClients_proofs

(* The operations as SlicePublisher calls them.                            *)
USE DEF cacheVars, entries, vars, Unlocked, Notify, Insert, Touch

(* Nobody is called back before NewDriver has registered the callback, and *)
(* NewDriver reads the devices only after the scan.                        *)
StartOrder == /\ onUpdate <=> main = "done"
              /\ ~onUpdate => spawned = 0 /\ inFlight = {}
              /\ main # "start" => booted

(* What NewDriver read and published is current until it is disturbed.     *)
FirstReadIsCurrent == ~disturbed => /\ main = "read" => first = models
                                    /\ main = "published" => published = models

(* The last word is spoken, or the one callback in flight has it.          *)
LastWord == \/ inFlight = {} /\ published = models
            \/ \E w \in Worker : inFlight = {w} /\ snap[w] = models

(* Undisturbed, at most the last reader is in flight; it has the last word *)
(* unless a further callback is pending.                                   *)
LastReadIsCurrent == ~disturbed => /\ \A v, w \in inFlight : v = w
                                   /\ main = "done" /\ spawned = 0 => LastWord

PublisherInv == StartOrder /\ FirstReadIsCurrent /\ LastReadIsCurrent

-----------------------------------------------------------------------------
(* Publishing reads the cache and never changes it: with the publisher     *)
(* running, the cache and its clients behave as CacheClients says, so what *)
(* is proved of them holds here.                                           *)
THEOREM PublisherKeepsClients == PublisherSpec => Spec
<1>1. PublisherInit => Init
  BY DEF PublisherInit
<1>2. [PublisherNext]_allVars => [Next]_vars
  BY DEF PublisherNext, allVars, ReadDevices, Publish, RegisterCallback,
         CallbackRead, CallbackPublish, CallbackFails, CallbackReturns,
         CacheStep, Next
<1>3. QED BY <1>1, <1>2, PTL DEF PublisherSpec, Spec

(* The types of the publisher's state and of the cache below it.           *)
THEOREM PublisherTypeCorrect == PublisherSpec => []PublisherTypeOK
<1>1. PublisherInit /\ TypeOK => PublisherTypeOK
  BY DEF PublisherInit, PublisherTypeOK
<1>2. TypeOK /\ TypeOK' /\ PublisherTypeOK /\ [PublisherNext]_allVars
        => PublisherTypeOK'
  <2> SUFFICES ASSUME TypeOK, TypeOK', PublisherTypeOK,
                      [PublisherNext]_allVars
               PROVE  PublisherTypeOK'
    OBVIOUS
  <2>0. models \subseteq Model
    BY DEF TypeOK, CacheTypeOK
  <2> USE DEF PublisherTypeOK
  <2>1. CASE ReadDevices
    BY <2>0, <2>1 DEF ReadDevices
  <2>2. CASE Publish
    BY <2>2 DEF Publish
  <2>3. CASE RegisterCallback
    BY <2>3 DEF RegisterCallback
  <2>4. ASSUME NEW w \in Worker, CallbackRead(w) PROVE PublisherTypeOK'
    BY <2>0, <2>4 DEF CallbackRead
  <2>5. ASSUME NEW w \in Worker, CallbackPublish(w) \/ CallbackFails(w)
        PROVE  PublisherTypeOK'
    BY <2>5 DEF CallbackPublish, CallbackFails, CallbackReturns
  <2>6. CASE CacheStep
    BY <2>6 DEF CacheStep
  <2>7. CASE UNCHANGED allVars
    BY <2>7 DEF allVars, publisherVars
  <2> QED BY <2>1, <2>2, <2>3, <2>4, <2>5, <2>6, <2>7 DEF PublisherNext
<1>3. QED BY <1>1, <1>2, PublisherKeepsClients, TypeCorrect, PTL
          DEF PublisherSpec

-----------------------------------------------------------------------------
(* After the scan, a step of the cache that changes its models starts a    *)
(* callback if one is registered, and no step registers one or uses one up.*)
LEMMA CacheStepNotifies ==
    ASSUME TypeOK, CacheStep
    PROVE  /\ onUpdate' = onUpdate
           /\ spawned' \in Nat
           /\ ~onUpdate => spawned' = spawned
           /\ spawned' = 0 => spawned = 0
           /\ booted => booted'
           /\ booted /\ onUpdate /\ spawned' = 0 => models' = models
<1> DEFINE Goal == /\ onUpdate' = onUpdate
                   /\ spawned' \in Nat
                   /\ ~onUpdate => spawned' = spawned
                   /\ spawned' = 0 => spawned = 0
                   /\ booted => booted'
                   /\ booted /\ onUpdate /\ spawned' = 0 => models' = models
<1>0. spawned \in Nat /\ onUpdate \in BOOLEAN
  BY DEF TypeOK, CacheTypeOK
<1>1. ASSUME NEW m \in Model, NEW s \in ScanSizes, Scan(m, s) PROVE Goal
  BY <1>0, <1>1 DEF Scan, ScanModel
<1>2. CASE Boot
  BY <1>0, <1>2 DEF Boot
<1>3. ASSUME NEW m \in Model, NEW c \in Claim, Use(m, c) \/ Release(m, c)
      PROVE  Goal
  BY <1>0, <1>3 DEF Use, UseModel, Release, ReleaseModel
<1>4. ASSUME NEW g \in Caller, NEW m \in Model, Download(g, m) PROVE Goal
  BY <1>0, <1>4 DEF Download, EnsureSpace
<1>5. ASSUME NEW g \in Caller, Granted(g) \/ Refused(g) \/ Abandon(g)
      PROVE  Goal
  BY <1>0, <1>5 DEF Granted, SpaceEnsured, Refused, SpaceRefused, Abandon
<1>6. ASSUME NEW g \in Caller, NEW m \in Model, Evict(g, m) PROVE Goal
  BY <1>0, <1>6 DEF Evict, EvictLRU
<1>7. ASSUME NEW g \in Caller, Add(g) PROVE Goal
  BY <1>0, <1>7 DEF Add, AddModel
<1> QED BY <1>1, <1>2, <1>3, <1>4, <1>5, <1>6, <1>7
        DEF CacheStep, EnsureSpaceStep

(* A slice that nothing is about to correct is current, unless the last    *)
(* read of the devices was disturbed, for any number of callbacks.         *)
THEOREM UndisturbedIsCurrent == PublisherSpec => []UndisturbedSliceIsCurrent
<1> USE DEF PublisherInv
<1>1. PublisherInit => PublisherInv
  BY DEF PublisherInit, Init, NewCacheManager, StartOrder,
         FirstReadIsCurrent, LastReadIsCurrent
<1>2. PublisherTypeOK /\ PublisherInv /\ [PublisherNext]_allVars
        => PublisherInv'
  <2> SUFFICES ASSUME PublisherTypeOK, PublisherInv, [PublisherNext]_allVars
               PROVE  PublisherInv'
    OBVIOUS
  <2>0. /\ TypeOK /\ spawned \in Nat /\ onUpdate \in BOOLEAN
        /\ inFlight \subseteq Worker /\ snap \in [Worker -> SUBSET Model]
        /\ disturbed \in BOOLEAN
    BY DEF PublisherTypeOK, TypeOK, CacheTypeOK
  <2> USE DEF StartOrder, FirstReadIsCurrent, LastReadIsCurrent
  <2>1. CASE ReadDevices
    BY <2>0, <2>1 DEF ReadDevices, LastWord
  <2>2. CASE Publish
    BY <2>0, <2>2 DEF Publish, LastWord
  <2>3. CASE RegisterCallback
    BY <2>0, <2>3 DEF RegisterCallback, Register, SetOnUpdate, LastWord
  <2>4. ASSUME NEW w \in Worker, CallbackRead(w) PROVE PublisherInv'
    <3>1. /\ main = "done" /\ onUpdate /\ onUpdate' = onUpdate
          /\ main' = main /\ booted' = booted /\ models' = models
      BY <2>0, <2>4 DEF CallbackRead, RunOnUpdate
    <3>2. ~disturbed' => inFlight' = {w} /\ snap'[w] = models'
      BY <2>0, <2>4, <3>1 DEF CallbackRead
    <3>3. ~disturbed' => LastWord'
      BY <3>2 DEF LastWord
    <3> QED BY <3>1, <3>2, <3>3
  <2>5. ASSUME NEW w \in Worker, CallbackPublish(w) PROVE PublisherInv'
    <3>1. /\ main' = main /\ onUpdate' = onUpdate /\ booted' = booted
          /\ models' = models /\ spawned' = spawned /\ disturbed' = disturbed
          /\ inFlight' = inFlight \ {w} /\ w \in inFlight
          /\ published' = snap[w]
      BY <2>5 DEF CallbackPublish, CallbackReturns
    <3>2. ~disturbed => inFlight' = {}
      BY <3>1
    <3>3. ~disturbed /\ main = "done" /\ spawned = 0 => published' = models
      BY <3>1 DEF LastWord
    <3>4. onUpdate /\ main = "done"
      BY <3>1
    <3> QED BY <3>1, <3>2, <3>3, <3>4 DEF LastWord
  <2>6. ASSUME NEW w \in Worker, CallbackFails(w) PROVE PublisherInv'
    BY <2>0, <2>6 DEF CallbackFails, CallbackReturns
  <2>7. CASE CacheStep
    <3>1. /\ main' = main /\ first' = first /\ inFlight' = inFlight
          /\ snap' = snap /\ published' = published
          /\ disturbed' = (disturbed \/ (/\ main \in {"read", "published"}
                                         /\ models' # models))
      BY <2>7 DEF CacheStep
    <3>2. /\ onUpdate' = onUpdate
          /\ ~onUpdate => spawned' = spawned
          /\ spawned' = 0 => spawned = 0
          /\ booted => booted'
          /\ booted /\ onUpdate /\ spawned' = 0 => models' = models
      BY <2>0, <2>7, CacheStepNotifies
    <3>3. StartOrder'
      BY <3>1, <3>2
    <3>4. FirstReadIsCurrent'
      BY <2>0, <3>1
    <3>5. ~disturbed' /\ main = "done" /\ spawned' = 0 => LastWord'
      <4> SUFFICES ASSUME ~disturbed', main = "done", spawned' = 0
                   PROVE  LastWord'
        OBVIOUS
      <4>1. LastWord /\ models' = models
        BY <2>0, <3>1, <3>2
      <4> QED BY <3>1, <4>1 DEF LastWord
    <3> QED BY <2>0, <3>1, <3>3, <3>4, <3>5
  <2>8. CASE UNCHANGED allVars
    BY <2>8 DEF allVars, publisherVars, LastWord
  <2> QED BY <2>1, <2>2, <2>3, <2>4, <2>5, <2>6, <2>7, <2>8
          DEF PublisherNext
<1>3. PublisherInv => UndisturbedSliceIsCurrent
  BY DEF UndisturbedSliceIsCurrent, Quiet, LastReadIsCurrent, LastWord
<1>4. QED BY <1>1, <1>2, <1>3, PublisherTypeCorrect, PTL DEF PublisherSpec
=============================================================================
