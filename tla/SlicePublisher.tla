--------------------------- MODULE SlicePublisher ---------------------------
(* cmd/model-cache-kubeletplugin/driver.go: how the cached models reach the*)
(* ResourceSlice.  NewDriver starts the kubelet helper (from then on claims*)
(* use the cache), reads the devices, publishes them and only then         *)
(* registers the callback.  Each call of the callback is a goroutine of its*)
(* own that reads the devices and, some time later, publishes what it read.*)
(* PublishResources replaces the whole pool: the last call wins.           *)
(* Composed with CacheClients, which changes the cache underneath.         *)
EXTENDS CacheClients

CONSTANT Worker   \* bound: callback goroutines between read and publication

VARIABLES
    main,        \* how far NewDriver is
    first,       \* the devices NewDriver read
    inFlight,    \* callback goroutines that have read and not yet published
    snap,        \* the devices each of them read
    published,   \* the models last given to PublishResources
    disturbed    \* history: the last read of the devices may not have the
                 \* last word

publisherVars == <<main, first, inFlight, snap, published, disturbed>>
allVars == <<vars, publisherVars>>

PublisherTypeOK == /\ TypeOK
                   /\ main \in {"start", "read", "published", "done"}
                   /\ first \subseteq Model
                   /\ inFlight \subseteq Worker
                   /\ snap \in [Worker -> SUBSET Model]
                   /\ published \subseteq Model
                   /\ disturbed \in BOOLEAN

PublisherInit == /\ Init
                 /\ main = "start"
                 /\ first = {}
                 /\ inFlight = {}
                 /\ snap = [w \in Worker |-> {}]
                 /\ published = {}
                 /\ disturbed = FALSE

ReadDevices == /\ main = "start"
               /\ booted /\ Unlocked
               /\ main' = "read"
               /\ first' = models
               /\ UNCHANGED <<vars, inFlight, snap, published, disturbed>>

Publish == /\ main = "read"
           /\ main' = "published"
           /\ published' = first
           /\ UNCHANGED <<vars, first, inFlight, snap, disturbed>>

RegisterCallback == /\ main = "published"
                    /\ Register
                    /\ main' = "done"
                    /\ UNCHANGED <<first, inFlight, snap, published, disturbed>>

CallbackRead(w) == /\ w \notin inFlight
                   /\ RunOnUpdate
                   /\ inFlight' = inFlight \union {w}
                   /\ snap' = [snap EXCEPT ![w] = models]
                   /\ disturbed' = (inFlight # {})
                   /\ UNCHANGED <<main, first, published>>

CallbackReturns(w) == /\ w \in inFlight
                      /\ inFlight' = inFlight \ {w}
                      /\ snap' = [snap EXCEPT ![w] = {}]
                      /\ UNCHANGED <<vars, main, first>>

CallbackPublish(w) == /\ CallbackReturns(w)
                      /\ published' = snap[w]
                      /\ UNCHANGED disturbed

(* PublishResources fails: the error is only logged.                       *)
CallbackFails(w) == /\ CallbackReturns(w)
                    /\ disturbed' = TRUE
                    /\ UNCHANGED published

(* The scan, claims and downloads; what they change between the read of    *)
(* NewDriver and the registration reaches no callback.                     *)
CacheStep == /\ \/ \E m \in Model, s \in ScanSizes : Scan(m, s)
                \/ Boot
                \/ \E m \in Model, c \in Claim : Use(m, c) \/ Release(m, c)
                \/ \E g \in Caller, m \in Model : Download(g, m)
                \/ \E g \in Caller : EnsureSpaceStep(g) \/ Add(g) \/ Abandon(g)
             /\ disturbed' = (disturbed \/ (/\ main \in {"read", "published"}
                                            /\ models' # models))
             /\ UNCHANGED <<main, first, inFlight, snap, published>>

PublisherNext == \/ ReadDevices \/ Publish \/ RegisterCallback
                 \/ \E w \in Worker : \/ CallbackRead(w)
                                      \/ CallbackPublish(w)
                                      \/ CallbackFails(w)
                 \/ CacheStep

PublisherSpec == PublisherInit /\ [][PublisherNext]_allVars

-----------------------------------------------------------------------------
(* Nothing is under way that would publish.                                *)
Quiet == main = "done" /\ spawned = 0 /\ inFlight = {}

(* A ResourceSlice that nothing is about to correct lists exactly the      *)
(* cached models, unless the last read of the devices was disturbed: by a  *)
(* change between NewDriver's read and the registration of the callback, by*)
(* another callback that had read and not yet published, or by a failed    *)
(* publication.  So a stale slice heals with the next undisturbed callback.*)
UndisturbedSliceIsCurrent == Quiet /\ ~disturbed => published = models

(* README.md:21: "The DRA driver advertises the available cached models".  *)
SliceIsCurrent == Quiet => published = models
=============================================================================
