--------------------------- MODULE PodReconciler ---------------------------
(* dra-driver-image-configurator: the controller that patches the images of*)
(* a nominated pod as the ImageConfigs of its claims say and then sets the *)
(* binding condition the scheduler waits for.  Pods and claims live in the *)
(* API server, which refuses an update made from an old resourceVersion;   *)
(* the controller reads them from informers that lag behind.  The scheduler*)
(* allocates claims, binds the pod, or gives up waiting and starts over,   *)
(* when it may choose another subrequest, with other ImageConfigs.         *)
EXTENDS Integers, FiniteSets

CONSTANTS
    Pod, Claim, Image,
    Name,           \* the container names an ImageConfig may give
    Container,      \* those that name a container of the pods
    Original,       \* the image of every container before it is patched
    None,
    ClaimsOf,       \* the claims each pod references
    Gated,          \* claims with a device of this driver, which carries the
                    \* binding condition image-updated
    ConfigsOf,      \* for each claim the alternatives its allocation chooses
                    \* from, each a set of ImageConfigs <<container, image>>
    MaxCrashes, MaxTimeouts   \* bounds

ASSUME ReconcilerAssumption ==
    /\ ClaimsOf \in [Pod -> SUBSET Claim]
    /\ Gated \subseteq Claim
    /\ ConfigsOf \in [Claim -> SUBSET SUBSET (Name \X Image)]
    /\ Container \subseteq Name
    /\ Original \in Image
    /\ None \notin Pod
    /\ MaxCrashes \in Nat /\ MaxTimeouts \in Nat

VARIABLES
    pod,          \* API server: version, phase, image of each container
    claim,        \* API server: version, allocated, condition set, and the
                  \* ImageConfigs of the allocation
    podCache,     \* the pod informer
    claimCache,   \* the claim informer
    queue,        \* the work queue
    worker,       \* the one reconcile worker: its step and local variables
    crashes, timeouts,
    misled        \* history: pods whose last verification compared a copy with
                  \* the configured images while the pod had others

vars == <<pod, claim, podCache, claimCache, queue, worker, crashes, timeouts,
          misled>>

PodState == [rv : Nat, phase : {"pending", "nominated", "bound", "deleting"},
             image : [Container -> Image]]
ClaimState == [rv : Nat, alloc : BOOLEAN, cond : BOOLEAN,
               config : SUBSET (Name \X Image)]
WorkerState == [pc : {"idle", "patch", "set"}, pod : Pod \union {None},
                rv : Nat, configs : SUBSET (Name \X Image),
                verified : BOOLEAN, todo : SUBSET (Claim \X Nat)]
Idle == [pc |-> "idle", pod |-> None, rv |-> 0, configs |-> {},
         verified |-> FALSE, todo |-> {}]

TypeOK ==
    /\ pod \in [Pod -> PodState]
    /\ claim \in [Claim -> ClaimState]
    /\ podCache \in [Pod -> PodState]
    /\ claimCache \in [Claim -> ClaimState]
    /\ queue \subseteq Pod
    /\ worker \in WorkerState
    /\ crashes \in 0..MaxCrashes
    /\ timeouts \in 0..MaxTimeouts
    /\ misled \subseteq Pod

Init ==
    /\ pod = [p \in Pod |-> [rv |-> 0, phase |-> "pending",
                             image |-> [k \in Container |-> Original]]]
    /\ claim = [c \in Claim |-> [rv |-> 0, alloc |-> FALSE, cond |-> FALSE,
                                 config |-> {}]]
    /\ podCache = pod
    /\ claimCache = claim
    /\ queue = {}
    /\ worker = Idle
    /\ crashes = 0 /\ timeouts = 0
    /\ misled = {}

-----------------------------------------------------------------------------
(* The ImageConfigs of the allocations of p's claims, as the informer has  *)
(* them, and as they are.                                                  *)
Configs(p) == UNION {claimCache[c].config : c \in ClaimsOf[p]}
Configured(p) == UNION {claim[c].config : c \in ClaimsOf[p]}

(* Some ImageConfig, no two for one container, none for an unknown one.    *)
WellConfigured(configs) ==
    /\ configs # {}
    /\ \A a, b \in configs : a[1] = b[1] => a[2] = b[2]
    /\ \A a \in configs : a[1] \in Container

Applied(configs, image) ==
    [k \in Container |-> IF \E a \in configs : a[1] = k
                         THEN (CHOOSE a \in configs : a[1] = k)[2]
                         ELSE image[k]]

(* Each configured container has its image.                                *)
Has(image, configs) ==
    \A a \in configs : a[1] \in Container /\ image[a[1]] = a[2]

Patched(p) == Has(pod[p].image, Configured(p))

Done == worker' = Idle

(* Reconcile up to patchImages, on what the informers hold.  The reads are *)
(* one step: an informer that is behind at a later read could as well have *)
(* been behind at an earlier one.  A claim has one condition for all its   *)
(* results of this driver, as main.go publishes one device, and Gated is   *)
(* fixed, as it is its requests that ask for the device.  The pod informer *)
(* has nominated pods only (main.go), others are not found.                *)
Allocated(p) == \A c \in ClaimsOf[p] : claimCache[c].alloc
Pending(p) == {c \in ClaimsOf[p] \intersect Gated : ~claimCache[c].cond}

Dequeue(p) == /\ worker = Idle
              /\ p \in queue
              /\ UNCHANGED <<pod, claim, podCache, claimCache, crashes,
                             timeouts, misled>>

Found(p) == podCache[p].phase \in {"nominated", "bound"}

(* Mutant of Drop: a claim that is not allocated is no error.              *)
DropUnallocated(p) == /\ Dequeue(p)
                      /\ \/ ~Found(p) \/ ~Allocated(p)
                         \/ Pending(p) = {} \/ ~WellConfigured(Configs(p))
                      /\ queue' = queue \ {p}
                      /\ UNCHANGED worker

(* Not found or being deleted, or nothing is pending, or a TerminalError:  *)
(* the request is not queued again.                                        *)
Drop(p) == /\ Dequeue(p)
           /\ \/ ~Found(p)
              \/ Allocated(p) /\ (Pending(p) = {} \/ ~WellConfigured(Configs(p)))
           /\ queue' = queue \ {p}
           /\ UNCHANGED worker

(* A claim that is not allocated is an error, and the request is retried:  *)
(* nothing changes.                                                        *)
Reconcile(p) ==
    /\ Dequeue(p)
    /\ Found(p) /\ Allocated(p) /\ Pending(p) # {}
    /\ WellConfigured(Configs(p))
    /\ queue' = queue \ {p}
    /\ worker' = [pc |-> "patch", pod |-> p, rv |-> podCache[p].rv,
                  configs |-> Configs(p),
                  verified |-> Has(podCache[p].image, Configs(p)),
                  todo |-> {<<c, claimCache[c].rv>> : c \in Pending(p)}]

(* Mutant of Conflict: the request is queued after it was forgotten.       *)
ConflictForgets == /\ queue' = queue \union {Idle.pod}
                   /\ Done
                   /\ UNCHANGED <<pod, claim>>

(* Update conflicts: the request goes back to the queue.                   *)
Conflict == /\ queue' = queue \union {worker.pod}
            /\ Done
            /\ UNCHANGED <<pod, claim>>

(* Mutant of patchImages: the error of Update is ignored.                  *)
patchImagesUnchecked ==
    LET p == worker.pod IN
    /\ worker.pc = "patch"
    /\ pod' = IF worker.verified \/ pod[p].rv # worker.rv THEN pod
              ELSE [pod EXCEPT ![p].image = Applied(worker.configs, @),
                               ![p].rv = @ + 1]
    /\ worker' = [worker EXCEPT !.pc = "set"]
    /\ misled' = misled \ {p}
    /\ UNCHANGED <<claim, queue, podCache, claimCache, crashes, timeouts>>

(* No update when the copy that was read needs none, whatever the pod has  *)
(* by now.                                                                 *)
patchImages ==
    LET p == worker.pod IN
    /\ worker.pc = "patch"
    /\ \/ /\ worker.verified
          /\ worker' = [worker EXCEPT !.pc = "set"]
          /\ misled' = IF Has(pod[p].image, worker.configs)
                       THEN misled \ {p} ELSE misled \union {p}
          /\ UNCHANGED <<pod, claim, queue>>
       \/ /\ ~worker.verified
          /\ pod[p].rv = worker.rv
          /\ pod' = [pod EXCEPT ![p].image = Applied(worker.configs, @),
                                ![p].rv = @ + 1]
          /\ worker' = [worker EXCEPT !.pc = "set"]
          /\ misled' = misled \ {p}
          /\ UNCHANGED <<claim, queue>>
       \/ /\ ~worker.verified
          /\ pod[p].rv # worker.rv
          /\ Conflict
          /\ UNCHANGED misled
    /\ UNCHANGED <<podCache, claimCache, crashes, timeouts>>

(* Mutant of setBindingCondition: a patch, whatever the version is.        *)
setBindingConditionBlindly ==
    /\ worker.pc = "set"
    /\ \E t \in worker.todo :
          /\ claim' = [claim EXCEPT ![t[1]].cond = TRUE, ![t[1]].rv = @ + 1]
          /\ worker' = [worker EXCEPT !.todo = @ \ {t}]
    /\ UNCHANGED <<pod, queue, podCache, claimCache, crashes, timeouts,
                   misled>>

(* One claim per update, from the version that was read.                   *)
setBindingCondition ==
    /\ worker.pc = "set"
    /\ \E t \in worker.todo :
          \/ /\ claim[t[1]].rv = t[2]
             /\ claim' = [claim EXCEPT ![t[1]].cond = TRUE, ![t[1]].rv = @ + 1]
             /\ worker' = [worker EXCEPT !.todo = @ \ {t}]
             /\ UNCHANGED <<pod, queue>>
          \/ /\ claim[t[1]].rv # t[2]
             /\ Conflict
    /\ UNCHANGED <<podCache, claimCache, crashes, timeouts, misled>>

Reconciled == /\ worker.pc = "set"
              /\ worker.todo = {}
              /\ Done
              /\ UNCHANGED <<pod, claim, podCache, claimCache, queue, crashes,
                             timeouts, misled>>

(* The leader stops and another starts: its informers list everything, and *)
(* every pod is queued.                                                    *)
Crash == /\ crashes < MaxCrashes
         /\ crashes' = crashes + 1
         /\ Done
         /\ podCache' = pod
         /\ claimCache' = claim
         /\ queue' = Pod
         /\ UNCHANGED <<pod, claim, timeouts, misled>>

-----------------------------------------------------------------------------
(* The informers.  Only pods are watched by the controller.                *)
SyncPod(p) == /\ podCache[p] # pod[p]
              /\ podCache' = [podCache EXCEPT ![p] = pod[p]]
              /\ queue' = queue \union {p}
              /\ UNCHANGED <<pod, claim, claimCache, worker, crashes, timeouts,
                             misled>>

SyncClaim(c) == /\ claimCache[c] # claim[c]
                /\ claimCache' = [claimCache EXCEPT ![c] = claim[c]]
                /\ UNCHANGED <<pod, claim, podCache, queue, worker, crashes,
                               timeouts, misled>>

(* The scheduler.                                                          *)
Scheduler == UNCHANGED <<podCache, claimCache, queue, worker, crashes, misled>>

Phase(p, from, to) == /\ pod[p].phase = from
                      /\ pod' = [pod EXCEPT ![p].phase = to, ![p].rv = @ + 1]

Nominate(p) == /\ Phase(p, "pending", "nominated")
               /\ Scheduler
               /\ UNCHANGED <<claim, timeouts>>

(* The allocation carries the ImageConfigs of the subrequest it satisfies. *)
Allocate(p, c) == /\ pod[p].phase = "nominated"
                  /\ c \in ClaimsOf[p]
                  /\ ~claim[c].alloc
                  /\ \E config \in ConfigsOf[c] :
                        claim' = [claim EXCEPT ![c].alloc = TRUE,
                                               ![c].config = config,
                                               ![c].rv = @ + 1]
                  /\ Scheduler
                  /\ UNCHANGED <<pod, timeouts>>

Ready(p) == \A c \in ClaimsOf[p] : claim[c].alloc /\ (c \in Gated => claim[c].cond)

Bind(p) == /\ Ready(p)
           /\ Phase(p, "nominated", "bound")
           /\ Scheduler
           /\ UNCHANGED <<claim, timeouts>>

(* Waiting for the binding conditions times out: the claims nobody else    *)
(* uses are deallocated, which clears their device status, and the pod     *)
(* loses its nomination.                                                   *)
Timeout(p) ==
    /\ timeouts < MaxTimeouts
    /\ timeouts' = timeouts + 1
    /\ ~Ready(p)
    /\ Phase(p, "nominated", "pending")
    /\ LET used == UNION {ClaimsOf[q] : q \in {r \in Pod \ {p} :
                             pod[r].phase \in {"nominated", "bound"}}}
       IN  claim' = [c \in Claim |->
                       IF c \in ClaimsOf[p] \ used /\ claim[c].alloc
                       THEN [rv |-> claim[c].rv + 1, alloc |-> FALSE,
                             cond |-> FALSE, config |-> {}]
                       ELSE claim[c]]
    /\ Scheduler

Delete(p) == /\ Phase(p, "nominated", "deleting")
             /\ Scheduler
             /\ UNCHANGED <<claim, timeouts>>

-----------------------------------------------------------------------------
Controller == \/ patchImages \/ setBindingCondition \/ Reconciled

Next == \/ \E p \in Pod : \/ Drop(p) \/ Reconcile(p) \/ SyncPod(p)
                          \/ Nominate(p) \/ Bind(p) \/ Timeout(p) \/ Delete(p)
                          \/ \E c \in Claim : Allocate(p, c)
        \/ \E c \in Claim : SyncClaim(c)
        \/ Controller
        \/ Crash

Spec == Init /\ [][Next]_vars

(* The worker runs, the work queue is first in first out, informers catch  *)
(* up, and the scheduler goes on with a pod it nominated.                  *)
FairSpec == /\ Spec
            /\ WF_vars(Controller)
            /\ \A p \in Pod : /\ SF_vars(Drop(p) \/ Reconcile(p))
                              /\ WF_vars(SyncPod(p))
                              /\ WF_vars(Bind(p))
                              /\ WF_vars(\E c \in Claim : Allocate(p, c))
            /\ \A c \in Claim : WF_vars(SyncClaim(c))

-----------------------------------------------------------------------------
(* README.md of the image configurator: it "reads which subrequest was      *)
(* satisfied, mutates the container image accordingly, and lets the Pod    *)
(* proceed": a bound pod has the images of its allocations.                *)
BoundPodsPatched == \A p \in Pod : pod[p].phase = "bound" => Patched(p)

(* The ImageConfigs of p's claims whose container gets one image whichever *)
(* alternatives are allocated.                                             *)
Alternatives(p) == UNION {UNION ConfigsOf[c] : c \in ClaimsOf[p]}
Sole(p) == {a \in Alternatives(p) :
               \A b \in Alternatives(p) : b[1] = a[1] => b[2] = a[2]}

(* The same, except where a container has a choice of images and the pod   *)
(* was let through because an old copy of it had the one that is now       *)
(* configured ("image verified").  No other stale read, conflict, restart  *)
(* or allocation that is undone and made of another subrequest lets a pod  *)
(* be bound with other images, where the claims that are configured are the*)
(* pod's own and have the condition.                                       *)
Owed(p, configs) == IF p \in misled THEN configs \intersect Sole(p) ELSE configs

BoundUnlessMisled ==
    \A p \in Pod : pod[p].phase = "bound"
                      => Has(pod[p].image, Owed(p, Configured(p)))

(* The condition is only ever on an allocated device: a claim that lost its*)
(* allocation while the worker held an old copy does not get it back from  *)
(* that copy.                                                              *)
ConditionNeedsAllocation == \A c \in Claim : claim[c].cond => claim[c].alloc

(* The allocation has been made and its configuration is an error.         *)
IllConfigured(p) == /\ \A c \in ClaimsOf[p] : claim[c].alloc
                    /\ ~WellConfigured(Configured(p))

(* A nominated pod is bound in the end, unless its configuration is an     *)
(* error, it is deleted or the scheduler gives up waiting.                 *)
PodsProceed == \A p \in Pod :
    pod[p].phase = "nominated" /\ timeouts = 0
       ~> \/ pod[p].phase \in {"bound", "deleting"}
          \/ IllConfigured(p) \/ timeouts > 0
=============================================================================
