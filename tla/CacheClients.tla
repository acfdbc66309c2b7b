---------------------------- MODULE CacheClients ----------------------------
(* The cache manager under every use the plugin makes of it: the scan at   *)
(* start, the registration of the callback, claims that use and release    *)
(* models, and the background goroutines of the providers, which call      *)
(* EnsureSpace and, some time later and under another acquisition of the   *)
(* mutex, AddModel.  What the goroutines do in between is left out here    *)
(* (HuggingFaceProvider has it); that the two calls are apart is the point.*)
EXTENDS CacheManager

CONSTANTS
    NoModel,
    ModelSize,   \* the size every provider asks for and accounts (1 MiB)
    ScanSizes,   \* the sizes the walk may find
    MaxSpawned   \* bound: no download starts with this many callbacks pending

ASSUME ClientAssumption == /\ NoModel \notin Model
                           /\ ModelSize \in Nat
                           /\ ScanSizes \subseteq Nat
                           /\ IsFiniteSet(Caller)
                           /\ Caller # {}

VARIABLES
    booted,     \* main.go has finished the scan
    target,     \* the model a goroutine works on, NoModel when it has none
    bootSize    \* what the scan accounted

vars == <<cacheVars, booted, target, bootSize>>

TypeOK == /\ CacheTypeOK
          /\ booted \in BOOLEAN
          /\ target \in [Caller -> Model \union {NoModel}]
          /\ bootSize \in Nat

(* Past EnsureSpace and not yet through AddModel.                          *)
Ensured == {g \in Caller : target[g] # NoModel /\ holder # g}

Init == /\ NewCacheManager
        /\ booted = FALSE
        /\ target = [g \in Caller |-> NoModel]
        /\ bootSize = 0

(* Whose directory it is makes no difference here.                         *)
Scan(m, s) == /\ ~booted
              /\ ScanModel(m, s, "huggingface")
              /\ bootSize' = bootSize + s
              /\ UNCHANGED <<booted, target>>

Boot == /\ ~booted
        /\ booted' = TRUE
        /\ UNCHANGED <<cacheVars, target, bootSize>>

Register == /\ booted
            /\ ~onUpdate
            /\ SetOnUpdate
            /\ UNCHANGED <<booted, target, bootSize>>

Use(m, c) == /\ booted
             /\ UseModel(m, c)
             /\ UNCHANGED <<booted, target, bootSize>>

Release(m, c) == /\ booted
                 /\ ReleaseModel(m, c)
                 /\ UNCHANGED <<booted, target, bootSize>>

Download(g, m) == /\ booted
                  /\ target[g] = NoModel
                  /\ spawned < MaxSpawned
                  /\ EnsureSpace(g)
                  /\ target' = [target EXCEPT ![g] = m]
                  /\ UNCHANGED <<booted, bootSize>>

Evict(g, m) == /\ EvictLRU(g, m, ModelSize)
               /\ UNCHANGED <<booted, target, bootSize>>

Granted(g) == /\ SpaceEnsured(g, ModelSize)
              /\ UNCHANGED <<booted, target, bootSize>>

Refused(g) == /\ SpaceRefused(g, ModelSize)
              /\ target' = [target EXCEPT ![g] = NoModel]
              /\ UNCHANGED <<booted, bootSize>>

Add(g) == /\ g \in Ensured
          /\ AddModel(target[g], ModelSize)
          /\ target' = [target EXCEPT ![g] = NoModel]
          /\ UNCHANGED <<booted, bootSize>>

(* The download, or making a directory, fails: the goroutine returns.      *)
Abandon(g) == /\ g \in Ensured
              /\ target' = [target EXCEPT ![g] = NoModel]
              /\ UNCHANGED <<cacheVars, booted, bootSize>>

(* Mutant of RunOnUpdate: a callback nobody started.                       *)
RunOnUpdateUnspawned == /\ Unlocked
                        /\ spawned' = spawned - 1
                        /\ UNCHANGED <<entries, holder, onUpdate, booted,
                                       target, bootSize>>

(* A callback goroutine runs: it reads the cache and changes nothing in it.*)
RunOnUpdate == /\ Unlocked
               /\ spawned > 0
               /\ spawned' = spawned - 1
               /\ UNCHANGED <<entries, holder, onUpdate, booted, target,
                              bootSize>>

EnsureSpaceStep(g) == Granted(g) \/ Refused(g) \/ \E m \in Model : Evict(g, m)

Next == \/ \E m \in Model, s \in ScanSizes : Scan(m, s)
        \/ Boot
        \/ Register
        \/ \E m \in Model, c \in Claim : Use(m, c) \/ Release(m, c)
        \/ \E g \in Caller, m \in Model : Download(g, m)
        \/ \E g \in Caller : EnsureSpaceStep(g) \/ Add(g) \/ Abandon(g)
        \/ RunOnUpdate

Spec == Init /\ [][Next]_vars

(* A goroutine that holds the mutex keeps running.                         *)
FairSpec == Spec /\ \A g \in Caller : WF_vars(EnsureSpaceStep(g))

-----------------------------------------------------------------------------
(* One element for every unit of size of every entry.                      *)
Charged == UNION {{m} \X (1..size[m]) : m \in models}

(* currentSize is kept by additions and subtractions spread over Scan,     *)
(* AddModel and evictLRU; it is always the sum of the sizes of the entries,*)
(* so that a model is never charged twice or refunded twice.               *)
Accounting == currentSize = Cardinality(Charged)

(* LastUsed orders the entries totally, so evictLRU always finds exactly   *)
(* one victim when there is an idle entry: the loop of EnsureSpace can     *)
(* neither get stuck with idle entries left nor have a choice.             *)
LastUsedTotal ==
    /\ \A m, n \in models : m # n => (<<m, n>> \in older <=> <<n, m>> \notin older)
    /\ \A m \in models : <<m, m>> \notin older
    /\ \A m, n, o \in models :
          <<m, n>> \in older /\ <<n, o>> \in older => <<m, o>> \in older

(* How far the cache may exceed maxSize.  EnsureSpace reserves nothing, so *)
(* each goroutine between EnsureSpace and AddModel can take the room       *)
(* another one was granted; the excess is one model for every goroutine    *)
(* but one, or what the scan found when the cache was already larger.      *)
BoundedOvershoot ==
    LET promised == currentSize + ModelSize * Cardinality(Ensured)
    IN  \/ promised <= bootSize
        \/ promised <= MaxSize + ModelSize * (Cardinality(Caller) - 1)

(* main.go:206 describes the flag as the "Maximum size of the model cache  *)
(* in bytes."; this is what that says of a cache that started within it.   *)
SizeWithinMax == bootSize <= MaxSize => currentSize <= MaxSize

(* The manager keeps the promise of PinnedStore: it never evicts a model a *)
(* claim holds, and evicts idle models from the least recently used on.    *)
Abstract == INSTANCE PinnedStore
            WITH Item <- Model, User <- Claim,
                 stored <- models, pins <- inUse, before <- older
KeepsPins == Abstract!Spec

(* EnsureSpace returns: every iteration evicts, so the loop ends and the   *)
(* mutex, which every claim needs, is released.                            *)
EnsureSpaceReturns == \A g \in Caller : holder = g ~> holder = Free
=============================================================================
