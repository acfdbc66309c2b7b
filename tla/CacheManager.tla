---------------------------- MODULE CacheManager ----------------------------
(* internal/cache/manager.go: the models the node holds, which claims hold *)
(* each of them, and the eviction that makes room.  The module has the     *)
(* state and the operations; the modules that extend it supply the         *)
(* processes that call them.                                               *)
(*                                                                         *)
(* Every method takes the mutex for its whole body.  A method that only    *)
(* touches the map is one step, taken while nobody holds the mutex.        *)
(* EnsureSpace is a loop whose iterations delete directories that other    *)
(* processes see, so it holds the mutex over several steps: "holder" is    *)
(* the caller inside it.                                                   *)
EXTENDS Integers, FiniteSets

CONSTANTS
    Model,     \* model ids
    Claim,     \* claim UIDs
    Caller,    \* the goroutines that may be inside EnsureSpace
    Free,      \* the value of holder when the mutex is free
    MaxSize    \* maxSize

ASSUME CacheAssumption == /\ Free \notin Caller
                          /\ MaxSize \in Nat

VARIABLES
    models,        \* the keys of the map
    path,          \* CachedModel.Path: "none" when absent, the provider
                   \* under whose directory Scan found it, or "joined" for
                   \* root/modelID
    size,          \* CachedModel.Size, 0 when absent
    inUse,         \* CachedModel.InUseByUID, {} when absent
    older,         \* <<a, b>>: LastUsed of a is Before LastUsed of b
    currentSize,
    holder,        \* the caller inside EnsureSpace, or Free
    onUpdate,      \* a callback is registered
    spawned        \* callback goroutines started and not yet run

Provider == {"huggingface", "gcs"}   \* ProviderId, and the directory of each

entries == <<models, path, size, inUse, older, currentSize>>
cacheVars == <<entries, holder, onUpdate, spawned>>

CacheTypeOK == /\ models \subseteq Model
               /\ path \in [Model -> Provider \union {"none", "joined"}]
               /\ size \in [Model -> Nat]
               /\ inUse \in [Model -> SUBSET Claim]
               /\ older \subseteq models \X models
               /\ currentSize \in Int
               /\ holder \in Caller \union {Free}
               /\ onUpdate \in BOOLEAN
               /\ spawned \in Nat

NewCacheManager == /\ models = {}
                   /\ path = [m \in Model |-> "none"]
                   /\ size = [m \in Model |-> 0]
                   /\ inUse = [m \in Model |-> {}]
                   /\ older = {}
                   /\ currentSize = 0
                   /\ holder = Free
                   /\ onUpdate = FALSE
                   /\ spawned = 0

(* NewCacheManager in a restarted process.                                 *)
RestartCacheManager == /\ models' = {}
                       /\ path' = [m \in Model |-> "none"]
                       /\ size' = [m \in Model |-> 0]
                       /\ inUse' = [m \in Model |-> {}]
                       /\ older' = {}
                       /\ currentSize' = 0
                       /\ holder' = Free
                       /\ onUpdate' = FALSE
                       /\ spawned' = 0

Unlocked == holder = Free

(* Mutant of Touch: LastUsed is not set.                                   *)
TouchNothing(m) == older' = older

(* LastUsed = time.Now(): m becomes the most recently used.                *)
Touch(m) == older' = {p \in older : p[1] # m} \union ((models \ {m}) \X {m})

(* Mutant of Notify: no callback is started.                               *)
NotifyNobody == UNCHANGED spawned

(* go cm.onUpdate(), when one is registered.                               *)
Notify == spawned' = IF onUpdate THEN spawned + 1 ELSE spawned

Insert(m, s, where) ==
    /\ models' = models \union {m}
    /\ path' = [path EXCEPT ![m] = where]
    /\ size' = [size EXCEPT ![m] = s]
    /\ inUse' = [inUse EXCEPT ![m] = {}]
    /\ Touch(m)
    /\ currentSize' = currentSize + s

(* Scan: one directory of the walk that the validator accepted; "where" is *)
(* the provider it is a directory of.                                      *)
ScanModel(m, s, where) ==
    /\ Unlocked
    /\ m \notin models
    /\ Insert(m, s, where)
    /\ UNCHANGED <<holder, onUpdate, spawned>>

(* Mutant of UseModel: the check that the model is there is missing.       *)
UseModelUnchecked(m, c) ==
    /\ Unlocked
    /\ inUse' = [inUse EXCEPT ![m] = @ \union {c}]
    /\ Touch(m)
    /\ UNCHANGED <<models, path, size, currentSize, holder, onUpdate, spawned>>

UseModel(m, c) ==
    /\ Unlocked
    /\ m \in models
    /\ inUse' = [inUse EXCEPT ![m] = @ \union {c}]
    /\ Touch(m)
    /\ UNCHANGED <<models, path, size, currentSize, holder, onUpdate, spawned>>

ReleaseModel(m, c) ==
    /\ Unlocked
    /\ inUse' = IF m \in models THEN [inUse EXCEPT ![m] = @ \ {c}] ELSE inUse
    /\ UNCHANGED <<models, path, size, older, currentSize, holder, onUpdate,
                   spawned>>

EnsureSpace(g) ==
    /\ Unlocked
    /\ holder' = g
    /\ UNCHANGED <<entries, onUpdate, spawned>>

(* Mutant of Fits: the request itself is not counted.                      *)
FitsAlready(needed) == currentSize <= MaxSize

Fits(needed) == currentSize + needed <= MaxSize

(* Mutant of Idle: InUseByUID is not looked at.                            *)
AnyModel == models

Idle == {m \in models : inUse[m] = {}}

(* The entry the loop of evictLRU ends with: no idle one is older.         *)
LeastRecent == {m \in Idle : \A n \in Idle : <<n, m>> \notin older}

(* One iteration of EnsureSpace's loop that evicts.                        *)
EvictLRU(g, m, needed) ==
    /\ holder = g
    /\ ~Fits(needed)
    /\ m \in LeastRecent
    /\ models' = models \ {m}
    /\ path' = [path EXCEPT ![m] = "none"]
    /\ size' = [size EXCEPT ![m] = 0]
    /\ older' = {p \in older : m \notin {p[1], p[2]}}
    /\ currentSize' = currentSize - size[m]
    /\ Notify
    /\ UNCHANGED <<inUse, holder, onUpdate>>

(* EnsureSpace returns nil.                                                *)
SpaceEnsured(g, needed) ==
    /\ holder = g
    /\ Fits(needed)
    /\ holder' = Free
    /\ UNCHANGED <<entries, onUpdate, spawned>>

(* Mutant of SpaceRefused: gives up only when the cache is empty.          *)
SpaceRefusedWhenEmpty(g, needed) ==
    /\ holder = g
    /\ ~Fits(needed)
    /\ models = {}
    /\ holder' = Free
    /\ UNCHANGED <<entries, onUpdate, spawned>>

(* EnsureSpace returns "insufficient space and no models can be evicted".  *)
SpaceRefused(g, needed) ==
    /\ holder = g
    /\ ~Fits(needed)
    /\ Idle = {}
    /\ holder' = Free
    /\ UNCHANGED <<entries, onUpdate, spawned>>

(* Mutant of AddModel: the entry that is there is replaced.                *)
AddModelAgain(m, s) ==
    /\ Unlocked
    /\ Insert(m, s, "joined")
    /\ Notify
    /\ UNCHANGED <<holder, onUpdate>>

(* A model that is already there keeps its entry.                          *)
AddModel(m, s) ==
    /\ Unlocked
    /\ IF m \in models
       THEN UNCHANGED <<entries, spawned>>
       ELSE Insert(m, s, "joined") /\ Notify
    /\ UNCHANGED <<holder, onUpdate>>

SetOnUpdate ==
    /\ Unlocked
    /\ onUpdate' = TRUE
    /\ UNCHANGED <<entries, holder, spawned>>
=============================================================================
