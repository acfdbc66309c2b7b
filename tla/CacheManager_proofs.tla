------------------------- MODULE CacheManager_proofs -------------------------
(* What every operation of the cache manager keeps, whoever calls it.      *)
EXTENDS CacheManager, TLAPS

USE DEF cacheVars, entries, Unlocked, Notify, Insert, Touch

(* A model has an entry, with a path, exactly when it is a key of the map. *)
EntriesOfModels == \A m \in Model : /\ m \in models <=> path[m] # "none"
                                    /\ m \notin models => inUse[m] = {}

CacheInv == CacheTypeOK /\ EntriesOfModels

-----------------------------------------------------------------------------
(* A new cache manager is empty.                                           *)
LEMMA NewCacheInv == NewCacheManager => CacheInv
<1> SUFFICES ASSUME NewCacheManager PROVE CacheInv
  OBVIOUS
<1> USE DEF NewCacheManager
<1>1. models \subseteq Model /\ older \subseteq models \X models
  OBVIOUS
<1>2. holder \in Caller \union {Free} /\ spawned \in Nat /\ currentSize \in Int
  OBVIOUS
<1>3. EntriesOfModels
  BY DEF EntriesOfModels
<1> QED BY <1>1, <1>2, <1>3 DEF CacheInv, CacheTypeOK

(* So is that of a restarted process.                                      *)
LEMMA RestartKeepsCache == RestartCacheManager => CacheInv'
<1> SUFFICES ASSUME RestartCacheManager PROVE CacheInv'
  OBVIOUS
<1> USE DEF RestartCacheManager
<1>1. models' \subseteq Model /\ older' \subseteq models' \X models'
  OBVIOUS
<1>2. /\ holder' \in Caller \union {Free} /\ spawned' \in Nat
      /\ currentSize' \in Int
  OBVIOUS
<1>3. EntriesOfModels'
  BY DEF EntriesOfModels
<1> QED BY <1>1, <1>2, <1>3 DEF CacheInv, CacheTypeOK

(* A directory of the walk becomes an entry.                               *)
LEMMA ScanKeepsCache ==
    ASSUME CacheInv, NEW m \in Model, NEW s \in Nat, NEW where \in Provider,
           ScanModel(m, s, where)
    PROVE  CacheInv'
<1> USE DEF CacheInv, CacheTypeOK
<1>1. CacheTypeOK'
  BY DEF ScanModel
<1>2. EntriesOfModels'
  BY DEF ScanModel, EntriesOfModels, Provider
<1> QED BY <1>1, <1>2

(* A claim pins a model.                                                   *)
LEMMA UseKeepsCache ==
    ASSUME CacheInv, NEW m \in Model, NEW c \in Claim, UseModel(m, c)
    PROVE  CacheInv'
BY DEF CacheInv, CacheTypeOK, EntriesOfModels, UseModel

(* EnsureSpace takes the mutex.                                            *)
LEMMA EnsureSpaceKeepsCache ==
    ASSUME CacheInv, NEW g \in Caller, EnsureSpace(g)
    PROVE  CacheInv'
BY DEF CacheInv, CacheTypeOK, EntriesOfModels, EnsureSpace

(* It releases the mutex, with or without room made.                       *)
LEMMA EnsuredKeepsCache ==
    ASSUME CacheInv, NEW g \in Caller, NEW s \in Nat,
           SpaceEnsured(g, s) \/ SpaceRefused(g, s)
    PROVE  CacheInv'
BY DEF CacheInv, CacheTypeOK, EntriesOfModels, SpaceEnsured, SpaceRefused

(* It evicts a model.                                                      *)
LEMMA EvictKeepsCache ==
    ASSUME CacheInv, NEW g \in Caller, NEW m \in Model, NEW s \in Nat,
           EvictLRU(g, m, s)
    PROVE  CacheInv'
<1> USE DEF CacheInv, CacheTypeOK
<1>1. CacheTypeOK'
  BY DEF EvictLRU
<1>2. EntriesOfModels'
  BY DEF EvictLRU, EntriesOfModels, LeastRecent, Idle
<1> QED BY <1>1, <1>2

(* A downloaded model becomes an entry, or has one already.                *)
LEMMA AddKeepsCache ==
    ASSUME CacheInv, NEW m \in Model, NEW s \in Nat, AddModel(m, s)
    PROVE  CacheInv'
<1> USE DEF CacheInv, CacheTypeOK
<1>1. CacheTypeOK'
  BY DEF AddModel
<1>2. EntriesOfModels'
  BY DEF AddModel, EntriesOfModels
<1> QED BY <1>1, <1>2

(* The callback is registered.                                             *)
LEMMA SetOnUpdateKeepsCache ==
    ASSUME CacheInv, SetOnUpdate PROVE CacheInv'
BY DEF CacheInv, CacheTypeOK, EntriesOfModels, SetOnUpdate

(* Nothing changes.                                                        *)
LEMMA NothingKeepsCache ==
    ASSUME CacheInv, UNCHANGED cacheVars PROVE CacheInv'
BY DEF CacheInv, CacheTypeOK, EntriesOfModels
=============================================================================
