------------------------- MODULE CacheClients_proofs -------------------------
(* Proofs about CacheClients for any set of models, claims and goroutines, *)
(* any sizes and any maxSize.                                              *)
EXTENDS CacheClients, FiniteSetTheorems, TLAPS

(* The operations as CacheClients calls them.                              *)
USE DEF cacheVars, entries, vars, Unlocked, Notify, Insert, Touch

(* An absent model has no entry, so no claim holds it.                     *)
EntryInv == \A m \in Model \ models : inUse[m] = {}

(* Nothing but the scan happens before the plugin is up.                   *)
BootInv == ~booted => /\ currentSize = bootSize
                      /\ target = [g \in Caller |-> NoModel]
                      /\ holder = Free

-----------------------------------------------------------------------------
(* The types of the state of the cache manager and of its callers.         *)
THEOREM TypeCorrect == Spec => []TypeOK
<1> USE CacheAssumption, ClientAssumption
<1>1. Init => TypeOK
  <2> SUFFICES ASSUME Init PROVE TypeOK
    OBVIOUS
  <2> USE DEF Init, NewCacheManager
  <2>1. models \subseteq Model /\ older \subseteq models \X models
    OBVIOUS
  <2>2. holder \in Caller \union {Free} /\ spawned \in Nat /\ currentSize \in Int
    OBVIOUS
  <2> QED BY <2>1, <2>2 DEF TypeOK, CacheTypeOK
<1>2. TypeOK /\ [Next]_vars => TypeOK'
  <2> SUFFICES ASSUME TypeOK, [Next]_vars PROVE TypeOK'
    OBVIOUS
  <2> USE DEF TypeOK, CacheTypeOK
  <2>1. CASE \E m \in Model, s \in ScanSizes : Scan(m, s)
    BY <2>1 DEF Scan, ScanModel, Provider
  <2>2. CASE Boot
    BY <2>2 DEF Boot
  <2>3. CASE Register
    BY <2>3 DEF Register, SetOnUpdate
  <2>4. CASE \E m \in Model, c \in Claim : Use(m, c) \/ Release(m, c)
    BY <2>4 DEF Use, UseModel, Release, ReleaseModel
  <2>5. CASE \E g \in Caller, m \in Model : Download(g, m)
    BY <2>5 DEF Download, EnsureSpace
  <2>6. ASSUME NEW g \in Caller, EnsureSpaceStep(g) PROVE TypeOK'
    <3>1. CASE Granted(g)
      BY <3>1 DEF Granted, SpaceEnsured
    <3>2. CASE Refused(g)
      BY <3>2 DEF Refused, SpaceRefused
    <3>3. CASE \E m \in Model : Evict(g, m)
      BY <3>3 DEF Evict, EvictLRU
    <3> QED BY <2>6, <3>1, <3>2, <3>3 DEF EnsureSpaceStep
  <2>7. CASE \E g \in Caller : Add(g)
    BY <2>7 DEF Add, AddModel, Ensured
  <2>8. CASE \E g \in Caller : Abandon(g)
    BY <2>8 DEF Abandon
  <2>9. CASE RunOnUpdate
    BY <2>9 DEF RunOnUpdate
  <2>10. CASE UNCHANGED vars
    BY <2>10
  <2> QED BY <2>1, <2>2, <2>3, <2>4, <2>5, <2>6, <2>7, <2>8, <2>9, <2>10
          DEF Next
<1>3. QED BY <1>1, <1>2, PTL DEF Spec

-----------------------------------------------------------------------------
(* An absent model has no entry and nothing runs before the plugin is up.  *)
LEMMA EntriesAndBoot == Spec => [](EntryInv /\ BootInv)
<1> DEFINE Both == EntryInv /\ BootInv
<1> USE CacheAssumption, ClientAssumption
<1>1. Init => Both
  BY DEF Init, NewCacheManager, EntryInv, BootInv
<1>2. TypeOK /\ Both /\ [Next]_vars => Both'
  <2> SUFFICES ASSUME TypeOK, Both, [Next]_vars PROVE Both'
    OBVIOUS
  <2> USE DEF EntryInv, BootInv, TypeOK, CacheTypeOK
  <2>1. CASE \E m \in Model, s \in ScanSizes : Scan(m, s)
    BY <2>1 DEF Scan, ScanModel
  <2>2. CASE Boot
    BY <2>2 DEF Boot
  <2>3. CASE Register
    BY <2>3 DEF Register, SetOnUpdate
  <2>4. CASE \E m \in Model, c \in Claim : Use(m, c) \/ Release(m, c)
    BY <2>4 DEF Use, UseModel, Release, ReleaseModel
  <2>5. CASE \E g \in Caller, m \in Model : Download(g, m)
    BY <2>5 DEF Download, EnsureSpace
  <2>6. ASSUME NEW g \in Caller, EnsureSpaceStep(g) PROVE Both'
    <3>1. booted /\ booted' = booted
      BY <2>6 DEF EnsureSpaceStep, Granted, SpaceEnsured, Refused,
                  SpaceRefused, Evict, EvictLRU
    <3>2. EntryInv'
      BY <2>6 DEF EnsureSpaceStep, Granted, SpaceEnsured, Refused,
                  SpaceRefused, Evict, EvictLRU, LeastRecent, Idle
    <3> QED BY <3>1, <3>2
  <2>7. CASE \E g \in Caller : Add(g)
    BY <2>7 DEF Add, AddModel, Ensured
  <2>8. CASE \E g \in Caller : Abandon(g)
    BY <2>8 DEF Abandon, Ensured
  <2>9. CASE RunOnUpdate
    BY <2>9 DEF RunOnUpdate
  <2>10. CASE UNCHANGED vars
    BY <2>10
  <2> QED BY <2>1, <2>2, <2>3, <2>4, <2>5, <2>6, <2>7, <2>8, <2>9, <2>10
          DEF Next
<1>3. QED BY <1>1, <1>2, TypeCorrect, PTL DEF Spec

-----------------------------------------------------------------------------
(* Giving a model, new or present, the latest LastUsed keeps the order     *)
(* total: it comes after all the others and they keep their places.        *)
LEMMA TouchKeepsTotal ==
    ASSUME LastUsedTotal, older \subseteq models \X models,
           NEW m, Touch(m), models' = models \union {m}
    PROVE  LastUsedTotal'
<1> DEFINE kept == {p \in older : p[1] # m}
<1>1. \A a, b : <<a, b>> \in older' <=>
                \/ <<a, b>> \in older /\ a # m
                \/ a \in models \ {m} /\ b = m
  <2>1. older' = kept \union ((models \ {m}) \X {m})
    OBVIOUS
  <2>2. \A a, b : <<a, b>> \in kept <=> <<a, b>> \in older /\ a # m
    OBVIOUS
  <2>3. \A a, b : <<a, b>> \in (models \ {m}) \X {m}
                    <=> a \in models \ {m} /\ b = m
    OBVIOUS
  <2> HIDE DEF kept
  <2> QED BY <2>1, <2>2, <2>3
<1>2. \A a, b : <<a, b>> \in older => a \in models /\ b \in models
  OBVIOUS
<1>3. QED BY <1>1, <1>2 DEF LastUsedTotal

(* Removing an entry keeps the order of the others.                        *)
LEMMA RemoveKeepsTotal ==
    ASSUME LastUsedTotal, NEW m, models' = models \ {m},
           older' = {p \in older : m \notin {p[1], p[2]}}
    PROVE  LastUsedTotal'
<1>1. \A a, b : <<a, b>> \in older' <=> <<a, b>> \in older /\ a # m /\ b # m
  OBVIOUS
<1>2. QED BY <1>1 DEF LastUsedTotal

(* LastUsed orders the entries totally: the eviction loop can neither find *)
(* two victims nor none while an idle model is left.                       *)
THEOREM OrderTotal == Spec => []LastUsedTotal
<1> USE CacheAssumption, ClientAssumption
<1>1. Init => LastUsedTotal
  BY DEF Init, NewCacheManager, LastUsedTotal
<1>2. TypeOK /\ LastUsedTotal /\ [Next]_vars => LastUsedTotal'
  <2> SUFFICES ASSUME TypeOK, LastUsedTotal, [Next]_vars PROVE LastUsedTotal'
    OBVIOUS
  <2>0. older \subseteq models \X models
    BY DEF TypeOK, CacheTypeOK
  <2>1. ASSUME NEW m \in Model, NEW s \in ScanSizes, Scan(m, s)
        PROVE  LastUsedTotal'
    BY <2>0, <2>1, TouchKeepsTotal DEF Scan, ScanModel
  <2>2. ASSUME NEW m \in Model, NEW c \in Claim, Use(m, c)
        PROVE  LastUsedTotal'
    <3>1. Touch(m) /\ models' = models \union {m}
      BY <2>2 DEF Use, UseModel
    <3> QED BY <2>0, <3>1, TouchKeepsTotal
  <2>3. ASSUME NEW g \in Caller, NEW m \in Model, Evict(g, m)
        PROVE  LastUsedTotal'
    BY <2>3, RemoveKeepsTotal DEF Evict, EvictLRU
  <2>4. ASSUME NEW g \in Caller, Add(g) PROVE LastUsedTotal'
    <3>1. CASE target[g] \in models
      BY <2>4, <3>1 DEF Add, AddModel, LastUsedTotal
    <3>2. CASE target[g] \notin models
      <4>1. PICK t : t = target[g]
        OBVIOUS
      <4>2. Insert(t, ModelSize, "joined")
        BY <2>4, <3>2, <4>1 DEF Add, AddModel
      <4>3. Touch(t) /\ models' = models \union {t}
        BY <4>2
      <4> QED BY <2>0, <4>3, TouchKeepsTotal
    <3> QED BY <3>1, <3>2
  <2>5. ASSUME UNCHANGED <<models, older>> PROVE LastUsedTotal'
    BY <2>5 DEF LastUsedTotal
  <2>6. CASE Boot \/ Register \/ RunOnUpdate \/ UNCHANGED vars
    BY <2>5, <2>6 DEF Boot, Register, SetOnUpdate, RunOnUpdate
  <2>7. ASSUME NEW m \in Model, NEW c \in Claim, Release(m, c)
        PROVE  LastUsedTotal'
    BY <2>5, <2>7 DEF Release, ReleaseModel
  <2>8. ASSUME NEW g \in Caller, NEW m \in Model, Download(g, m)
        PROVE  LastUsedTotal'
    BY <2>5, <2>8 DEF Download, EnsureSpace
  <2>9. ASSUME NEW g \in Caller, Granted(g) \/ Refused(g) \/ Abandon(g)
        PROVE  LastUsedTotal'
    BY <2>5, <2>9 DEF Granted, SpaceEnsured, Refused, SpaceRefused, Abandon
  <2>10. ASSUME NEW g \in Caller, EnsureSpaceStep(g) PROVE LastUsedTotal'
    BY <2>3, <2>9, <2>10 DEF EnsureSpaceStep
  <2> QED BY <2>1, <2>2, <2>4, <2>6, <2>7, <2>8, <2>9, <2>10 DEF Next
<1>3. QED BY <1>1, <1>2, TypeCorrect, PTL DEF Spec

-----------------------------------------------------------------------------
(* A model of s units is charged s.                                        *)
LEMMA UnitsOfModel ==
    ASSUME NEW m, NEW s \in Nat
    PROVE  /\ IsFiniteSet({m} \X (1..s))
           /\ Cardinality({m} \X (1..s)) = s
<1>1. IsFiniteSet({m}) /\ Cardinality({m}) = 1
  BY FS_Singleton
<1>2. IsFiniteSet(1..s) /\ Cardinality(1..s) = s
  BY FS_Interval
<1>3. /\ IsFiniteSet({m} \X (1..s))
      /\ Cardinality({m} \X (1..s)) = Cardinality({m}) * Cardinality(1..s)
  BY <1>1, <1>2, FS_Product
<1>4. QED BY <1>1, <1>2, <1>3

(* Finitely many entries make a finite sum, which is currentSize.          *)
AccountingInv == IsFiniteSet(Charged) /\ Accounting

(* A new entry adds its size to the sum.                                   *)
LEMMA InsertAccounts ==
    ASSUME TypeOK, AccountingInv, NEW m \in Model \ models, NEW s \in Nat,
           models' = models \union {m}, size' = [size EXCEPT ![m] = s],
           currentSize' = currentSize + s
    PROVE  AccountingInv'
<1> DEFINE units == {m} \X (1..s)
<1>0. size \in [Model -> Nat] /\ models \subseteq Model /\ currentSize \in Int
  BY DEF TypeOK, CacheTypeOK
<1>1. \A n \in models : size'[n] = size[n]
  BY <1>0
<1>2. size'[m] = s
  BY <1>0
<1>3. Charged' = Charged \union units
  BY <1>1, <1>2 DEF Charged
<1>4. Charged \intersect units = {}
  BY DEF Charged
<1>5. IsFiniteSet(units) /\ Cardinality(units) = s
  BY UnitsOfModel
<1>6. /\ IsFiniteSet(Charged \union units)
      /\ Cardinality(Charged \union units) = Cardinality(Charged) + s - 0
  <2>1. IsFiniteSet(Charged)
    BY DEF AccountingInv
  <2>2. Cardinality(Charged \intersect units) = 0
    BY <1>4, FS_EmptySet
  <2> HIDE DEF units
  <2> QED BY <1>5, <2>1, <2>2, FS_Union
<1> HIDE DEF units
<1>7. QED BY <1>0, <1>3, <1>6 DEF AccountingInv, Accounting

(* An eviction takes the size of its entry, and no other, from the sum.    *)
LEMMA RemoveAccounts ==
    ASSUME TypeOK, AccountingInv, NEW m \in models,
           models' = models \ {m}, size' = [size EXCEPT ![m] = 0],
           currentSize' = currentSize - size[m]
    PROVE  AccountingInv'
<1> DEFINE units == {m} \X (1..size[m])
<1>0. size \in [Model -> Nat] /\ models \subseteq Model /\ currentSize \in Int
  BY DEF TypeOK, CacheTypeOK
<1>1. \A n \in models \ {m} : size'[n] = size[n]
  BY <1>0
<1>2. Charged' = Charged \ units
  BY <1>1 DEF Charged
<1>3. Charged \intersect units = units
  BY DEF Charged
<1>4. IsFiniteSet(units) /\ Cardinality(units) = size[m] /\ size[m] \in Nat
  BY <1>0, UnitsOfModel
<1>5. /\ IsFiniteSet(Charged \ units)
      /\ Cardinality(Charged \ units) = Cardinality(Charged) - size[m]
  <2>1. IsFiniteSet(Charged)
    BY DEF AccountingInv
  <2>2. /\ IsFiniteSet(Charged \ units)
        /\ Cardinality(Charged \ units)
             = Cardinality(Charged) - Cardinality(Charged \intersect units)
    <3> HIDE DEF units
    <3> QED BY <2>1, FS_Difference
  <2> HIDE DEF units
  <2> QED BY <1>3, <1>4, <2>2
<1> HIDE DEF units
<1>6. QED BY <1>2, <1>5 DEF AccountingInv, Accounting

(* currentSize is the sum of the sizes of the entries, however scans,      *)
(* downloads of one model at a time or of the same one, and evictions      *)
(* interleave: nothing is charged or refunded twice.                       *)
THEOREM AccountingCorrect == Spec => []Accounting
<1> USE CacheAssumption, ClientAssumption
<1>1. Init => AccountingInv
  <2> SUFFICES ASSUME Init PROVE AccountingInv
    OBVIOUS
  <2>1. Charged = {}
    BY DEF Init, NewCacheManager, Charged
  <2>2. IsFiniteSet(Charged) /\ Cardinality(Charged) = 0
    BY <2>1, FS_EmptySet
  <2> QED BY <2>2 DEF Init, NewCacheManager, AccountingInv, Accounting
<1>2. TypeOK /\ AccountingInv /\ [Next]_vars => AccountingInv'
  <2> SUFFICES ASSUME TypeOK, AccountingInv, [Next]_vars PROVE AccountingInv'
    OBVIOUS
  <2>0. /\ target \in [Caller -> Model \union {NoModel}]
        /\ models \subseteq Model
    BY DEF TypeOK, CacheTypeOK
  <2>1. ASSUME UNCHANGED <<models, size, currentSize>> PROVE AccountingInv'
    BY <2>1 DEF AccountingInv, Accounting, Charged
  <2>2. ASSUME NEW m \in Model, NEW s \in ScanSizes, Scan(m, s)
        PROVE  AccountingInv'
    BY <2>2, InsertAccounts DEF Scan, ScanModel
  <2>3. CASE Boot \/ Register \/ RunOnUpdate \/ UNCHANGED vars
    BY <2>1, <2>3 DEF Boot, Register, SetOnUpdate, RunOnUpdate
  <2>4. ASSUME NEW m \in Model, NEW c \in Claim, Use(m, c) \/ Release(m, c)
        PROVE  AccountingInv'
    BY <2>1, <2>4 DEF Use, UseModel, Release, ReleaseModel
  <2>5. ASSUME NEW g \in Caller, NEW m \in Model, Download(g, m)
        PROVE  AccountingInv'
    BY <2>1, <2>5 DEF Download, EnsureSpace
  <2>6. ASSUME NEW g \in Caller, Granted(g) \/ Refused(g) \/ Abandon(g)
        PROVE  AccountingInv'
    BY <2>1, <2>6 DEF Granted, SpaceEnsured, Refused, SpaceRefused, Abandon
  <2>7. ASSUME NEW g \in Caller, NEW m \in Model, Evict(g, m)
        PROVE  AccountingInv'
    <3>1. m \in models
      BY <2>7 DEF Evict, EvictLRU, LeastRecent, Idle
    <3> QED BY <2>7, <3>1, RemoveAccounts DEF Evict, EvictLRU
  <2>8. ASSUME NEW g \in Caller, Add(g) PROVE AccountingInv'
    <3>1. CASE target[g] \in models
      BY <2>1, <2>8, <3>1 DEF Add, AddModel
    <3>2. CASE target[g] \notin models
      <4>1. target[g] \in Model \ models
        BY <2>0, <2>8, <3>2 DEF Add, Ensured
      <4>2. Insert(target[g], ModelSize, "joined")
        BY <2>8, <3>2 DEF Add, AddModel
      <4> QED BY <4>1, <4>2, InsertAccounts
    <3> QED BY <3>1, <3>2
  <2>9. ASSUME NEW g \in Caller, EnsureSpaceStep(g) PROVE AccountingInv'
    BY <2>6, <2>7, <2>9 DEF EnsureSpaceStep
  <2> QED BY <2>2, <2>3, <2>4, <2>5, <2>6, <2>8, <2>9 DEF Next
<1>3. AccountingInv => Accounting
  BY DEF AccountingInv
<1>4. QED BY <1>1, <1>2, <1>3, TypeCorrect, PTL DEF Spec

-----------------------------------------------------------------------------
(* Arithmetic of what is charged and promised, s for each of k models,     *)
(* kept apart because of its products: more models never cost less.        *)
LEMMA TimesMonotone ==
    ASSUME NEW s \in Nat, NEW j \in Nat, NEW k \in Nat, j <= k
    PROVE  s * j <= s * k
  OBVIOUS

(* One model less is charged s less.                                       *)
LEMMA TimesStep ==
    ASSUME NEW s \in Nat, NEW k \in Nat
    PROVE  s * (k - 1) = s * k - s
  OBVIOUS

(* A grant that becomes a charge: when the grants fall by s and the charges*)
(* grow by at most s, their sum does not grow.                             *)
LEMMA Exchange ==
    ASSUME NEW a \in Int, NEW b \in Int, NEW s \in Nat, NEW p \in Int,
           NEW q \in Int, q = p - s, b <= a + s
    PROVE  b + q <= a + p
  OBVIOUS

(* The goroutines with a granted and unused request are finitely many.     *)
LEMMA EnsuredFinite ==
    /\ IsFiniteSet(Ensured) /\ Cardinality(Ensured) \in Nat
    /\ Cardinality(Ensured) <= Cardinality(Caller)
    /\ Cardinality(Caller) \in Nat
<1>1. Ensured \subseteq Caller
  BY DEF Ensured
<1>2. QED BY <1>1, ClientAssumption, FS_Subset, FS_CardinalityType

(* They are as few after a step.                                           *)
LEMMA EnsuredFiniteNext ==
    /\ IsFiniteSet(Ensured') /\ Cardinality(Ensured') \in Nat
    /\ Cardinality(Ensured') <= Cardinality(Caller)
<1>1. Ensured' \subseteq Caller
  BY DEF Ensured
<1>2. QED BY <1>1, ClientAssumption, FS_Subset, FS_CardinalityType

(* A step that grants nothing and adds nothing only lowers what is         *)
(* promised.                                                               *)
LEMMA QuietStep ==
    ASSUME TypeOK, BoundedOvershoot, currentSize' \in Int,
           Ensured' \subseteq Ensured, currentSize' <= currentSize,
           bootSize' = bootSize
    PROVE  BoundedOvershoot'
<1> DEFINE k == Cardinality(Ensured)
           l == Cardinality(Ensured')
           n == Cardinality(Caller)
<1>1. l <= k
  BY EnsuredFinite, FS_Subset
<1>2. k \in Nat /\ l \in Nat /\ n \in Nat /\ ModelSize \in Nat
  BY EnsuredFinite, EnsuredFiniteNext, ClientAssumption
<1>3. ModelSize * l <= ModelSize * k
  BY <1>1, <1>2, TimesMonotone
<1>4. currentSize + ModelSize * k <= bootSize
      \/ currentSize + ModelSize * k <= MaxSize + ModelSize * (n - 1)
  BY DEF BoundedOvershoot
<1>5. currentSize' + ModelSize * l <= currentSize + ModelSize * k
  <2>1. ModelSize * l \in Int /\ ModelSize * k \in Int
    BY <1>2
  <2>2. currentSize \in Int
    BY DEF TypeOK, CacheTypeOK
  <2> HIDE DEF k, l
  <2> QED BY <1>3, <2>1, <2>2
<1>6. currentSize' + ModelSize * l <= bootSize'
      \/ currentSize' + ModelSize * l <= MaxSize + ModelSize * (n - 1)
  <2>1. /\ ModelSize * l \in Int /\ ModelSize * k \in Int
        /\ ModelSize * (n - 1) \in Int
    BY <1>2
  <2>2. currentSize \in Int /\ bootSize \in Int /\ MaxSize \in Int
    BY CacheAssumption DEF TypeOK, CacheTypeOK
  <2> HIDE DEF k, l, n
  <2> QED BY <1>4, <1>5, <2>1, <2>2
<1>7. QED BY <1>6 DEF BoundedOvershoot

(* AddModel uses up a grant and charges at most one model for it.          *)
LEMMA AddStep ==
    ASSUME TypeOK, BoundedOvershoot, NEW g \in Ensured,
           currentSize' \in Int, currentSize' <= currentSize + ModelSize,
           Ensured' = Ensured \ {g}, bootSize' = bootSize
    PROVE  BoundedOvershoot'
<1> DEFINE k == Cardinality(Ensured)
           l == Cardinality(Ensured')
           n == Cardinality(Caller)
<1>1. l = k - 1
  BY EnsuredFinite, FS_RemoveElement
<1>2. k \in Nat /\ l \in Nat /\ n \in Nat /\ ModelSize \in Nat
  BY EnsuredFinite, EnsuredFiniteNext, ClientAssumption
<1>3. ModelSize * l = ModelSize * k - ModelSize
  <2> HIDE DEF k, l
  <2> QED BY <1>1, <1>2, TimesStep
<1>4. currentSize + ModelSize * k <= bootSize
      \/ currentSize + ModelSize * k <= MaxSize + ModelSize * (n - 1)
  BY DEF BoundedOvershoot
<1>5. currentSize' + ModelSize * l <= bootSize'
      \/ currentSize' + ModelSize * l <= MaxSize + ModelSize * (n - 1)
  <2>1. /\ ModelSize * l \in Int /\ ModelSize * k \in Int
        /\ ModelSize * (n - 1) \in Int
    BY <1>2
  <2>2. currentSize \in Int /\ bootSize \in Int /\ MaxSize \in Int
    BY CacheAssumption DEF TypeOK, CacheTypeOK
  <2>3. currentSize' + ModelSize * l <= currentSize + ModelSize * k
    <3> HIDE DEF k, l, n
    <3> QED BY <1>2, <1>3, <2>1, <2>2, Exchange
  <2> HIDE DEF k, l, n
  <2> QED BY <1>4, <2>1, <2>2, <2>3
<1>6. QED BY <1>5 DEF BoundedOvershoot

(* EnsureSpace grants room only when the request fits, whatever it has     *)
(* granted before: at most all the other goroutines hold a grant too.      *)
LEMMA GrantStep ==
    ASSUME TypeOK, Fits(ModelSize), currentSize' = currentSize
    PROVE  BoundedOvershoot'
<1> DEFINE l == Cardinality(Ensured')
           n == Cardinality(Caller)
<1>1. l <= n /\ l \in Nat /\ n \in Nat /\ ModelSize \in Nat
  BY EnsuredFinite, EnsuredFiniteNext, ClientAssumption
<1>2. ModelSize * l <= ModelSize * n
  BY <1>1, TimesMonotone
<1>3. ModelSize * (n - 1) = ModelSize * n - ModelSize
  <2> HIDE DEF n
  <2> QED BY <1>1, TimesStep
<1>4. currentSize' + ModelSize * l <= MaxSize + ModelSize * (n - 1)
  <2>1. ModelSize * l \in Int /\ ModelSize * n \in Int
    BY <1>1
  <2>2. currentSize \in Int /\ MaxSize \in Int
    BY CacheAssumption DEF TypeOK, CacheTypeOK
  <2> HIDE DEF l, n
  <2> QED BY <1>1, <1>2, <1>3, <2>1, <2>2 DEF Fits
<1>5. QED BY <1>4 DEF BoundedOvershoot

(* However the goroutines interleave EnsureSpace and AddModel, the cache   *)
(* exceeds maxSize by at most one model for every goroutine but one,       *)
(* unless the scan already found more.                                     *)
THEOREM OvershootBounded == Spec => []BoundedOvershoot
<1> USE CacheAssumption, ClientAssumption
<1>1. Init => BoundedOvershoot
  <2> SUFFICES ASSUME Init PROVE BoundedOvershoot
    OBVIOUS
  <2>1. Ensured = {}
    BY DEF Init, Ensured
  <2>2. Cardinality(Ensured) = 0
    BY <2>1, FS_EmptySet
  <2> QED BY <2>2 DEF Init, NewCacheManager, BoundedOvershoot
<1>2. TypeOK /\ TypeOK' /\ BootInv /\ BoundedOvershoot /\ [Next]_vars
        => BoundedOvershoot'
  <2> SUFFICES ASSUME TypeOK, TypeOK', BootInv, BoundedOvershoot, [Next]_vars
               PROVE  BoundedOvershoot'
    OBVIOUS
  <2>0. /\ currentSize \in Int /\ currentSize' \in Int
        /\ bootSize \in Nat /\ bootSize' \in Nat
        /\ size \in [Model -> Nat]
        /\ target \in [Caller -> Model \union {NoModel}]
    BY DEF TypeOK, CacheTypeOK
  <2>1. ASSUME NEW m \in Model, NEW s \in ScanSizes, Scan(m, s)
        PROVE  BoundedOvershoot'
    <3>1. Ensured' = {}
      BY <2>1 DEF Scan, ScanModel, Ensured, BootInv
    <3>2. Cardinality(Ensured') = 0
      BY <3>1, FS_EmptySet
    <3>3. currentSize' = bootSize'
      BY <2>0, <2>1 DEF Scan, ScanModel, BootInv
    <3>4. ModelSize * Cardinality(Ensured') = 0
      BY <3>2
    <3> QED BY <2>0, <3>3, <3>4 DEF BoundedOvershoot
  <2>2. ASSUME UNCHANGED <<currentSize, bootSize, target, holder>>
        PROVE  BoundedOvershoot'
    BY <2>2 DEF BoundedOvershoot, Ensured
  <2>3. CASE Boot \/ Register \/ RunOnUpdate \/ UNCHANGED vars
    BY <2>2, <2>3 DEF Boot, Register, SetOnUpdate, RunOnUpdate
  <2>4. ASSUME NEW m \in Model, NEW c \in Claim, Use(m, c) \/ Release(m, c)
        PROVE  BoundedOvershoot'
    BY <2>2, <2>4 DEF Use, UseModel, Release, ReleaseModel
  <2>5. ASSUME NEW g \in Caller, NEW m \in Model, Download(g, m)
        PROVE  BoundedOvershoot'
    <3>1. Ensured' \subseteq Ensured
      BY <2>0, <2>5 DEF Download, EnsureSpace, Ensured
    <3>2. currentSize' = currentSize /\ bootSize' = bootSize
      BY <2>5 DEF Download, EnsureSpace
    <3> QED BY <2>0, <3>1, <3>2, QuietStep
  <2>6. ASSUME NEW g \in Caller, Granted(g) PROVE BoundedOvershoot'
    BY <2>6, GrantStep DEF Granted, SpaceEnsured
  <2>7. ASSUME NEW g \in Caller, Refused(g) PROVE BoundedOvershoot'
    <3>1. Ensured' \subseteq Ensured
      BY <2>0, <2>7 DEF Refused, SpaceRefused, Ensured
    <3>2. currentSize' = currentSize /\ bootSize' = bootSize
      BY <2>7 DEF Refused, SpaceRefused
    <3> QED BY <2>0, <3>1, <3>2, QuietStep
  <2>8. ASSUME NEW g \in Caller, NEW m \in Model, Evict(g, m)
        PROVE  BoundedOvershoot'
    <3>1. Ensured' = Ensured /\ bootSize' = bootSize
      BY <2>8 DEF Evict, EvictLRU, Ensured
    <3>2. currentSize' <= currentSize
      BY <2>0, <2>8 DEF Evict, EvictLRU
    <3> QED BY <2>0, <3>1, <3>2, QuietStep
  <2>9. ASSUME NEW g \in Caller, Add(g) PROVE BoundedOvershoot'
    <3>1. g \in Ensured /\ Ensured' = Ensured \ {g} /\ bootSize' = bootSize
      <4>1. g \in Ensured /\ bootSize' = bootSize /\ holder' = holder
        BY <2>9 DEF Add, AddModel
      <4>2. target' = [target EXCEPT ![g] = NoModel]
        BY <2>9 DEF Add
      <4> QED BY <2>0, <4>1, <4>2 DEF Ensured
    <3>2. currentSize' <= currentSize + ModelSize
      BY <2>0, <2>9 DEF Add, AddModel
    <3> QED BY <2>0, <3>1, <3>2, AddStep
  <2>10. ASSUME NEW g \in Caller, Abandon(g) PROVE BoundedOvershoot'
    <3>1. Ensured' \subseteq Ensured
      BY <2>0, <2>10 DEF Abandon, Ensured
    <3>2. currentSize' = currentSize /\ bootSize' = bootSize
      BY <2>10 DEF Abandon
    <3> QED BY <2>0, <3>1, <3>2, QuietStep
  <2>11. ASSUME NEW g \in Caller, EnsureSpaceStep(g) PROVE BoundedOvershoot'
    BY <2>6, <2>7, <2>8, <2>11 DEF EnsureSpaceStep
  <2> QED BY <2>1, <2>3, <2>4, <2>5, <2>9, <2>10, <2>11 DEF Next
<1>3. QED BY <1>1, <1>2, TypeCorrect, EntriesAndBoot, PTL DEF Spec
-----------------------------------------------------------------------------
(* The manager implements PinnedStore: no model a claim holds is evicted,  *)
(* and an evicted model was touched before every other idle one.           *)
THEOREM ImplementsPinnedStore == Spec => KeepsPins
<1> USE CacheAssumption, ClientAssumption
<1> USE DEF Abstract!vars
<1>1. Init => Abstract!Init
  BY DEF Init, NewCacheManager, Abstract!Init
<1>2. /\ TypeOK /\ EntryInv /\ LastUsedTotal /\ [Next]_vars
      => [Abstract!Next]_(Abstract!vars)
  <2> SUFFICES ASSUME TypeOK, EntryInv, LastUsedTotal, [Next]_vars
               PROVE  Abstract!Next \/ UNCHANGED Abstract!vars
    OBVIOUS
  <2> DEFINE Goal == Abstract!Next \/ UNCHANGED Abstract!vars
  <2>0. /\ inUse \in [Model -> SUBSET Claim] /\ models \subseteq Model
        /\ target \in [Caller -> Model \union {NoModel}]
    BY DEF TypeOK, CacheTypeOK
  <2>1. ASSUME NEW m \in Model, m \notin models, models' = models \union {m},
               inUse' = [inUse EXCEPT ![m] = {}], Touch(m)
        PROVE  Goal
    <3>1. inUse' = inUse
      BY <2>0, <2>1 DEF EntryInv
    <3>2. Abstract!Put(m)
      BY <2>1, <3>1 DEF Abstract!Put, Abstract!TouchLast
    <3> QED BY <3>2 DEF Abstract!Next
  <2>2. ASSUME NEW m \in Model, NEW s \in ScanSizes, Scan(m, s) PROVE Goal
    BY <2>1, <2>2 DEF Scan, ScanModel
  <2>3. ASSUME UNCHANGED <<models, inUse, older>> PROVE Goal
    BY <2>3
  <2>4. CASE Boot \/ Register \/ RunOnUpdate \/ UNCHANGED vars
    BY <2>3, <2>4 DEF Boot, Register, SetOnUpdate, RunOnUpdate
  <2>5. ASSUME NEW m \in Model, NEW c \in Claim, Use(m, c) PROVE Goal
    <3>1. Abstract!Pin(m, c)
      BY <2>5 DEF Use, UseModel, Abstract!Pin, Abstract!TouchLast
    <3> QED BY <3>1 DEF Abstract!Next
  <2>6. ASSUME NEW m \in Model, NEW c \in Claim, Release(m, c) PROVE Goal
    <3>1. CASE m \in models
      <4>1. Abstract!Unpin(m, c)
        BY <2>6, <3>1 DEF Release, ReleaseModel, Abstract!Unpin
      <4> QED BY <4>1 DEF Abstract!Next
    <3>2. CASE m \notin models
      BY <2>6, <2>3, <3>2 DEF Release, ReleaseModel
    <3> QED BY <3>1, <3>2
  <2>7. ASSUME NEW g \in Caller, NEW m \in Model, Download(g, m) PROVE Goal
    BY <2>3, <2>7 DEF Download, EnsureSpace
  <2>8. ASSUME NEW g \in Caller, Granted(g) \/ Refused(g) \/ Abandon(g)
        PROVE  Goal
    BY <2>3, <2>8 DEF Granted, SpaceEnsured, Refused, SpaceRefused, Abandon
  <2>9. ASSUME NEW g \in Caller, NEW m \in Model, Evict(g, m) PROVE Goal
    <3>1. m \in models /\ inUse[m] = {}
      BY <2>9 DEF Evict, EvictLRU, LeastRecent, Idle
    <3>2. \A n \in models \ {m} : inUse[n] = {} => <<m, n>> \in older
      BY <2>9, <3>1 DEF Evict, EvictLRU, LeastRecent, Idle, LastUsedTotal
    <3>3. Abstract!Drop(m)
      BY <2>9, <3>1, <3>2 DEF Evict, EvictLRU, Abstract!Drop
    <3> QED BY <3>3 DEF Abstract!Next
  <2>10. ASSUME NEW g \in Caller, Add(g) PROVE Goal
    <3>1. CASE target[g] \in models
      BY <2>3, <2>10, <3>1 DEF Add, AddModel
    <3>2. CASE target[g] \notin models
      <4>1. PICK t \in Model : t = target[g]
        BY <2>0, <2>10 DEF Add, Ensured
      <4>2. Insert(t, ModelSize, "joined") /\ t \notin models
        BY <2>10, <3>2, <4>1 DEF Add, AddModel
      <4> QED BY <2>1, <4>2
    <3> QED BY <3>1, <3>2
  <2>11. ASSUME NEW g \in Caller, EnsureSpaceStep(g) PROVE Goal
    BY <2>8, <2>9, <2>11 DEF EnsureSpaceStep
  <2> QED BY <2>2, <2>4, <2>5, <2>6, <2>7, <2>8, <2>10, <2>11 DEF Next
<1>3. QED BY <1>1, <1>2, TypeCorrect, EntriesAndBoot, OrderTotal, PTL
          DEF Spec, KeepsPins, Abstract!Spec
=============================================================================
