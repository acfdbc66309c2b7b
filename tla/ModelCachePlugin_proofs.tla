----------------------- MODULE ModelCachePlugin_proofs -----------------------
(* Proofs about ModelCachePlugin for any set of models, claims, goroutines,*)
(* commits, files and claim specs: the types of its state, together with   *)
(* what the program counters of its processes say, which they depend on.   *)
EXTENDS ModelCachePlugin, CacheManager_proofs, FiniteSetTheorems,
        SequenceTheorems, WellFoundedInduction

USE DEF cacheVars, entries, Unlocked, Notify, Insert, Touch, gcs!cacheVars,
        gcs!entries, gcs!Unlocked, gcs!Notify, gcs!Insert, gcs!Touch, diskVars,
        providerVars, gcsVars, gcs!diskVars, gcs!providerVars, plugVars,
        faultVars, nodeVars, vars

-----------------------------------------------------------------------------
(* A nonempty set of numbers has a least element.                          *)
LEMMA LeastOf ==
    ASSUME NEW S \in SUBSET Nat, S # {}
    PROVE  \E x \in S : \A y \in S : x <= y
<1> DEFINE Less == {ss \in Nat \X Nat : ss[1] < ss[2]}
<1>1. Less = OpToRel(<, Nat)
  BY Zenon DEF OpToRel
<1>2. IsWellFoundedOn(Less, Nat)
  BY <1>1, NatLessThanWellFounded
<1>3. PICK x \in S : \A y \in S : ~ (<<y, x>> \in Less)
  <2> HIDE DEF Less
  <2> QED BY <1>2, WFMin
<1>4. \A y \in S : x <= y
  <2> TAKE y \in S
  <2>1. <<y, x>> \in Nat \X Nat /\ x \in Nat /\ y \in Nat
    OBVIOUS
  <2>2. ~ (y < x)
    BY <1>3, <2>1
  <2> QED BY <2>1, <2>2
<1> QED BY <1>4

(* Min is that element ...                                                 *)
LEMMA MinIn == ASSUME NEW S \in SUBSET Nat, S # {} PROVE Min(S) \in S
BY LeastOf DEF Min

(* ... and Max the greatest, which a set of indices has.                   *)
LEMMA MaxIn == ASSUME NEW n \in Nat, NEW S \in SUBSET (1..n), S # {}
               PROVE  Max(S) \in S
<1> DEFINE T == {n - x : x \in S}
<1>1. T \subseteq Nat
  OBVIOUS
<1>2. T # {}
  <2>1. PICK x \in S : TRUE
    OBVIOUS
  <2>2. n - x \in T
    BY <2>1
  <2> QED BY <2>2
<1>3. PICK t \in T : \A k \in T : t <= k
  <2> HIDE DEF T
  <2> QED BY <1>1, <1>2, LeastOf
<1>4. PICK x \in S : t = n - x
  BY <1>3
<1>5. \A y \in S : n - x <= n - y
  BY <1>3, <1>4
<1>6. \A y \in S : x >= y
  BY <1>5
<1> QED BY <1>4, <1>6 DEF Max

(* The loader that the devices of an admitted claim get names a model.     *)
LEMMA LoaderNamesModel ==
    ASSUME NEW spec \in ClaimSpec, webhook!Admitted(Review(spec)),
           LoaderOf(spec.config) # NoLoader
    PROVE  \E i \in DOMAIN spec.config :
              /\ spec.config[i].driver = DriverName
              /\ spec.config[i].params.form = "strict"
              /\ LoaderOf(spec.config) = spec.config[i].params
              /\ LoaderOf(spec.config).model \in Model \ {Empty}
<1> DEFINE config == spec.config
           own == {i \in DOMAIN config : config[i].driver = DriverName}
           decoded == {i \in own : webhook!Decodes(config[i].params)}
<1>1. config \in Seq([driver : STRING,
                      params : [form : {"absent", "garbled", "lenient", "strict"},
                                provider : Provider \union {Empty},
                                model : Model \union {Empty}]])
  BY ClaimAssumption
<1>2. DOMAIN config = 1..Len(config) /\ Len(config) \in Nat
  BY <1>1
<1>3. \A i \in DOMAIN config : config[i].params.model \in Model \union {Empty}
  <2> TAKE i \in DOMAIN config
  <2> DEFINE Params == [form : {"absent", "garbled", "lenient", "strict"},
                        provider : Provider \union {Empty},
                        model : Model \union {Empty}]
             Opaque == [driver : STRING, params : Params]
  <2>1. config[i] \in Opaque
    <3> HIDE DEF Opaque
    <3> QED BY <1>1, <1>2, ElementOfSeq DEF Opaque
  <2>2. config[i].params \in Params
    <3> HIDE DEF Params
    <3> QED BY <2>1
  <2> QED BY <2>2
<1>4. \A i \in own : config[i].params.form # "absent"
                       => /\ webhook!Decodes(config[i].params)
                          /\ config[i].params.model # Empty
  <2>1. Review(spec).config = config /\ Review(spec).resource \in webhook!Known
    BY DEF Review, webhook!Known, webhook!Versions
  <2>2. \A i \in own : config[i].params \in webhook!OpaqueParams(Review(spec))
    BY <2>1 DEF webhook!OpaqueParams
  <2> QED BY <2>1, <2>2 DEF webhook!Admitted, webhook!validateModelLoader
<1>5. CASE decoded # {}
  <2>1. Min(decoded) \in decoded
    <3>1. decoded \in SUBSET Nat
      BY <1>2
    <3> HIDE DEF decoded
    <3> QED BY <1>5, <3>1, MinIn
  <2>2. LoaderOf(config) = config[Min(decoded)].params
    BY <1>5 DEF LoaderOf
  <2> QED BY <1>3, <1>4, <2>1, <2>2 DEF webhook!Decodes
<1>6. CASE decoded = {}
  <2>1. own # {} /\ webhook!HasObject(config[Max(own)].params)
    BY <1>6 DEF LoaderOf
  <2>2. Max(own) \in own
    <3>1. own \in SUBSET (1..Len(config))
      BY <1>2
    <3> HIDE DEF own
    <3> QED BY <1>2, <2>1, <3>1, MaxIn
  <2>3. Max(own) \in decoded
    BY <1>4, <2>1, <2>2 DEF webhook!HasObject
  <2> QED BY <1>6, <2>3
<1> QED BY <1>5, <1>6
-----------------------------------------------------------------------------
(* The invariant, one conjunct for each part of the state.                 *)

(* The program counter of a goroutine says what its other variables hold,  *)
(* only a goroutine in EnsureSpace has the cache's mutex, and the channel  *)
(* of a model belongs to the goroutine that downloads it.                  *)
Goroutine == [pc : DownloadPC, model : Model \union {None},
              sha : Rev \union {None}, todo : SUBSET File]
Fetching(d) == d.pc \in {"space", "ensuring", "mkdir", "files", "sentinel"}
USE DEF Goroutine
DownloadsOK ==
    /\ ongoing \in [Model -> Fetcher \union {None}]
    /\ dl \in [Fetcher -> Goroutine]
    /\ \A g \in Fetcher : /\ dl[g].pc = "none" => dl[g] = NoDownload
                          /\ dl[g].pc # "none" => dl[g].model \in Model
                          /\ Fetching(dl[g]) => dl[g].sha \in Rev
                          /\ holder = g => dl[g].pc = "ensuring"
    /\ \A m \in Model, g \in Fetcher :
          ongoing[m] = g <=> dl[g].pc # "none" /\ dl[g].model = m

GcsDownloadPC == {"none", "space", "ensuring", "mkdir", "add", "sentinel", "exit"}
GcsDownloadsOK ==
    /\ gcsOngoing \in [Model -> GcsFetcher \union {None}]
    /\ gcsDl \in [GcsFetcher -> [pc : GcsDownloadPC, model : Model \union {None}]]
    /\ \A g \in GcsFetcher : /\ gcsDl[g].pc = "none" => gcsDl[g] = gcs!NoDownload
                             /\ gcsDl[g].pc # "none" => gcsDl[g].model \in Model
                             /\ holder = g => gcsDl[g].pc = "ensuring"
    /\ gcs!OneDownload

DiskOK ==
    /\ rev \in [Model -> Rev]
    /\ dirs \subseteq Model
    /\ disk \subseteq Model \X Rev \X File
    /\ IsFiniteSet(disk)
    /\ sentinel \subseteq Model \X Rev
    /\ gcsBuckets \subseteq Model
    /\ gcsSentinel \subseteq gcsBuckets

(* A call in progress is for the claim of the Prepare in progress.         *)
GcsCallPC == {"none", "stub", "download", "select", "again", "find", "cached",
              "stat", "done"}
CallsOK ==
    /\ call \in [pc : CallPC, claim : Claim \union {None},
                 model : Model \union {None}, ch : Fetcher \union {None},
                 hook : BOOLEAN, sha : Rev \union {None}]
    /\ gcsCall \in [pc : GcsCallPC, claim : Claim \union {None},
                    model : Model \union {None}, ch : GcsFetcher \union {None},
                    hook : BOOLEAN]
    /\ call.pc = "none" => call = NoCall
    /\ call.pc # "none" => /\ call.claim = prep.claim /\ call.claim \in Claim
                           /\ call.model \in Model
    /\ gcsCall.pc = "none" => gcsCall = gcs!NoCall
    /\ gcsCall.pc # "none" => /\ gcsCall.claim = prep.claim
                              /\ gcsCall.claim \in Claim
                              /\ gcsCall.model \in Model

(* The cached devices of a list are of models that the claim asks for.     *)
DevicesAsked(c, devices) ==
    \A i \in DOMAIN devices :
       devices[i].stub \/ \E j \in DOMAIN alloc[c].spec.requests :
                            devices[i].model = alloc[c].spec.requests[j].model

(* A Prepare is for an allocated claim and is at a provider exactly while  *)
(* it has devices left.                                                    *)
PrepOK ==
    /\ prep \in [claim : Claim \union {None}, left : Seq(Device),
                 edits : SUBSET Edits]
    /\ prep.claim = None => prep = NoPrep
    /\ prep.left # <<>> <=> call # NoCall \/ gcsCall # gcs!NoCall
    /\ call = NoCall \/ gcsCall = gcs!NoCall
    /\ prep # NoPrep => /\ st[prep.claim] = "allocated"
                        /\ DevicesAsked(prep.claim, prep.left)

(* A claim that exists was admitted and allocated.                         *)
ClaimsOK ==
    /\ st \in [Claim -> {"none", "allocated", "prepared", "running",
                         "stopped", "done"}]
    /\ alloc \in [Claim -> [spec : ClaimSpec \union {None},
                            devices : Seq(Device)]]
    /\ cdi \in [Claim -> SUBSET Edits]
    /\ fresh \subseteq Claim
    /\ \A c \in Claim : st[c] = "none" => cdi[c] = {} /\ c \notin fresh
    /\ \A c \in Claim : st[c] # "none" =>
          /\ alloc[c].spec \in ClaimSpec
          /\ webhook!Admitted(Review(alloc[c].spec))
          /\ alloc[c].devices # <<>>
          /\ DevicesAsked(c, alloc[c].devices)

PlainOK == /\ up \in BOOLEAN
           /\ slice \subseteq Enabled \X Model
           /\ razed \subseteq Model
           /\ failures \in 0..MaxFailures
           /\ crashes \in 0..MaxCrashes

(* A process that is not up yet does nothing but the scan.                 *)
DownOK == ~up => /\ dl = [g \in Fetcher |-> NoDownload]
                 /\ gcsDl = [g \in GcsFetcher |-> gcs!NoDownload]
                 /\ call = NoCall /\ gcsCall = gcs!NoCall
                 /\ prep = NoPrep /\ holder = Free /\ fresh = {}

ControlInv == /\ CacheInv /\ DownloadsOK /\ GcsDownloadsOK /\ DiskOK
              /\ CallsOK /\ PrepOK /\ ClaimsOK /\ PlainOK /\ DownOK

-----------------------------------------------------------------------------
(* The invariant gives the types.                                          *)
LEMMA ControlTypes == ControlInv => TypeOK
<1> SUFFICES ASSUME ControlInv PROVE TypeOK
  OBVIOUS
<1>1. ProviderTypeOK
  BY DEF ControlInv, CacheInv, DownloadsOK, DiskOK, CallsOK, ProviderTypeOK
<1>2. gcs!ProviderTypeOK
  BY DEF ControlInv, GcsDownloadsOK, DiskOK, CallsOK, GcsDownloadPC, GcsCallPC,
         gcs!ProviderTypeOK
<1> QED BY <1>1, <1>2 DEF ControlInv, PrepOK, ClaimsOK, PlainOK, TypeOK

(* It holds when the process starts, whatever is on the disk.              *)
LEMMA ControlInit == Init => ControlInv
<1> SUFFICES ASSUME Init PROVE ControlInv
  OBVIOUS
<1> USE DEF Init
<1>1. CacheInv /\ holder = Free
  BY NewCacheInv DEF NewCacheManager
<1>2. Free \notin Caller /\ None \notin Model \union Fetcher \union GcsFetcher
                                        \union Claim
  BY CacheAssumption, ProviderAssumption, PluginAssumption
<1>3. Fetcher \subseteq Caller /\ GcsFetcher \subseteq Caller
  BY ProviderAssumption, PluginAssumption
<1>4. DownloadsOK
  BY <1>1, <1>2, <1>3
     DEF DownloadsOK, NewProvider, NoDownload, DownloadPC, Fetching
<1>5. GcsDownloadsOK
  BY <1>1, <1>2, <1>3 DEF GcsDownloadsOK, GcsDownloadPC, gcs!NewGCSProvider,
                          gcs!NoDownload, gcs!OneDownload
<1>6. DiskOK
  <2>1. PICK left \in Before :
           /\ dirs = left.huggingface
           /\ disk = left.huggingface \X {FirstRev} \X File
           /\ sentinel = left.huggingface \X {FirstRev}
           /\ gcsSentinel = left.gcs
           /\ gcsBuckets = left.gcs \union {Org[m] : m \in left.gcs}
    OBVIOUS
  <2>2. left.gcs \subseteq Model /\ left.huggingface \subseteq Model
    BY DiskAssumption
  <2>3. FirstRev \in Rev
    BY FaultAssumption DEF FirstRev
  <2>4. IsFiniteSet(disk)
    <3>1. IsFiniteSet({FirstRev} \X File)
      BY DiskAssumption, FS_Singleton, FS_Product
    <3>2. IsFiniteSet(left.huggingface \X ({FirstRev} \X File))
      BY <3>1, DiskAssumption, FS_Product
    <3> DEFINE nested == left.huggingface \X ({FirstRev} \X File)
               flat == [x \in nested |-> <<x[1], x[2][1], x[2][2]>>]
    <3>3. flat \in [nested -> disk]
      BY <2>1
    <3>4. \A y \in disk : \E x \in nested : flat[x] = y
      <4> TAKE y \in disk
      <4>1. PICK m \in left.huggingface, f \in File : y = <<m, FirstRev, f>>
        BY <2>1
      <4>2. <<m, <<FirstRev, f>>>> \in nested
        BY <4>1
      <4>3. flat[<<m, <<FirstRev, f>>>>] = y
        BY <4>1, <4>2
      <4> QED BY <4>2, <4>3
    <3> HIDE DEF nested, flat
    <3>5. flat \in Surjection(nested, disk)
      BY <3>3, <3>4 DEF Surjection
    <3> QED BY <3>2, <3>5, FS_Surjection DEF nested
  <2>5. \A m \in Model : Org[m] \in Model
    BY PluginAssumption
  <2>6. rev \in [Model -> Rev]
    BY <2>3
  <2> QED BY <2>1, <2>2, <2>3, <2>4, <2>5, <2>6 DEF DiskOK
<1>7. CallsOK
  BY DEF CallsOK, NewProvider, NoCall, CallPC, GcsCallPC, gcs!NewGCSProvider,
         gcs!NoCall
<1>8. PrepOK
  <2>1. prep = NoPrep /\ call = NoCall /\ gcsCall = gcs!NoCall
    BY DEF NewProvider, gcs!NewGCSProvider
  <2> QED BY <2>1 DEF PrepOK, NoPrep
<1>9. ClaimsOK
  <2>1. NoAlloc \in [spec : ClaimSpec \union {None}, devices : Seq(Device)]
    BY DEF NoAlloc
  <2>2. \A c \in Claim : st[c] = "none" /\ cdi[c] = {} /\ c \notin fresh
    OBVIOUS
  <2> HIDE DEF Init
  <2>3. st = [c \in Claim |-> "none"] /\ alloc = [c \in Claim |-> NoAlloc]
        /\ cdi = [c \in Claim |-> {}] /\ fresh = {}
    BY DEF Init
  <2> QED BY <2>1, <2>2, <2>3 DEF ClaimsOK
<1>10. PlainOK
  <2>1. up = FALSE /\ slice = {} /\ razed = {} /\ failures = 0 /\ crashes = 0
    OBVIOUS
  <2> HIDE DEF Init
  <2>2. 0 \in 0..MaxFailures /\ 0 \in 0..MaxCrashes
    BY FaultAssumption
  <2> QED BY <2>1, <2>2 DEF PlainOK
<1>11. DownOK
  BY <1>1 DEF DownOK, NewProvider, gcs!NewGCSProvider
<1> QED BY <1>1, <1>4, <1>5, <1>6, <1>7, <1>8, <1>9, <1>10, <1>11 DEF ControlInv

-----------------------------------------------------------------------------
(* Each part is kept by every step; the cache by its own operations.       *)
LEMMA CacheKept == ASSUME ControlInv, Next PROVE CacheInv'
<1>0. /\ CacheInv /\ ModelSize \in Nat
      /\ Fetcher \subseteq Caller /\ GcsFetcher \subseteq Caller
  BY ProviderAssumption, PluginAssumption DEF ControlInv
<1> USE <1>0
<1>1. CASE Start
  <2>1. CASE NewDriver
    BY <2>1, SetOnUpdateKeepsCache DEF NewDriver
  <2>2. ASSUME NEW m \in Model, Scan(m) PROVE CacheInv'
    <3>1. Cardinality(Contents(m)) \in Nat
      <4>1. IsFiniteSet(disk) /\ Contents(m) \subseteq disk
        BY DEF ControlInv, DiskOK, Contents
      <4> QED BY <4>1, FS_Subset, FS_CardinalityType
    <3> QED BY <2>2, <3>1, ScanKeepsCache DEF Scan, Provider
  <2> QED BY <1>1, <2>1, <2>2 DEF Start
<1>2. CASE RunOnUpdate
  BY <1>2 DEF RunOnUpdate, CacheInv, CacheTypeOK, EntriesOfModels
<1>3. CASE Crash
  BY <1>3, RestartKeepsCache DEF Crash
<1>4. CASE Failure
  <2>1. UNCHANGED cacheVars
    BY <1>4 DEF Failure, CreateClaimSpecFileFails, SnapshotInfoFails,
            DownloadFails, DownloadAddFails, gcs!DownloadFails,
            gcs!DownloadAddFails
  <2> QED BY <2>1, NothingKeepsCache
<1>5. CASE CallStep
  <2>1. \/ UNCHANGED cacheVars
        \/ At("stub") /\ UseModel(call.model, call.claim)
        \/ At("again") /\ UseModel(call.model, call.claim)
        \/ At("cached") /\ UseModel(call.model, call.claim)
        \/ gcs!At("stub") /\ UseModel(gcsCall.model, gcsCall.claim)
        \/ gcs!At("again") /\ UseModel(gcsCall.model, gcsCall.claim)
        \/ gcs!At("cached") /\ UseModel(gcsCall.model, gcsCall.claim)
    BY <1>5 DEF UseModel, gcs!UseModel, CallStep, StubUse, DownloadModel,
            Select, UseAgain, FindDevice, CachedUse, SnapshotInfo, gcs!StubUse, gcs!DownloadModel, gcs!Select,
            gcs!UseAgain, gcs!FindDevice, gcs!CachedUse, gcs!StatDirectory,
            NextDevice, CreateClaimSpecFile, Prepared
  <2>2. /\ call.pc # "none" => call.claim \in Claim /\ call.model \in Model
        /\ gcsCall.pc # "none" => gcsCall.claim \in Claim /\ gcsCall.model \in Model
    BY DEF ControlInv, CallsOK
  <2>3. ASSUME NEW m \in Model, NEW c \in Claim, UseModel(m, c) PROVE CacheInv'
    BY <2>3, UseKeepsCache
  <2> QED BY <2>1, <2>2, <2>3, NothingKeepsCache DEF At, gcs!At
<1>6. ASSUME NEW g \in Caller, NEW m \in Model, Evict(g, m) PROVE CacheInv'
  BY <1>6, EvictKeepsCache DEF Evict
<1>7. ASSUME NEW g \in Fetcher, DownloadStep(g) PROVE CacheInv'
  <2>1. \/ UNCHANGED cacheVars
        \/ EnsureSpace(g)
        \/ SpaceEnsured(g, ModelSize) \/ SpaceRefused(g, ModelSize)
        \/ In(g, "files") /\ AddModel(dl[g].model, ModelSize)
        \/ \E m \in Model : Evict(g, m)
    BY <1>7 DEF DownloadStep, DownloadInfo, DownloadEnsureSpace,
            DownloadSpaceEnsured, DownloadSpaceRefused, DownloadMkdir,
            DownloadFile, DownloadAdd, DownloadSentinel, DownloadExit, Fetched
  <2>2. In(g, "files") => dl[g].model \in Model
    BY DEF ControlInv, DownloadsOK, In
  <2> QED BY <1>6, <2>1, <2>2, NothingKeepsCache, EnsureSpaceKeepsCache,
             EnsuredKeepsCache, AddKeepsCache
<1>8. ASSUME NEW g \in GcsFetcher, GcsDownloadStep(g) PROVE CacheInv'
  <2>1. \/ UNCHANGED cacheVars
        \/ EnsureSpace(g)
        \/ SpaceEnsured(g, ModelSize) \/ SpaceRefused(g, ModelSize)
        \/ gcs!In(g, "add") /\ AddModel(gcsDl[g].model, ModelSize)
        \/ \E m \in Model : Evict(g, m)
    BY <1>8 DEF GcsDownloadStep, gcs!DownloadEnsureSpace,
            gcs!DownloadSpaceEnsured, gcs!DownloadSpaceRefused,
            gcs!DownloadMkdir, gcs!DownloadAdd, gcs!DownloadSentinel,
            gcs!DownloadExit, gcs!EnsureSpace, gcs!SpaceEnsured,
            gcs!SpaceRefused, gcs!AddModel, EnsureSpace, SpaceEnsured,
            SpaceRefused, AddModel, gcs!Fits, Fits, gcs!Idle, Idle
  <2>2. gcs!In(g, "add") => gcsDl[g].model \in Model
    BY DEF ControlInv, GcsDownloadsOK, gcs!In
  <2> QED BY <1>6, <2>1, <2>2, NothingKeepsCache, EnsureSpaceKeepsCache,
             EnsuredKeepsCache, AddKeepsCache
<1>9. ASSUME NEW m \in Model, Push(m) PROVE CacheInv'
  BY <1>9, NothingKeepsCache DEF Push
<1>10. ASSUME NEW c \in Claim,
              \/ Prepare(c) \/ StartContainer(c) \/ StopPod(c)
              \/ \E s \in ClaimSpec : Allocate(c, s)
       PROVE  CacheInv'
  BY <1>10, NothingKeepsCache DEF Prepare, StartContainer, StopPod, Allocate
<1>11. ASSUME NEW c \in Claim, Unprepare(c) PROVE CacheInv'
  BY <1>11 DEF Unprepare, UnprepareClaims, CacheInv, CacheTypeOK,
               EntriesOfModels
<1> QED BY <1>1, <1>2, <1>3, <1>4, <1>5, <1>7, <1>8, <1>9, <1>10, <1>11 DEF Next

(* A step of the goroutine g, and its failures.                            *)
GoroutineStep(g) ==
    \/ DownloadInfo(g) \/ DownloadEnsureSpace(g) \/ DownloadSpaceEnsured(g)
    \/ DownloadSpaceRefused(g) \/ DownloadMkdir(g)
    \/ \E f \in File : DownloadFile(g, f)
    \/ DownloadAdd(g) \/ DownloadAddFails(g) \/ DownloadSentinel(g)
    \/ DownloadFails(g) \/ DownloadExit(g)
GcsGoroutineStep(g) ==
    \/ gcs!DownloadEnsureSpace(g) \/ gcs!DownloadSpaceEnsured(g)
    \/ gcs!DownloadSpaceRefused(g) \/ gcs!DownloadMkdir(g)
    \/ gcs!DownloadAdd(g) \/ gcs!DownloadAddFails(g) \/ gcs!DownloadSentinel(g)
    \/ gcs!DownloadFails(g) \/ gcs!DownloadExit(g)

(* Who moves the goroutines of each provider and the mutex.                *)
LEMMA DownloadFrame ==
    ASSUME Next
    PROVE  /\ \/ UNCHANGED <<ongoing, dl>>
              \/ Crash
              \/ DownloadModel
              \/ \E g \in Fetcher : GoroutineStep(g)
           /\ \/ UNCHANGED <<gcsOngoing, gcsDl>>
              \/ Crash
              \/ gcs!DownloadModel
              \/ \E g \in GcsFetcher : GcsGoroutineStep(g)
           /\ \/ UNCHANGED holder
              \/ Crash
              \/ \E g \in Fetcher : \/ DownloadEnsureSpace(g)
                                    \/ DownloadSpaceEnsured(g)
                                    \/ DownloadSpaceRefused(g)
              \/ \E g \in GcsFetcher : \/ gcs!DownloadEnsureSpace(g)
                                       \/ gcs!DownloadSpaceEnsured(g)
                                       \/ gcs!DownloadSpaceRefused(g)
<1>1. CASE Start \/ RunOnUpdate
  BY <1>1 DEF Start, NewDriver, Scan, RunOnUpdate, SetOnUpdate, ScanModel
<1>2. CASE Failure
  BY <1>2 DEF Failure, CreateClaimSpecFileFails, SnapshotInfoFails,
          DownloadFails, DownloadAddFails, gcs!DownloadFails,
          gcs!DownloadAddFails, GoroutineStep, GcsGoroutineStep
<1>3. CASE CallStep
  BY <1>3 DEF UseModel, gcs!UseModel, CallStep, StubUse, DownloadModel, Select,
          UseAgain, FindDevice, CachedUse, SnapshotInfo, gcs!StubUse,
          gcs!DownloadModel, gcs!Select, gcs!UseAgain, gcs!FindDevice,
          gcs!CachedUse, gcs!StatDirectory, NextDevice, CreateClaimSpecFile,
          Prepared
<1>4. ASSUME NEW g, NEW m, Evict(g, m)
      PROVE  UNCHANGED <<ongoing, dl, gcsOngoing, gcsDl, holder>>
  BY <1>4 DEF Evict, EvictLRU
<1>5. ASSUME NEW g \in Fetcher, DownloadStep(g)
      PROVE  /\ UNCHANGED <<gcsOngoing, gcsDl>>
             /\ \/ UNCHANGED <<ongoing, dl, holder>>
                \/ UNCHANGED holder /\ GoroutineStep(g)
                \/ DownloadEnsureSpace(g) \/ DownloadSpaceEnsured(g)
                \/ DownloadSpaceRefused(g)
  BY <1>4, <1>5 DEF DownloadStep, GoroutineStep, DownloadInfo, DownloadMkdir,
              DownloadFile, DownloadAdd, DownloadSentinel, DownloadExit,
              AddModel
<1>6. ASSUME NEW g \in GcsFetcher, GcsDownloadStep(g)
      PROVE  /\ UNCHANGED <<ongoing, dl>>
             /\ \/ UNCHANGED <<gcsOngoing, gcsDl, holder>>
                \/ UNCHANGED holder /\ GcsGoroutineStep(g)
                \/ gcs!DownloadEnsureSpace(g) \/ gcs!DownloadSpaceEnsured(g)
                \/ gcs!DownloadSpaceRefused(g)
  BY <1>4, <1>6 DEF GcsDownloadStep, GcsGoroutineStep, gcs!DownloadMkdir,
              gcs!DownloadAdd, gcs!DownloadSentinel, gcs!DownloadExit,
              gcs!AddModel
<1>7. ASSUME NEW m \in Model, Push(m)
      PROVE  UNCHANGED <<ongoing, dl, gcsOngoing, gcsDl, holder>>
  BY <1>7 DEF Push
<1>8. ASSUME NEW c \in Claim,
             \/ Prepare(c) \/ StartContainer(c) \/ StopPod(c) \/ Unprepare(c)
             \/ \E s \in ClaimSpec : Allocate(c, s)
      PROVE  UNCHANGED <<ongoing, dl, gcsOngoing, gcsDl, holder>>
  BY <1>8 DEF Prepare, StartContainer, StopPod, Unprepare, Allocate
<1> QED BY <1>1, <1>2, <1>3, <1>5, <1>6, <1>7, <1>8
        DEF Next, GoroutineStep, GcsGoroutineStep

(* The goroutines of the Hugging Face provider.                            *)
LEMMA DownloadsKept == ASSUME ControlInv, Next PROVE DownloadsOK'
<1>0. /\ DownloadsOK /\ rev \in [Model -> Rev] /\ Free \notin Fetcher
      /\ None \notin Fetcher /\ Fetcher \intersect GcsFetcher = {}
  BY CacheAssumption, ProviderAssumption, PluginAssumption
     DEF ControlInv, DiskOK
<1> USE <1>0
<1>1. CASE Crash
  BY <1>1 DEF Crash, RestartCacheManager, RestartProvider, DownloadsOK,
          NoDownload, DownloadPC, Fetching
<1>2. CASE DownloadModel
  <2>1. UNCHANGED holder /\ call.model \in Model
    BY <1>2 DEF DownloadModel, ControlInv, CallsOK, At
  <2>2. CASE UNCHANGED <<ongoing, dl>>
    BY <2>1, <2>2 DEF DownloadsOK
  <2>3. ASSUME NEW g \in Fetcher, dl[g].pc = "none", ongoing[call.model] = None,
               dl' = [dl EXCEPT ![g] = [NoDownload EXCEPT
                                          !.pc = "info", !.model = call.model]],
               ongoing' = [ongoing EXCEPT ![call.model] = g]
        PROVE  DownloadsOK'
    <3>1. dl' = [dl EXCEPT ![g] = [pc |-> "info", model |-> call.model,
                                   sha |-> None, todo |-> {}]]
      <4> DEFINE started == [NoDownload EXCEPT !.pc = "info"]
      <4>1. started = [pc |-> "info", model |-> None, sha |-> None, todo |-> {}]
        BY DEF NoDownload
      <4>2. dl' = [dl EXCEPT ![g] = [started EXCEPT !.model = call.model]]
        BY <2>3
      <4> HIDE DEF started
      <4>3. [started EXCEPT !.model = call.model]
              = [pc |-> "info", model |-> call.model, sha |-> None, todo |-> {}]
        BY <4>1
      <4> QED BY <4>2, <4>3
    <3>2. \A h \in Fetcher : dl'[h] = IF h = g
             THEN [pc |-> "info", model |-> call.model, sha |-> None, todo |-> {}]
             ELSE dl[h]
      BY <3>1 DEF DownloadsOK
    <3>3. dl' \in [Fetcher -> Goroutine]
      BY <2>1, <3>1 DEF DownloadsOK, DownloadPC
    <3>4. ongoing' \in [Model -> Fetcher \union {None}]
      BY <2>1, <2>3 DEF DownloadsOK
    <3>5. \A m \in Model, h \in Fetcher :
             ongoing'[m] = h <=> dl'[h].pc # "none" /\ dl'[h].model = m
      BY <2>1, <2>3, <3>2 DEF DownloadsOK
    <3>6. \A h \in Fetcher : /\ dl'[h].pc = "none" => dl'[h] = NoDownload
                             /\ dl'[h].pc # "none" => dl'[h].model \in Model
                             /\ Fetching(dl'[h]) => dl'[h].sha \in Rev
                             /\ holder' = h => dl'[h].pc = "ensuring"
      BY <2>1, <2>3, <3>2 DEF DownloadsOK, Fetching
    <3> QED BY <3>3, <3>4, <3>5, <3>6 DEF DownloadsOK
  <2> QED BY <1>2, <2>2, <2>3 DEF DownloadModel
<1>3. ASSUME NEW g \in Fetcher, GoroutineStep(g) PROVE DownloadsOK'
  <2>00. dl \in [Fetcher -> Goroutine]
    BY DEF DownloadsOK
  <2>0. ASSUME dl' \in [Fetcher -> Goroutine],
               \A h \in Fetcher : h # g => dl'[h] = dl[h],
               dl[g].pc # "none", dl'[g].pc # "none", dl'[g].model = dl[g].model,
               Fetching(dl'[g]) => dl'[g].sha \in Rev,
               UNCHANGED ongoing,
               \/ UNCHANGED holder /\ dl[g].pc # "ensuring"
               \/ holder' = g /\ dl'[g].pc = "ensuring"
               \/ holder' = Free
        PROVE  DownloadsOK'
    BY <2>0 DEF DownloadsOK, Fetching
  <2>1. CASE DownloadInfo(g)
    <3>1. dl' = [dl EXCEPT ![g].pc = "space", ![g].todo = File,
                           ![g].sha = rev[dl[g].model]]
      BY <2>1 DEF DownloadInfo
    <3>2. dl[g].pc = "info" /\ UNCHANGED <<ongoing, holder>>
      BY <2>1 DEF DownloadInfo, In
    <3>3. dl[g].model \in Model /\ rev[dl[g].model] \in Rev
      BY <3>2 DEF DownloadsOK
    <3>4. dl' \in [Fetcher -> Goroutine]
      <4> DEFINE other == [dl EXCEPT ![g].pc = "space", ![g].todo = File]
      <4>1. other \in [Fetcher -> Goroutine]
        BY <2>00 DEF DownloadPC
      <4>2. dl' = [other EXCEPT ![g].sha = rev[dl[g].model]]
        BY <3>1
      <4> HIDE DEF other
      <4> QED BY <3>3, <4>1, <4>2
    <3>5. /\ \A h \in Fetcher : h # g => dl'[h] = dl[h]
          /\ dl'[g].pc = "space" /\ dl'[g].model = dl[g].model
          /\ dl'[g].sha = rev[dl[g].model]
      BY <2>00, <3>1
    <3> QED BY <2>0, <3>2, <3>3, <3>4, <3>5
  <2>2. ASSUME NEW pc \in DownloadPC, pc # "none", Step(g, pc),
               dl[g].pc # "none", pc # "exit" => Fetching(dl[g]),
               UNCHANGED ongoing,
               \/ UNCHANGED holder /\ dl[g].pc # "ensuring"
               \/ holder' = g /\ pc = "ensuring"
               \/ holder' = Free
        PROVE  DownloadsOK'
    BY <2>2 DEF DownloadsOK, Step, Fetching
  <2>3. CASE DownloadEnsureSpace(g) \/ DownloadSpaceEnsured(g)
             \/ DownloadSpaceRefused(g)
    BY <2>2, <2>3 DEF DownloadEnsureSpace, DownloadSpaceEnsured,
       DownloadSpaceRefused, EnsureSpace, SpaceEnsured, SpaceRefused, In,
       DownloadsOK, DownloadPC, Fetching
  <2>4. CASE DownloadMkdir(g) \/ DownloadAdd(g) \/ DownloadAddFails(g)
             \/ DownloadSentinel(g) \/ DownloadFails(g)
    BY <2>2, <2>4 DEF DownloadMkdir, DownloadAdd, DownloadAddFails,
       DownloadSentinel, DownloadFails, AddModel, Fetched, In, DownloadsOK,
       DownloadPC, Fetching
  <2>5. ASSUME NEW f \in File, DownloadFile(g, f) PROVE DownloadsOK'
    <3>1. dl' = [dl EXCEPT ![g].todo = dl[g].todo \ {f}]
      BY <2>5 DEF DownloadFile
    <3>2. UNCHANGED <<ongoing, holder>> /\ dl[g].pc = "files"
      BY <2>5 DEF DownloadFile, In
    <3>3. dl' \in [Fetcher -> Goroutine]
      BY <2>00, <3>1
    <3>4. /\ \A h \in Fetcher : h # g => dl'[h] = dl[h]
          /\ dl'[g].pc = "files" /\ dl'[g].model = dl[g].model
          /\ dl'[g].sha = dl[g].sha
      BY <2>00, <3>1, <3>2
    <3>5. dl[g].sha \in Rev
      BY <3>2 DEF DownloadsOK, Fetching
    <3> QED BY <2>0, <3>2, <3>3, <3>4, <3>5
  <2>6. CASE DownloadExit(g)
    BY <2>6 DEF DownloadExit, In, DownloadsOK, DownloadPC, NoDownload, Fetching
  <2> QED BY <1>3, <2>1, <2>3, <2>4, <2>5, <2>6 DEF GoroutineStep
<1>4. ASSUME UNCHANGED <<ongoing, dl>>, UNCHANGED holder \/ holder' \notin Fetcher
      PROVE  DownloadsOK'
  BY <1>4 DEF DownloadsOK
<1>5. ASSUME NEW g \in Fetcher,
             \/ DownloadEnsureSpace(g) \/ DownloadSpaceEnsured(g)
             \/ DownloadSpaceRefused(g)
      PROVE  DownloadsOK'
  BY <1>3, <1>5 DEF GoroutineStep
<1>6. ASSUME NEW g \in GcsFetcher,
             \/ gcs!DownloadEnsureSpace(g) \/ gcs!DownloadSpaceEnsured(g)
             \/ gcs!DownloadSpaceRefused(g)
      PROVE  holder' \notin Fetcher
  BY <1>6 DEF gcs!DownloadEnsureSpace, gcs!DownloadSpaceEnsured,
     gcs!DownloadSpaceRefused, gcs!EnsureSpace, gcs!SpaceEnsured,
     gcs!SpaceRefused
<1> QED BY DownloadFrame, <1>1, <1>2, <1>3, <1>4, <1>5, <1>6

(* The goroutines of the GCS provider.                                     *)
LEMMA GcsDownloadsKept == ASSUME ControlInv, Next PROVE GcsDownloadsOK'
<1>0. /\ GcsDownloadsOK /\ Free \notin GcsFetcher
      /\ None \notin GcsFetcher /\ Fetcher \intersect GcsFetcher = {}
  BY CacheAssumption, ProviderAssumption, PluginAssumption DEF ControlInv
<1> USE <1>0 DEF gcs!OneDownload
<1>1. CASE Crash
  BY <1>1 DEF Crash, RestartCacheManager, gcs!RestartGCSProvider,
          GcsDownloadsOK, gcs!NoDownload, GcsDownloadPC
<1>2. CASE gcs!DownloadModel
  <2>1. UNCHANGED holder /\ gcsCall.model \in Model
    BY <1>2 DEF gcs!DownloadModel, ControlInv, CallsOK, gcs!At
  <2>2. CASE UNCHANGED <<gcsOngoing, gcsDl>>
    BY <2>1, <2>2 DEF GcsDownloadsOK
  <2>3. ASSUME NEW g \in GcsFetcher, gcsDl[g].pc = "none",
               gcsOngoing[gcsCall.model] = None,
               gcsDl' = [gcsDl EXCEPT ![g] = [pc |-> "space",
                                              model |-> gcsCall.model]],
               gcsOngoing' = [gcsOngoing EXCEPT ![gcsCall.model] = g]
        PROVE  GcsDownloadsOK'
    <3>1. \A h \in GcsFetcher : gcsDl'[h] =
             IF h = g THEN [pc |-> "space", model |-> gcsCall.model] ELSE gcsDl[h]
      BY <2>3 DEF GcsDownloadsOK
    <3>2. gcsDl' \in [GcsFetcher -> [pc : GcsDownloadPC,
                                     model : Model \union {None}]]
      BY <2>1, <2>3 DEF GcsDownloadsOK, GcsDownloadPC
    <3>3. gcsOngoing' \in [Model -> GcsFetcher \union {None}]
      BY <2>1, <2>3 DEF GcsDownloadsOK
    <3>4. \A m \in Model, h \in GcsFetcher :
             gcsOngoing'[m] = h <=> gcsDl'[h].pc # "none" /\ gcsDl'[h].model = m
      BY <2>1, <2>3, <3>1 DEF GcsDownloadsOK
    <3>5. \A h \in GcsFetcher :
             /\ gcsDl'[h].pc = "none" => gcsDl'[h] = gcs!NoDownload
             /\ gcsDl'[h].pc # "none" => gcsDl'[h].model \in Model
             /\ holder' = h => gcsDl'[h].pc = "ensuring"
      BY <2>1, <2>3, <3>1 DEF GcsDownloadsOK
    <3> QED BY <3>2, <3>3, <3>4, <3>5 DEF GcsDownloadsOK
  <2> QED BY <1>2, <2>2, <2>3 DEF gcs!DownloadModel
<1>3. ASSUME NEW g \in GcsFetcher, GcsGoroutineStep(g) PROVE GcsDownloadsOK'
  <2>1. ASSUME NEW pc \in GcsDownloadPC, pc # "none", gcs!Step(g, pc),
               gcsDl[g].pc # "none", UNCHANGED gcsOngoing,
               \/ UNCHANGED holder /\ gcsDl[g].pc # "ensuring"
               \/ holder' = g /\ pc = "ensuring"
               \/ holder' = Free
        PROVE  GcsDownloadsOK'
    BY <2>1 DEF GcsDownloadsOK, gcs!Step
  <2>2. CASE \/ gcs!DownloadEnsureSpace(g) \/ gcs!DownloadSpaceEnsured(g)
             \/ gcs!DownloadSpaceRefused(g)
    BY <2>1, <2>2 DEF gcs!DownloadEnsureSpace, gcs!DownloadSpaceEnsured,
       gcs!DownloadSpaceRefused, gcs!EnsureSpace, gcs!SpaceEnsured,
       gcs!SpaceRefused, gcs!In, GcsDownloadsOK, GcsDownloadPC
  <2>3. CASE \/ gcs!DownloadMkdir(g) \/ gcs!DownloadAdd(g)
             \/ gcs!DownloadAddFails(g) \/ gcs!DownloadSentinel(g)
             \/ gcs!DownloadFails(g)
    BY <2>1, <2>3 DEF gcs!DownloadMkdir, gcs!DownloadAdd, gcs!DownloadAddFails,
       gcs!DownloadSentinel, gcs!DownloadFails, gcs!AddModel, gcs!In,
       GcsDownloadsOK, GcsDownloadPC
  <2>4. CASE gcs!DownloadExit(g)
    BY <2>4 DEF gcs!DownloadExit, gcs!In, GcsDownloadsOK, GcsDownloadPC,
       gcs!NoDownload
  <2> QED BY <1>3, <2>2, <2>3, <2>4 DEF GcsGoroutineStep
<1>4. ASSUME UNCHANGED <<gcsOngoing, gcsDl>>,
             UNCHANGED holder \/ holder' \notin GcsFetcher
      PROVE  GcsDownloadsOK'
  BY <1>4 DEF GcsDownloadsOK
<1>5. ASSUME NEW g \in GcsFetcher,
             \/ gcs!DownloadEnsureSpace(g) \/ gcs!DownloadSpaceEnsured(g)
             \/ gcs!DownloadSpaceRefused(g)
      PROVE  GcsDownloadsOK'
  BY <1>3, <1>5 DEF GcsGoroutineStep
<1>6. ASSUME NEW g \in Fetcher,
             \/ DownloadEnsureSpace(g) \/ DownloadSpaceEnsured(g)
             \/ DownloadSpaceRefused(g)
      PROVE  holder' \notin GcsFetcher
  BY <1>6 DEF DownloadEnsureSpace, DownloadSpaceEnsured, DownloadSpaceRefused,
     EnsureSpace, SpaceEnsured, SpaceRefused
<1> QED BY DownloadFrame, <1>1, <1>2, <1>3, <1>4, <1>5, <1>6

(* The disk and the hub: they are changed by the goroutines, by evictions  *)
(* and by pushes.                                                          *)
LEMMA DiskFrame ==
    ASSUME Next
    PROVE  \/ UNCHANGED <<rev, diskVars, gcsBuckets, gcsSentinel>>
           \/ \E g \in Fetcher \union GcsFetcher, m \in Model : Evict(g, m)
           \/ \E m \in Model : Push(m)
           \/ \E g \in Fetcher : /\ UNCHANGED <<gcsBuckets, gcsSentinel>>
                                 /\ \/ DownloadMkdir(g) \/ DownloadSentinel(g)
                                    \/ \E f \in File : DownloadFile(g, f)
           \/ \E g \in GcsFetcher : /\ UNCHANGED <<rev, diskVars>>
                                    /\ \/ gcs!DownloadMkdir(g)
                                       \/ gcs!DownloadSentinel(g)
<1>1. CASE Start \/ RunOnUpdate \/ Crash
  BY <1>1 DEF Start, NewDriver, Scan, RunOnUpdate, Crash
<1>2. CASE Failure
  BY <1>2 DEF Failure, CreateClaimSpecFileFails, SnapshotInfoFails,
          DownloadFails, DownloadAddFails, gcs!DownloadFails,
          gcs!DownloadAddFails
<1>3. CASE CallStep
  BY <1>3 DEF CallStep, StubUse, DownloadModel, Select,
          UseAgain, FindDevice, CachedUse, SnapshotInfo, gcs!StubUse,
          gcs!DownloadModel, gcs!Select, gcs!UseAgain, gcs!FindDevice,
          gcs!CachedUse, gcs!StatDirectory, NextDevice, CreateClaimSpecFile,
          Prepared
<1>4. ASSUME NEW g \in Fetcher, DownloadStep(g)
      PROVE  \/ UNCHANGED <<rev, diskVars, gcsBuckets, gcsSentinel>>
             \/ \E m \in Model : Evict(g, m)
             \/ /\ UNCHANGED <<gcsBuckets, gcsSentinel>>
                /\ \/ DownloadMkdir(g) \/ DownloadSentinel(g)
                   \/ \E f \in File : DownloadFile(g, f)
  BY <1>4 DEF DownloadStep, DownloadInfo, DownloadEnsureSpace,
     DownloadSpaceEnsured, DownloadSpaceRefused, DownloadAdd, DownloadExit
<1>5. ASSUME NEW g \in GcsFetcher, GcsDownloadStep(g)
      PROVE  \/ UNCHANGED <<rev, diskVars, gcsBuckets, gcsSentinel>>
             \/ \E m \in Model : Evict(g, m)
             \/ /\ UNCHANGED <<rev, diskVars>>
                /\ gcs!DownloadMkdir(g) \/ gcs!DownloadSentinel(g)
  BY <1>5 DEF GcsDownloadStep, gcs!DownloadEnsureSpace,
     gcs!DownloadSpaceEnsured, gcs!DownloadSpaceRefused, gcs!DownloadAdd,
     gcs!DownloadExit
<1>6. ASSUME NEW c \in Claim,
             \/ Prepare(c) \/ StartContainer(c) \/ StopPod(c) \/ Unprepare(c)
             \/ \E s \in ClaimSpec : Allocate(c, s)
      PROVE  UNCHANGED <<rev, diskVars, gcsBuckets, gcsSentinel>>
  BY <1>6 DEF Prepare, StartContainer, StopPod, Unprepare, Allocate
<1> QED BY <1>1, <1>2, <1>3, <1>4, <1>5, <1>6 DEF Next

(* What is on the disk stays finite, and a sentinel of GCS in a directory.  *)
LEMMA DiskKept == ASSUME ControlInv, Next PROVE DiskOK'
<1> USE DEF ControlInv, DiskOK
<1>0. DiskOK
  OBVIOUS
<1>1. CASE UNCHANGED <<rev, diskVars, gcsBuckets, gcsSentinel>>
  BY <1>1
<1>2. ASSUME NEW g, NEW m \in Model, Evict(g, m) PROVE DiskOK'
  <2>1. UNCHANGED rev /\ RemoveSnapshots(m) /\ gcs!RemoveBucket(m)
    BY <1>2 DEF Evict
  <2>2. dirs' \subseteq dirs /\ disk' \subseteq disk /\ sentinel' \subseteq sentinel
    BY <2>1 DEF RemoveSnapshots
  <2>3. gcsBuckets' \subseteq gcsBuckets /\ gcsSentinel' \subseteq gcsBuckets'
    BY <1>0, <2>1 DEF gcs!RemoveBucket
  <2>4. IsFiniteSet(disk')
    BY <1>0, <2>2, FS_Subset
  <2> QED BY <1>0, <2>1, <2>2, <2>3, <2>4
<1>3. ASSUME NEW m \in Model, Push(m) PROVE DiskOK'
  BY <1>3 DEF Push
<1>4. ASSUME NEW g \in Fetcher, UNCHANGED <<gcsBuckets, gcsSentinel>>,
             \/ DownloadMkdir(g) \/ DownloadSentinel(g)
             \/ \E f \in File : DownloadFile(g, f)
      PROVE  DiskOK'
  <2>1. dl[g].pc # "none" => dl[g].model \in Model
    BY DEF DownloadsOK
  <2>2. CASE DownloadMkdir(g)
    BY <1>0, <1>4, <2>1, <2>2 DEF DownloadMkdir, In
  <2>3. CASE DownloadSentinel(g)
    <3>1. dl[g].model \in Model /\ dl[g].sha \in Rev
      BY <2>3 DEF DownloadSentinel, In, DownloadsOK, Fetching
    <3> QED BY <1>0, <1>4, <2>3, <3>1 DEF DownloadSentinel
  <2>4. ASSUME NEW f \in File, DownloadFile(g, f) PROVE DiskOK'
    <3>1. dl[g].model \in Model
      BY <2>1, <2>4 DEF DownloadFile, In
    <3>2. disk' = disk \union {<<dl[g].model, rev[dl[g].model], f>>}
      BY <2>4 DEF DownloadFile
    <3>3. IsFiniteSet(disk')
      BY <1>0, <3>2, FS_AddElement
    <3>4. disk' \subseteq Model \X Rev \X File
      BY <1>0, <3>1, <3>2
    <3> QED BY <1>0, <1>4, <2>4, <3>3, <3>4 DEF DownloadFile
  <2> QED BY <1>4, <2>2, <2>3, <2>4
<1>5. ASSUME NEW g \in GcsFetcher, UNCHANGED <<rev, diskVars>>,
             gcs!DownloadMkdir(g) \/ gcs!DownloadSentinel(g)
      PROVE  DiskOK'
  <2>1. gcsDl[g].pc # "none" => gcsDl[g].model \in Model
    BY DEF GcsDownloadsOK
  <2>2. \A m \in Model : Org[m] \in Model
    BY PluginAssumption
  <2> QED BY <1>0, <1>5, <2>1, <2>2
          DEF gcs!DownloadMkdir, gcs!DownloadSentinel, gcs!In
<1> QED BY DiskFrame, <1>1, <1>2, <1>3, <1>4, <1>5

(* What the kubelet and the scheduler know of the claims.                  *)
LEMMA ClaimFrame ==
    ASSUME Next
    PROVE  \/ UNCHANGED <<st, alloc, cdi, fresh>>
           \/ UNCHANGED <<st, alloc, cdi>> /\ fresh' = {} /\ Crash
           \/ UNCHANGED <<st, alloc, fresh>> /\ CreateClaimSpecFile
           \/ UNCHANGED <<alloc, cdi>> /\ Prepared
           \/ \E c \in Claim : UNCHANGED <<alloc, cdi, fresh>> /\ StartContainer(c)
           \/ \E c \in Claim : UNCHANGED <<alloc, cdi, fresh>> /\ StopPod(c)
           \/ \E c \in Claim : UNCHANGED alloc /\ Unprepare(c)
           \/ \E c \in Claim, s \in ClaimSpec : UNCHANGED <<cdi, fresh>>
                                                /\ Allocate(c, s)
<1>1. CASE Start \/ RunOnUpdate \/ Crash
  BY <1>1 DEF Start, NewDriver, Scan, RunOnUpdate, Crash
<1>2. CASE Failure
  BY <1>2 DEF Failure
<1>3. CASE CallStep
  BY <1>3 DEF CallStep, NextDevice, CreateClaimSpecFile, Prepared
<1>4. ASSUME \/ \E g \in Fetcher : DownloadStep(g)
             \/ \E g \in GcsFetcher : GcsDownloadStep(g)
             \/ \E m \in Model : Push(m)
      PROVE  UNCHANGED <<st, alloc, cdi, fresh>>
  BY <1>4 DEF DownloadStep, GcsDownloadStep, Evict, Push
<1>5. ASSUME NEW c \in Claim,
             \/ Prepare(c) \/ StartContainer(c) \/ StopPod(c) \/ Unprepare(c)
             \/ \E s \in ClaimSpec : Allocate(c, s)
      PROVE  \/ UNCHANGED <<st, alloc, cdi, fresh>>
             \/ UNCHANGED <<alloc, cdi, fresh>> /\ (StartContainer(c) \/ StopPod(c))
             \/ UNCHANGED alloc /\ Unprepare(c)
             \/ \E s \in ClaimSpec : UNCHANGED <<cdi, fresh>> /\ Allocate(c, s)
  BY <1>5 DEF Prepare, StartContainer, StopPod, Unprepare, Allocate
<1> QED BY <1>1, <1>2, <1>3, <1>4, <1>5 DEF Next

(* A finished call makes an edit of a CDI file.                            *)
LEMMA EditedType == ASSUME ControlInv, Served PROVE Edited \subseteq Edits
<1>1. prep.edits \subseteq Edits
  BY DEF ControlInv, PrepOK
<1>2. CASE At("done")
  <2>1. [provider |-> "huggingface", model |-> call.model, sha |-> call.sha,
         hook |-> call.hook] \in Edits
    BY <1>2 DEF At, ControlInv, CallsOK, Edits, Provider
  <2> QED BY <1>1, <1>2, <2>1 DEF Edited
<1>3. CASE ~At("done") /\ gcs!At("done")
  <2>1. [provider |-> "gcs", model |-> gcsCall.model, sha |-> None,
         hook |-> gcsCall.hook] \in Edits
    BY <1>3 DEF gcs!At, ControlInv, CallsOK, Edits, Provider
  <2> QED BY <1>1, <1>3, <2>1 DEF Edited
<1> QED BY <1>2, <1>3 DEF Served

(* A device list that the scheduler chose.                                 *)
LEMMA AllocatedDevices ==
    ASSUME NEW s \in ClaimSpec, NEW devices \in [DOMAIN s.requests -> Device],
           \A i \in DOMAIN devices : devices[i] \in Candidates(s.requests[i])
    PROVE  /\ devices \in Seq(Device) /\ devices # <<>>
           /\ \A i \in DOMAIN devices :
                 devices[i].stub \/ devices[i].model = s.requests[i].model
<1>1. /\ s.requests \in Seq([provider : Provider, model : Model])
      /\ s.requests # <<>>
  BY ClaimAssumption
<1>2. DOMAIN s.requests = 1..Len(s.requests) /\ Len(s.requests) \in Nat
  BY <1>1
<1>3. Len(s.requests) # 0
  BY <1>1, EmptySeq
<1>4. devices \in Seq(Device) /\ devices # <<>>
  BY <1>2, <1>3
<1>5. \A i \in DOMAIN devices :
         devices[i].stub \/ devices[i].model = s.requests[i].model
  <2> TAKE i \in DOMAIN devices
  <2>1. PICK p \in Enabled :
           \/ devices[i] = [provider |-> p, stub |-> FALSE,
                            model |-> s.requests[i].model]
           \/ devices[i] = [provider |-> p, stub |-> TRUE, model |-> None]
    BY DEF Candidates
  <2>2. CASE devices[i] = [provider |-> p, stub |-> FALSE,
                           model |-> s.requests[i].model]
    BY <2>2
  <2>3. CASE devices[i] = [provider |-> p, stub |-> TRUE, model |-> None]
    BY <2>3
  <2> QED BY <2>1, <2>2, <2>3
<1> QED BY <1>4, <1>5

(* Claims are admitted and allocated before anything else happens to them. *)
LEMMA ClaimsKept == ASSUME ControlInv, Next PROVE ClaimsOK'
<1>0. ClaimsOK /\ PrepOK
  BY DEF ControlInv
<1>00. ASSUME UNCHANGED alloc,
              st' \in [Claim -> {"none", "allocated", "prepared", "running",
                                "stopped", "done"}],
              cdi' \in [Claim -> SUBSET Edits], fresh' \subseteq Claim,
              \A c \in Claim : st'[c] = "none" => cdi'[c] = {} /\ c \notin fresh',
              \A c \in Claim : st'[c] # "none" => st[c] # "none"
       PROVE  ClaimsOK'
  <2>1. \A c \in Claim : DevicesAsked(c, alloc[c].devices)
                           => DevicesAsked(c, alloc[c].devices)'
    BY <1>00 DEF DevicesAsked
  <2> QED BY <1>0, <1>00, <2>1 DEF ClaimsOK
<1>1. CASE UNCHANGED <<st, alloc, cdi, fresh>>
  BY <1>0, <1>00, <1>1 DEF ClaimsOK
<1>2. CASE UNCHANGED <<st, alloc, cdi>> /\ fresh' = {}
  BY <1>0, <1>00, <1>2 DEF ClaimsOK
<1>3. CASE UNCHANGED <<st, alloc, fresh>> /\ CreateClaimSpecFile
  <2>1. \/ UNCHANGED cdi
        \/ cdi' = [cdi EXCEPT ![prep.claim] = Edited] /\ Edited \subseteq Edits
    BY <1>3, EditedType DEF CreateClaimSpecFile
  <2>2. prep # NoPrep
    BY <1>3 DEF CreateClaimSpecFile, NoPrep
  <2>3. st[prep.claim] = "allocated"
    BY <1>0, <2>2 DEF PrepOK
  <2> QED BY <1>0, <1>00, <1>3, <2>1, <2>3 DEF ClaimsOK
<1>4. CASE UNCHANGED <<alloc, cdi>> /\ Prepared
  <2>1. prep.claim \in Claim /\ st[prep.claim] = "allocated"
    BY <1>0, <1>4 DEF Prepared, PrepOK
  <2>2. /\ st' = [st EXCEPT ![prep.claim] = "prepared"]
        /\ fresh' = fresh \union {prep.claim}
    BY <1>4 DEF Prepared
  <2> QED BY <1>0, <1>00, <1>4, <2>1, <2>2 DEF ClaimsOK
<1>5. ASSUME NEW c \in Claim, UNCHANGED <<alloc, cdi, fresh>>,
             StartContainer(c) \/ StopPod(c)
      PROVE  ClaimsOK'
  <2>1. PICK s \in {"running", "stopped"} :
           st' = [st EXCEPT ![c] = s] /\ st[c] # "none"
    BY <1>5 DEF StartContainer, StopPod
  <2> QED BY <1>0, <1>00, <1>5, <2>1 DEF ClaimsOK
<1>6. ASSUME NEW c \in Claim, UNCHANGED alloc, Unprepare(c) PROVE ClaimsOK'
  <2>1. /\ st[c] = "stopped" /\ st' = [st EXCEPT ![c] = "done"]
        /\ cdi' = [cdi EXCEPT ![c] = {}] /\ fresh' = fresh \ {c}
    BY <1>6 DEF Unprepare, DeleteClaimSpecFile
  <2> QED BY <1>0, <1>00, <1>6, <2>1 DEF ClaimsOK
<1>7. ASSUME NEW c \in Claim, NEW s \in ClaimSpec, UNCHANGED <<cdi, fresh>>,
             Allocate(c, s)
      PROVE  ClaimsOK'
  <2>1. PICK devices \in [DOMAIN s.requests -> Device] :
           /\ \A i \in DOMAIN devices : devices[i] \in Candidates(s.requests[i])
           /\ alloc' = [alloc EXCEPT ![c] = [spec |-> s, devices |-> devices]]
    BY <1>7 DEF Allocate
  <2>2. /\ devices \in Seq(Device) /\ devices # <<>>
        /\ \A i \in DOMAIN devices :
              devices[i].stub \/ devices[i].model = s.requests[i].model
    BY <2>1, AllocatedDevices
  <2>3. /\ alloc' \in [Claim -> [spec : ClaimSpec \union {None},
                               devices : Seq(Device)]]
        /\ alloc'[c] = [spec |-> s, devices |-> devices]
        /\ \A d \in Claim : d # c => alloc'[d] = alloc[d]
    BY <1>0, <2>1, <2>2 DEF ClaimsOK
  <2>4. st' = [st EXCEPT ![c] = "allocated"] /\ webhook!Admitted(Review(s))
    BY <1>7 DEF Allocate
  <2>5. DevicesAsked(c, devices)'
    BY <2>1, <2>2, <2>3 DEF DevicesAsked
  <2>6. ASSUME NEW d \in Claim, d # c, DevicesAsked(d, alloc[d].devices)
        PROVE  DevicesAsked(d, alloc[d].devices)'
    <3>1. alloc'[d] = alloc[d]
      BY <2>3, <2>6
    <3> QED BY <2>6, <3>1 DEF DevicesAsked
  <2> QED BY <1>0, <1>7, <2>2, <2>3, <2>4, <2>5, <2>6 DEF ClaimsOK
<1> QED BY ClaimFrame, <1>1, <1>2, <1>3, <1>4, <1>5, <1>6, <1>7

(* Who moves the Prepare in progress and its call.                         *)
LEMMA CallFrame ==
    ASSUME Next
    PROVE  \/ UNCHANGED <<call, gcsCall, prep>>
           \/ Crash
           \/ CallStep
           \/ \E c \in Claim : Prepare(c)
           \/ CreateClaimSpecFileFails
           \/ SnapshotInfoFails /\ prep' = NoPrep /\ UNCHANGED gcsCall
           \/ \E g \in Fetcher : DownloadExit(g) /\ UNCHANGED <<gcsCall, prep>>
           \/ \E g \in GcsFetcher : gcs!DownloadExit(g) /\ UNCHANGED <<call, prep>>
<1>1. CASE Start \/ RunOnUpdate
  BY <1>1 DEF Start, NewDriver, Scan, RunOnUpdate
<1>2. CASE Failure
  BY <1>2 DEF Failure, DownloadFails, DownloadAddFails, gcs!DownloadFails,
          gcs!DownloadAddFails
<1>3. ASSUME NEW g \in Fetcher, DownloadStep(g)
      PROVE  \/ UNCHANGED <<call, gcsCall, prep>>
             \/ DownloadExit(g) /\ UNCHANGED <<gcsCall, prep>>
  BY <1>3 DEF DownloadStep, Evict, DownloadInfo, DownloadEnsureSpace,
     DownloadSpaceEnsured, DownloadSpaceRefused, DownloadMkdir, DownloadFile,
     DownloadAdd, DownloadSentinel
<1>4. ASSUME NEW g \in GcsFetcher, GcsDownloadStep(g)
      PROVE  \/ UNCHANGED <<call, gcsCall, prep>>
             \/ gcs!DownloadExit(g) /\ UNCHANGED <<call, prep>>
  BY <1>4 DEF GcsDownloadStep, Evict, gcs!DownloadEnsureSpace,
     gcs!DownloadSpaceEnsured, gcs!DownloadSpaceRefused, gcs!DownloadMkdir,
     gcs!DownloadAdd, gcs!DownloadSentinel
<1>5. ASSUME NEW c \in Claim,
             \/ StartContainer(c) \/ StopPod(c) \/ Unprepare(c)
             \/ \E s \in ClaimSpec : Allocate(c, s)
      PROVE  UNCHANGED <<call, gcsCall, prep>>
  BY <1>5 DEF StartContainer, StopPod, Unprepare, Allocate
<1>6. ASSUME NEW m \in Model, Push(m) PROVE UNCHANGED <<call, gcsCall, prep>>
  BY <1>6 DEF Push
<1> QED BY <1>1, <1>2, <1>3, <1>4, <1>5, <1>6 DEF Next

(* Only Prepare itself ends the allocation of the claim it is at.          *)
LEMMA PreparedClaimStays ==
    ASSUME ControlInv, Next, prep # NoPrep
    PROVE  /\ alloc'[prep.claim] = alloc[prep.claim]
           /\ Prepared \/ st'[prep.claim] = "allocated"
<1>0. /\ ClaimsOK /\ prep.claim \in Claim /\ st[prep.claim] = "allocated"
  BY DEF ControlInv, PrepOK
<1>1. ASSUME NEW c \in Claim, NEW s \in ClaimSpec, Allocate(c, s)
      PROVE  /\ c # prep.claim
             /\ alloc'[prep.claim] = alloc[prep.claim]
             /\ st'[prep.claim] = st[prep.claim]
  BY <1>0, <1>1 DEF Allocate, ClaimsOK
<1>2. ASSUME NEW c \in Claim, StartContainer(c) \/ StopPod(c)
      PROVE  UNCHANGED alloc /\ st'[prep.claim] = st[prep.claim]
  BY <1>0, <1>2 DEF StartContainer, StopPod, ClaimsOK
<1>3. ASSUME NEW c \in Claim PROVE ~ Unprepare(c)
  BY DEF Unprepare
<1> QED BY <1>0, <1>1, <1>2, <1>3, ClaimFrame DEF CreateClaimSpecFile

(* Taking the next device to its provider.                                 *)
LEMMA ServeKeeps ==
    ASSUME ControlInv, NEW c \in Claim, st[c] = "allocated", UNCHANGED <<st, alloc>>,
           NEW devices \in Seq(Device), devices # <<>>, DevicesAsked(c, devices),
           NEW edits \in SUBSET Edits, Serve(c, devices, edits)
    PROVE  CallsOK' /\ PrepOK'
<1> DEFINE d == Head(devices)
           loader == LoaderOf(alloc[c].spec.config)
           first == IF d.stub THEN "stub" ELSE "find"
           model == IF d.stub THEN loader.model ELSE d.model
<1>1. c # None /\ None \notin Model /\ None \notin Fetcher \union GcsFetcher
  BY ProviderAssumption, PluginAssumption
<1>2. CASE PrepareFails
  <2>1. prep' = NoPrep /\ call' = NoCall /\ gcsCall' = gcs!NoCall
    BY <1>2 DEF PrepareFails
  <2>2. CallsOK'
    BY <2>1 DEF CallsOK, NoCall, gcs!NoCall, CallPC, GcsCallPC
  <2>3. PrepOK'
    BY <2>1 DEF PrepOK, NoPrep
  <2> QED BY <2>2, <2>3
<1>3. CASE ~ PrepareFails
  <2>1. /\ d.stub => loader # NoLoader
        /\ prep' = [claim |-> c, left |-> devices, edits |-> edits]
        /\ \/ /\ call' = [NoCall EXCEPT !.pc = first, !.claim = c, !.model = model]
              /\ gcsCall' = gcs!NoCall
           \/ /\ call' = NoCall
              /\ gcsCall' = [gcs!NoCall EXCEPT !.pc = first, !.claim = c,
                                               !.model = model]
    BY <1>3 DEF Serve
  <2>2. alloc[c].spec \in ClaimSpec /\ webhook!Admitted(Review(alloc[c].spec))
    BY DEF ControlInv, ClaimsOK
  <2>3. model \in Model
    <3>1. CASE d.stub
      BY <2>1, <2>2, <3>1, LoaderNamesModel
    <3>2. CASE ~ d.stub
      <4>1. d = devices[1] /\ 1 \in DOMAIN devices
        OBVIOUS
      <4>2. PICK j \in DOMAIN alloc[c].spec.requests :
               d.model = alloc[c].spec.requests[j].model
        BY <3>2, <4>1 DEF DevicesAsked
      <4>3. alloc[c].spec.requests \in Seq([provider : Provider, model : Model])
        BY <2>2, ClaimAssumption
      <4>4. alloc[c].spec.requests[j] \in [provider : Provider, model : Model]
        <5>1. j \in 1..Len(alloc[c].spec.requests)
          BY <4>3
        <5> QED BY <4>3, <5>1, ElementOfSeq
      <4> QED BY <3>2, <4>2, <4>4
    <3> QED BY <3>1, <3>2
  <2>4. first \in {"stub", "find"}
    OBVIOUS
  <2> HIDE DEF d, loader, first, model
  <2>5. CASE /\ call' = [NoCall EXCEPT !.pc = first, !.claim = c, !.model = model]
             /\ gcsCall' = gcs!NoCall
    <3>1. call' \in [pc : CallPC, claim : Claim \union {None},
                    model : Model \union {None}, ch : Fetcher \union {None},
                    hook : BOOLEAN, sha : Rev \union {None}]
      BY <2>3, <2>4, <2>5 DEF NoCall, CallPC
    <3>2. call'.pc = first /\ call'.claim = c /\ call'.model = model
      BY <2>5 DEF NoCall
    <3>3. CallsOK'
      BY <1>1, <2>1, <2>3, <2>4, <2>5, <3>1, <3>2
         DEF CallsOK, GcsCallPC, gcs!NoCall
    <3>4. call' # NoCall
      BY <2>4, <3>2 DEF NoCall
    <3>5. DevicesAsked(c, devices)'
      BY DEF DevicesAsked
    <3> QED BY <1>1, <2>1, <2>5, <3>3, <3>4, <3>5 DEF PrepOK, NoPrep
  <2>6. CASE /\ call' = NoCall
             /\ gcsCall' = [gcs!NoCall EXCEPT !.pc = first, !.claim = c,
                                              !.model = model]
    <3>1. gcsCall' \in [pc : GcsCallPC, claim : Claim \union {None},
                       model : Model \union {None}, ch : GcsFetcher \union {None},
                       hook : BOOLEAN]
      BY <2>3, <2>4, <2>6 DEF gcs!NoCall, GcsCallPC
    <3>2. gcsCall'.pc = first /\ gcsCall'.claim = c /\ gcsCall'.model = model
      BY <2>6 DEF gcs!NoCall
    <3>3. CallsOK'
      BY <1>1, <2>1, <2>3, <2>4, <2>6, <3>1, <3>2 DEF CallsOK, CallPC, NoCall
    <3>4. gcsCall' # gcs!NoCall
      BY <2>4, <3>2 DEF gcs!NoCall
    <3>5. DevicesAsked(c, devices)'
      BY DEF DevicesAsked
    <3> QED BY <1>1, <2>1, <2>6, <3>3, <3>4, <3>5 DEF PrepOK, NoPrep
  <2> QED BY <2>1, <2>5, <2>6
<1> QED BY <1>2, <1>3

(* A step of PrepareClaims in one of the providers.                        *)
HfCallStep == \/ StubUse \/ DownloadModel \/ Select \/ UseAgain \/ FindDevice
              \/ CachedUse \/ SnapshotInfo
GcsCallStep == \/ gcs!StubUse \/ gcs!DownloadModel \/ gcs!Select \/ gcs!UseAgain
               \/ gcs!FindDevice \/ gcs!CachedUse \/ gcs!StatDirectory

(* It goes on for the same claim with some model, or returns.              *)
LEMMA HfCallStepKeeps ==
    ASSUME ControlInv, HfCallStep
    PROVE  /\ call.pc # "none"
           /\ \/ call' = NoCall
              \/ /\ call' \in [pc : CallPC \ {"none"}, claim : Claim \union {None},
                               model : Model, ch : Fetcher \union {None},
                               hook : BOOLEAN, sha : Rev \union {None}]
                 /\ call'.claim = call.claim
<1> DEFINE Going == [pc : CallPC \ {"none"}, claim : Claim \union {None},
                     model : Model, ch : Fetcher \union {None},
                     hook : BOOLEAN, sha : Rev \union {None}]
<1>0. call.pc # "none"
  BY DEF HfCallStep, StubUse, DownloadModel, Select, UseAgain, FindDevice,
     CachedUse, SnapshotInfo, At
<1>1. call \in Going
  BY <1>0 DEF ControlInv, CallsOK
<1>2. ASSUME NEW pc \in CallPC \ {"none"}, Goto(pc)
      PROVE  call' \in Going /\ call'.claim = call.claim
  BY <1>1, <1>2 DEF Goto
<1>3. CASE StubUse \/ UseAgain \/ CachedUse
  BY <1>0, <1>2, <1>3 DEF StubUse, UseAgain, CachedUse, CallPC, Return
<1>4. CASE DownloadModel
  <2>1. CASE Goto("again")
    BY <1>0, <1>2, <2>1 DEF CallPC
  <2>2. CASE call' = [call EXCEPT !.pc = "select", !.ch = ongoing[call.model]]
    <3>1. ongoing[call.model] \in Fetcher \union {None}
      BY <1>1 DEF ControlInv, DownloadsOK
    <3> QED BY <1>1, <2>2, <3>1 DEF CallPC
  <2>3. CASE call' = [call EXCEPT !.pc = "info", !.hook = TRUE]
    BY <1>1, <2>3 DEF CallPC
  <2> QED BY <1>0, <1>4, <2>1, <2>2, <2>3 DEF DownloadModel
<1>5. CASE Select
  <2>1. CASE call' = [call EXCEPT !.pc = "again"]
    BY <1>1, <2>1 DEF CallPC
  <2>2. CASE call' = [call EXCEPT !.pc = "info", !.ch = None, !.hook = TRUE]
    BY <1>1, <2>2 DEF CallPC
  <2> QED BY <1>0, <1>5, <2>1, <2>2 DEF Select
<1>6. CASE FindDevice
  <2>1. ASSUME NEW m \in Advertised,
               call' = [call EXCEPT !.pc = "cached", !.model = m]
        PROVE  call' \in Going /\ call'.claim = call.claim
    <3>1. m \in Model
      BY DEF ControlInv, CacheInv, CacheTypeOK, Advertised
    <3> QED BY <1>1, <2>1, <3>1 DEF CallPC
  <2> QED BY <1>0, <1>6, <2>1 DEF FindDevice, Return
<1>7. CASE SnapshotInfo
  <2>1. call' = [call EXCEPT !.pc = "done", !.sha = rev[call.model]]
    BY <1>7 DEF SnapshotInfo
  <2>2. rev[call.model] \in Rev
    BY <1>1 DEF ControlInv, DiskOK
  <2> QED BY <1>0, <1>1, <2>1, <2>2 DEF CallPC
<1> QED BY <1>0, <1>3, <1>4, <1>5, <1>6, <1>7 DEF HfCallStep

(* The same of the GCS provider.                                           *)
LEMMA GcsCallStepKeeps ==
    ASSUME ControlInv, GcsCallStep
    PROVE  /\ gcsCall.pc # "none"
           /\ \/ gcsCall' = gcs!NoCall
              \/ /\ gcsCall' \in [pc : GcsCallPC \ {"none"},
                                  claim : Claim \union {None}, model : Model,
                                  ch : GcsFetcher \union {None}, hook : BOOLEAN]
                 /\ gcsCall'.claim = gcsCall.claim
<1> DEFINE Going == [pc : GcsCallPC \ {"none"}, claim : Claim \union {None},
                     model : Model, ch : GcsFetcher \union {None},
                     hook : BOOLEAN]
<1>0. gcsCall.pc # "none"
  BY DEF GcsCallStep, gcs!StubUse, gcs!DownloadModel, gcs!Select, gcs!UseAgain,
     gcs!FindDevice, gcs!CachedUse, gcs!StatDirectory, gcs!At
<1>1. gcsCall \in Going
  BY <1>0 DEF ControlInv, CallsOK
<1>2. ASSUME NEW pc \in GcsCallPC \ {"none"}, gcs!Goto(pc)
      PROVE  gcsCall' \in Going /\ gcsCall'.claim = gcsCall.claim
  BY <1>1, <1>2 DEF gcs!Goto
<1>3. CASE gcs!StubUse \/ gcs!UseAgain \/ gcs!CachedUse \/ gcs!StatDirectory
  BY <1>0, <1>2, <1>3 DEF gcs!StubUse, gcs!UseAgain, gcs!CachedUse,
     gcs!StatDirectory, GcsCallPC, gcs!Return
<1>4. CASE gcs!DownloadModel
  <2>1. CASE gcs!Goto("again")
    BY <1>0, <1>2, <2>1 DEF GcsCallPC
  <2>2. CASE gcsCall' = [gcsCall EXCEPT !.pc = "select",
                                        !.ch = gcsOngoing[gcsCall.model]]
    <3>1. gcsOngoing[gcsCall.model] \in GcsFetcher \union {None}
      BY <1>1 DEF ControlInv, GcsDownloadsOK
    <3> QED BY <1>0, <1>1, <2>2, <3>1 DEF GcsCallPC
  <2>3. CASE gcsCall' = [gcsCall EXCEPT !.pc = "done", !.hook = TRUE]
    BY <1>0, <1>1, <2>3 DEF GcsCallPC
  <2> QED BY <1>4, <2>1, <2>2, <2>3 DEF gcs!DownloadModel
<1>5. CASE gcs!Select
  <2>1. CASE gcsCall' = [gcsCall EXCEPT !.pc = "again"]
    BY <1>0, <1>1, <2>1 DEF GcsCallPC
  <2>2. CASE gcsCall' = [gcsCall EXCEPT !.pc = "done", !.ch = None, !.hook = TRUE]
    BY <1>0, <1>1, <2>2 DEF GcsCallPC
  <2> QED BY <1>5, <2>1, <2>2 DEF gcs!Select
<1>6. CASE gcs!FindDevice
  <2>1. ASSUME NEW m \in gcs!Advertised,
               gcsCall' = [gcsCall EXCEPT !.pc = "cached", !.model = m]
        PROVE  gcsCall' \in Going /\ gcsCall'.claim = gcsCall.claim
    <3>1. m \in Model
      BY DEF ControlInv, CacheInv, CacheTypeOK, gcs!Advertised
    <3> QED BY <1>1, <2>1, <3>1 DEF GcsCallPC
  <2> QED BY <1>0, <1>6, <2>1 DEF gcs!FindDevice, gcs!Return
<1> QED BY <1>3, <1>4, <1>5, <1>6 DEF GcsCallStep

(* The Prepare in progress and the call it is at.                          *)
LEMMA CallsKept == ASSUME ControlInv, Next PROVE CallsOK' /\ PrepOK'
<1>0. CallsOK /\ PrepOK /\ ClaimsOK
  BY DEF ControlInv
<1>1. ASSUME prep' = NoPrep, call' = NoCall, gcsCall' = gcs!NoCall
      PROVE  CallsOK' /\ PrepOK'
  <2>1. CallsOK'
    BY <1>1 DEF CallsOK, NoCall, gcs!NoCall, CallPC, GcsCallPC
  <2>2. PrepOK'
    BY <1>1 DEF PrepOK, NoPrep
  <2> QED BY <2>1, <2>2
<1>2. ASSUME UNCHANGED prep, prep # NoPrep
      PROVE  /\ st'[prep'.claim] = "allocated"
             /\ DevicesAsked(prep.claim, prep.left)'
  <2>1. ~ Prepared
    BY <1>2 DEF Prepared
  <2>2. alloc'[prep.claim] = alloc[prep.claim] /\ st'[prep.claim] = "allocated"
    BY <1>2, <2>1, PreparedClaimStays
  <2>3. DevicesAsked(prep.claim, prep.left)
    BY <1>0, <1>2 DEF PrepOK
  <2> QED BY <1>2, <2>2, <2>3 DEF DevicesAsked
<1>3. CASE UNCHANGED <<call, gcsCall, prep>>
  BY <1>0, <1>2, <1>3 DEF CallsOK, PrepOK
<1>4. ASSUME call # NoCall, UNCHANGED <<gcsCall, prep>>,
             call' \in [pc : CallPC \ {"none"}, claim : Claim \union {None},
                       model : Model, ch : Fetcher \union {None},
                       hook : BOOLEAN, sha : Rev \union {None}],
             call'.claim = call.claim
      PROVE  CallsOK' /\ PrepOK'
  <2>1. /\ call.pc # "none" /\ gcsCall = gcs!NoCall /\ prep.left # <<>>
        /\ call.claim = prep.claim /\ call.claim \in Claim /\ prep # NoPrep
    BY <1>0, <1>4 DEF CallsOK, PrepOK, NoPrep
  <2>2. CallsOK'
    BY <1>0, <1>4, <2>1 DEF CallsOK
  <2>3. call' # NoCall
    BY <1>4 DEF NoCall
  <2>4. PrepOK'
    BY <1>0, <1>2, <1>4, <2>1, <2>3 DEF PrepOK
  <2> QED BY <2>2, <2>4
<1>5. ASSUME gcsCall # gcs!NoCall, UNCHANGED <<call, prep>>,
             gcsCall' \in [pc : GcsCallPC \ {"none"}, claim : Claim \union {None},
                          model : Model, ch : GcsFetcher \union {None},
                          hook : BOOLEAN],
             gcsCall'.claim = gcsCall.claim
      PROVE  CallsOK' /\ PrepOK'
  <2>1. /\ gcsCall.pc # "none" /\ call = NoCall /\ prep.left # <<>>
        /\ gcsCall.claim = prep.claim /\ gcsCall.claim \in Claim /\ prep # NoPrep
    BY <1>0, <1>5 DEF CallsOK, PrepOK, NoPrep
  <2>2. CallsOK'
    BY <1>0, <1>5, <2>1 DEF CallsOK
  <2>3. gcsCall' # gcs!NoCall
    BY <1>5 DEF gcs!NoCall
  <2>4. PrepOK'
    BY <1>0, <1>2, <1>5, <2>1, <2>3 DEF PrepOK
  <2> QED BY <2>2, <2>4
<1>6. CASE Crash
  BY <1>1, <1>6 DEF Crash, RestartProvider, gcs!RestartGCSProvider
<1>7. CASE CreateClaimSpecFileFails
  BY <1>1, <1>7 DEF CreateClaimSpecFileFails, PrepareFails
<1>8. CASE SnapshotInfoFails /\ prep' = NoPrep /\ UNCHANGED gcsCall
  <2>1. call # NoCall
    BY <1>8 DEF SnapshotInfoFails, At, NoCall
  <2> QED BY <1>0, <1>1, <1>8, <2>1 DEF PrepOK, SnapshotInfoFails, Return
<1>9. ASSUME NEW g \in Fetcher, DownloadExit(g), UNCHANGED <<gcsCall, prep>>
      PROVE  CallsOK' /\ PrepOK'
  <2>1. CASE UNCHANGED call
    BY <1>3, <1>9, <2>1
  <2>2. CASE At("select") /\ call' = [call EXCEPT !.ch = None]
    <3>1. call.pc = "select" /\ call # NoCall
      BY <2>2 DEF At, NoCall
    <3>2. call.model \in Model
      BY <1>0, <3>1 DEF CallsOK
    <3>3. /\ call' \in [pc : CallPC \ {"none"}, claim : Claim \union {None},
                        model : Model, ch : Fetcher \union {None},
                        hook : BOOLEAN, sha : Rev \union {None}]
          /\ call'.claim = call.claim
      BY <1>0, <2>2, <3>1, <3>2 DEF CallsOK
    <3> QED BY <1>4, <1>9, <3>1, <3>3
  <2> QED BY <1>9, <2>1, <2>2 DEF DownloadExit
<1>10. ASSUME NEW g \in GcsFetcher, gcs!DownloadExit(g), UNCHANGED <<call, prep>>
       PROVE  CallsOK' /\ PrepOK'
  <2>1. CASE UNCHANGED gcsCall
    BY <1>3, <1>10, <2>1
  <2>2. CASE gcs!At("select") /\ gcsCall' = [gcsCall EXCEPT !.ch = None]
    <3>1. gcsCall.pc = "select" /\ gcsCall # gcs!NoCall
      BY <2>2 DEF gcs!At, gcs!NoCall
    <3>2. gcsCall.model \in Model
      BY <1>0, <3>1 DEF CallsOK
    <3>3. /\ gcsCall' \in [pc : GcsCallPC \ {"none"}, claim : Claim \union {None},
                           model : Model, ch : GcsFetcher \union {None},
                           hook : BOOLEAN]
          /\ gcsCall'.claim = gcsCall.claim
      BY <1>0, <2>2, <3>1, <3>2 DEF CallsOK
    <3> QED BY <1>5, <1>10, <3>1, <3>3
  <2> QED BY <1>10, <2>1, <2>2 DEF gcs!DownloadExit
<1>11. ASSUME NEW c \in Claim, Prepare(c) PROVE CallsOK' /\ PrepOK'
  <2>1. /\ st[c] = "allocated" /\ Serve(c, alloc[c].devices, {})
        /\ UNCHANGED <<st, alloc>>
    BY <1>11 DEF Prepare
  <2>2. /\ alloc[c].devices \in Seq(Device) /\ alloc[c].devices # <<>>
        /\ DevicesAsked(c, alloc[c].devices)
    BY <1>0, <2>1 DEF ClaimsOK
  <2> QED BY <2>1, <2>2, ServeKeeps
<1>12. CASE NextDevice
  <2>1. /\ Served /\ Len(prep.left) > 1 /\ UNCHANGED <<st, alloc>>
        /\ Serve(prep.claim, Tail(prep.left), Edited)
    BY <1>12 DEF NextDevice
  <2>2. prep # NoPrep /\ prep.left \in Seq(Device) /\ prep.left # <<>>
    BY <1>0, <2>1 DEF PrepOK, NoPrep
  <2>3. /\ prep.claim \in Claim /\ st[prep.claim] = "allocated"
        /\ DevicesAsked(prep.claim, prep.left)
    BY <1>0, <2>2 DEF PrepOK
  <2>4. /\ Tail(prep.left) \in Seq(Device)
        /\ Len(Tail(prep.left)) = Len(prep.left) - 1
        /\ \A i \in 1..Len(Tail(prep.left)) : Tail(prep.left)[i] = prep.left[i + 1]
    BY <2>2, HeadTailProperties
  <2>5. DevicesAsked(prep.claim, Tail(prep.left))
    BY <2>1, <2>2, <2>3, <2>4 DEF DevicesAsked
  <2>6. Tail(prep.left) # <<>>
    <3> DEFINE n == Len(prep.left)
               rest == Tail(prep.left)
    <3>1. n \in Nat /\ n > 1 /\ Len(rest) = n - 1
      BY <2>1, <2>2, <2>4, LenProperties
    <3> HIDE DEF n, rest
    <3>2. Len(rest) # 0
      BY <3>1
    <3> QED BY <3>2, EmptySeq DEF rest
  <2> QED BY <2>1, <2>3, <2>4, <2>5, <2>6, EditedType, ServeKeeps
<1>13. CASE CreateClaimSpecFile
  <2>1. CASE PrepareFails
    BY <1>1, <2>1 DEF PrepareFails
  <2>2. CASE /\ prep' = [prep EXCEPT !.left = <<>>, !.edits = {}]
             /\ call' = NoCall /\ gcsCall' = gcs!NoCall
    <3>1. prep # NoPrep
      BY <1>13 DEF CreateClaimSpecFile, NoPrep
    <3>2. /\ prep.claim \in Claim /\ st[prep.claim] = "allocated"
          /\ UNCHANGED <<st, alloc>>
      BY <1>0, <1>13, <3>1 DEF PrepOK, CreateClaimSpecFile
    <3>3. prep'.claim = prep.claim /\ prep'.left = <<>> /\ prep'.edits = {}
      BY <1>0, <2>2 DEF PrepOK
    <3>4. prep' \in [claim : Claim \union {None}, left : Seq(Device),
                    edits : SUBSET Edits]
      <4> DEFINE served == [prep EXCEPT !.left = <<>>]
      <4>1. <<>> \in Seq(Device)
        OBVIOUS
      <4>2. served \in [claim : Claim \union {None}, left : Seq(Device),
                       edits : SUBSET Edits]
        BY <1>0, <4>1 DEF PrepOK
      <4>3. prep' = [served EXCEPT !.edits = {}]
        BY <2>2
      <4> HIDE DEF served
      <4> QED BY <4>2, <4>3
    <3>5. CallsOK'
      BY <2>2 DEF CallsOK, NoCall, gcs!NoCall, CallPC, GcsCallPC
    <3>6. DevicesAsked(prep.claim, <<>>)'
      BY DEF DevicesAsked
    <3>7. None \notin Claim
      BY ProviderAssumption
    <3>8. PrepOK'
      BY <2>2, <3>2, <3>3, <3>4, <3>6, <3>7 DEF PrepOK
    <3> QED BY <3>5, <3>8
  <2> QED BY <1>13, <2>1, <2>2 DEF CreateClaimSpecFile
<1>14. CASE Prepared
  BY <1>0, <1>1, <1>14 DEF Prepared, PrepOK
<1>15. ASSUME HfCallStep, prep' = IF call' = NoCall THEN NoPrep ELSE prep,
              UNCHANGED gcsCall
       PROVE  CallsOK' /\ PrepOK'
  <2>1. call # NoCall
    BY <1>15, HfCallStepKeeps DEF NoCall
  <2>2. gcsCall = gcs!NoCall
    BY <1>0, <2>1 DEF PrepOK
  <2>3. CASE call' = NoCall
    BY <1>1, <1>15, <2>2, <2>3
  <2>4. CASE call' # NoCall
    BY <1>4, <1>15, <2>1, <2>4, HfCallStepKeeps
  <2> QED BY <2>3, <2>4
<1>16. ASSUME GcsCallStep, prep' = IF gcsCall' = gcs!NoCall THEN NoPrep ELSE prep,
              UNCHANGED call
       PROVE  CallsOK' /\ PrepOK'
  <2>1. gcsCall # gcs!NoCall
    BY <1>16, GcsCallStepKeeps DEF gcs!NoCall
  <2>2. call = NoCall
    BY <1>0, <2>1 DEF PrepOK
  <2>3. CASE gcsCall' = gcs!NoCall
    BY <1>1, <1>16, <2>2, <2>3
  <2>4. CASE gcsCall' # gcs!NoCall
    BY <1>5, <1>16, <2>1, <2>4, GcsCallStepKeeps
  <2> QED BY <2>3, <2>4
<1>17. CASE CallStep
  BY <1>12, <1>13, <1>14, <1>15, <1>16, <1>17 DEF CallStep, HfCallStep, GcsCallStep
<1> QED BY CallFrame, <1>3, <1>6, <1>7, <1>8, <1>9, <1>10, <1>11, <1>17

(* The slice, the counters of faults and the histories.                    *)
LEMMA PlainKept == ASSUME ControlInv, Next PROVE PlainOK'
<1>0. /\ PlainOK /\ gcsBuckets \subseteq Model
      /\ MaxFailures \in Nat /\ MaxCrashes \in Nat
  BY FaultAssumption DEF ControlInv, DiskOK
<1>1. \/ UNCHANGED slice \/ slice' = Published(Devices)
  <2>1. CASE Start \/ RunOnUpdate \/ Crash \/ Failure \/ CallStep
    BY <2>1 DEF Start, NewDriver, Scan, RunOnUpdate, Crash, Failure, CallStep,
       NextDevice, CreateClaimSpecFile, Prepared
  <2>2. CASE \/ \E g \in Fetcher : DownloadStep(g)
             \/ \E g \in GcsFetcher : GcsDownloadStep(g)
             \/ \E m \in Model : Push(m)
    BY <2>2 DEF DownloadStep, GcsDownloadStep, Evict, Push
  <2>3. ASSUME NEW c \in Claim,
               \/ Prepare(c) \/ StartContainer(c) \/ StopPod(c) \/ Unprepare(c)
               \/ \E s \in ClaimSpec : Allocate(c, s)
        PROVE  UNCHANGED slice
    BY <2>3 DEF Prepare, StartContainer, StopPod, Unprepare, Allocate
  <2> QED BY <2>1, <2>2, <2>3 DEF Next
<1>2. slice' \subseteq Enabled \X Model
  <2>1. Devices \subseteq Enabled \X Model
    BY DEF Devices
  <2>2. Published(Devices) \subseteq Enabled \X Model
    BY <1>0, <2>1 DEF Published, PlainOK
  <2> QED BY <1>0, <1>1, <2>2 DEF PlainOK
<1>3. /\ \/ UNCHANGED <<failures, crashes>>
         \/ /\ failures < MaxFailures /\ failures' = failures + 1
            /\ UNCHANGED crashes
         \/ /\ crashes < MaxCrashes /\ crashes' = crashes + 1
            /\ UNCHANGED failures
      /\ up' \in BOOLEAN
      /\ razed' \subseteq razed \union gcsBuckets
  <2>1. CASE Start \/ RunOnUpdate
    BY <1>0, <2>1 DEF Start, NewDriver, Scan, RunOnUpdate, PlainOK
  <2>2. CASE Crash \/ Failure
    BY <1>0, <2>2 DEF Crash, Failure, PlainOK
  <2>3. CASE CallStep
    BY <1>0, <2>3 DEF CallStep, NextDevice, CreateClaimSpecFile, Prepared, PlainOK
  <2>4. CASE \/ \E g \in Fetcher : DownloadStep(g)
             \/ \E g \in GcsFetcher : GcsDownloadStep(g)
             \/ \E m \in Model : Push(m)
    BY <1>0, <2>4 DEF DownloadStep, GcsDownloadStep, Evict, Push, PlainOK
  <2>5. ASSUME NEW c \in Claim,
               \/ Prepare(c) \/ StartContainer(c) \/ StopPod(c) \/ Unprepare(c)
               \/ \E s \in ClaimSpec : Allocate(c, s)
        PROVE  UNCHANGED <<failures, crashes, up, razed>>
    BY <2>5 DEF Prepare, StartContainer, StopPod, Unprepare, Allocate
  <2> QED BY <1>0, <2>1, <2>2, <2>3, <2>4, <2>5 DEF Next, PlainOK
<1>4. failures' \in 0..MaxFailures /\ crashes' \in 0..MaxCrashes
  BY <1>0, <1>3 DEF PlainOK
<1>5. razed' \subseteq Model
  BY <1>0, <1>3 DEF PlainOK
<1> QED BY <1>2, <1>3, <1>4, <1>5 DEF PlainOK

(* A process that is not up runs the scan, and nothing else does anything  *)
(* on its behalf.                                                          *)
LEMMA DownKept == ASSUME ControlInv, Next PROVE DownOK'
<1>1. CASE up \/ up'
  <2>1. up' \/ Crash
    <3>1. CASE Start \/ RunOnUpdate \/ Failure \/ CallStep
      BY <1>1, <3>1 DEF Start, NewDriver, Scan, RunOnUpdate, Failure, CallStep,
         NextDevice, CreateClaimSpecFile, Prepared
    <3>2. CASE \/ \E g \in Fetcher : DownloadStep(g)
               \/ \E g \in GcsFetcher : GcsDownloadStep(g)
               \/ \E m \in Model : Push(m)
      BY <1>1, <3>2 DEF DownloadStep, GcsDownloadStep, Evict, Push
    <3>3. ASSUME NEW c \in Claim,
                 \/ Prepare(c) \/ StartContainer(c) \/ StopPod(c) \/ Unprepare(c)
                 \/ \E s \in ClaimSpec : Allocate(c, s)
          PROVE  up'
      BY <1>1, <3>3 DEF Prepare, StartContainer, StopPod, Unprepare, Allocate
    <3> QED BY <3>1, <3>2, <3>3 DEF Next
  <2>2. CASE up'
    BY <2>2 DEF DownOK
  <2>3. CASE Crash
    BY <2>3 DEF Crash, RestartProvider, gcs!RestartGCSProvider,
       RestartCacheManager, DownOK
  <2> QED BY <2>1, <2>2, <2>3
<1>2. CASE ~up /\ ~up'
  <2>1. /\ dl = [g \in Fetcher |-> NoDownload]
        /\ gcsDl = [g \in GcsFetcher |-> gcs!NoDownload]
        /\ call = NoCall /\ gcsCall = gcs!NoCall
        /\ prep = NoPrep /\ holder = Free /\ fresh = {}
    BY <1>2 DEF ControlInv, DownOK
  <2>2. call.pc = "none" /\ gcsCall.pc = "none"
    BY <2>1 DEF NoCall, gcs!NoCall
  <2>3. ~ Served /\ ~ Prepared
    BY <2>1, <2>2 DEF Served, At, gcs!At, Prepared
  <2>4. ~ CallStep /\ ~ SnapshotInfoFails
    BY <2>2, <2>3, HfCallStepKeeps, GcsCallStepKeeps
       DEF CallStep, HfCallStep, GcsCallStep, NextDevice, CreateClaimSpecFile,
           SnapshotInfoFails, At
  <2>5. ASSUME NEW g \in Fetcher PROVE ~ GoroutineStep(g) /\ ~ DownloadStep(g)
    <3>1. dl[g].pc = "none" /\ holder # g
      BY <2>1, CacheAssumption, ProviderAssumption DEF NoDownload
    <3> QED BY <3>1 DEF GoroutineStep, DownloadStep, DownloadInfo,
          DownloadEnsureSpace, DownloadSpaceEnsured, DownloadSpaceRefused,
          DownloadMkdir, DownloadFile, DownloadAdd, DownloadAddFails,
          DownloadSentinel, DownloadFails, DownloadExit, Fetched, In,
          SpaceEnsured, SpaceRefused, Evict, EvictLRU
  <2>6. ASSUME NEW g \in GcsFetcher
        PROVE  ~ GcsGoroutineStep(g) /\ ~ GcsDownloadStep(g)
    <3>1. gcsDl[g].pc = "none" /\ holder # g
      BY <2>1, CacheAssumption, PluginAssumption DEF gcs!NoDownload
    <3> QED BY <3>1 DEF GcsGoroutineStep, GcsDownloadStep,
          gcs!DownloadEnsureSpace, gcs!DownloadSpaceEnsured,
          gcs!DownloadSpaceRefused, gcs!DownloadMkdir, gcs!DownloadAdd,
          gcs!DownloadAddFails, gcs!DownloadSentinel, gcs!DownloadFails,
          gcs!DownloadExit, gcs!In, gcs!SpaceEnsured, gcs!SpaceRefused,
          Evict, EvictLRU
  <2>7. ~ Failure
    BY <2>3, <2>4, <2>5, <2>6 DEF Failure, CreateClaimSpecFileFails,
       GoroutineStep, GcsGoroutineStep
  <2>8. CASE Start
    BY <1>2, <2>1, <2>8 DEF Start, NewDriver, Scan, ScanModel, DownOK
  <2>9. ASSUME NEW m \in Model, Push(m) PROVE DownOK'
    BY <2>1, <2>9 DEF Push, DownOK
  <2>10. ASSUME NEW c \in Claim,
                \/ Prepare(c) \/ StartContainer(c) \/ StopPod(c) \/ Unprepare(c)
                \/ \E s \in ClaimSpec : Allocate(c, s)
         PROVE  DownOK'
    BY <1>2, <2>1, <2>10 DEF Prepare, StartContainer, StopPod, Unprepare,
       Allocate, DownOK
  <2> QED BY <1>2, <2>4, <2>5, <2>6, <2>7, <2>8, <2>9, <2>10
          DEF Next, RunOnUpdate, Crash
<1> QED BY <1>1, <1>2

-----------------------------------------------------------------------------
(* The invariant holds in every reachable state: what a program counter    *)
(* says of its process is true at every interleaving of the goroutines,    *)
(* the calls, the evictions and the restarts.                              *)
THEOREM ControlCorrect == Spec => []ControlInv
<1>1. ControlInv /\ Next => ControlInv'
  BY CacheKept, DownloadsKept, GcsDownloadsKept, DiskKept, CallsKept,
     ClaimsKept, PlainKept, DownKept DEF ControlInv
<1>2. ControlInv /\ UNCHANGED vars => ControlInv'
  <2> SUFFICES ASSUME ControlInv, UNCHANGED vars PROVE ControlInv'
    OBVIOUS
  <2> USE DEF ControlInv
  <2>1. CacheInv'
    BY NothingKeepsCache
  <2>2. DownloadsOK' /\ DiskOK'
    BY DEF DownloadsOK, DiskOK
  <2>3. GcsDownloadsOK'
    BY DEF GcsDownloadsOK, gcs!OneDownload
  <2>4. CallsOK'
    BY DEF CallsOK
  <2>5. PrepOK'
    BY DEF PrepOK, DevicesAsked
  <2>6. ClaimsOK'
    BY DEF ClaimsOK, DevicesAsked
  <2>7. PlainOK' /\ DownOK'
    BY DEF PlainOK, DownOK
  <2> QED BY <2>1, <2>2, <2>3, <2>4, <2>5, <2>6, <2>7
<1>3. ControlInv /\ [Next]_vars => ControlInv'
  BY <1>1, <1>2
<1> QED BY <1>3, ControlInit, PTL DEF Spec

(* So its variables have their types.                                      *)
THEOREM TypeCorrect == Spec => []TypeOK
BY ControlCorrect, ControlTypes, PTL

(* No provider downloads a model twice at a time: a channel in             *)
(* ongoingDownloads belongs to the one goroutine that downloads its model, *)
(* whatever calls, failures and restarts interleave with it.               *)
THEOREM OneDownloadAtATime == Spec => []OneDownload
<1>1. ControlInv => OneDownload
  BY DEF ControlInv, DownloadsOK, GcsDownloadsOK, OneDownload
<1> QED BY <1>1, ControlCorrect, PTL
==============================================================================
