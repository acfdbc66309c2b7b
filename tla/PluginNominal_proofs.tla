------------------------ MODULE PluginNominal_proofs ------------------------
(* Proofs of what README.md promises of the slice and of the hook, on the  *)
(* instances of ModelCachePlugin where it holds: the process starts on an  *)
(* empty disk and does not crash, repositories do not change, and no id is *)
(* downloaded from both providers.                                         *)
EXTENDS PluginClaims_proofs

USE DEF cacheVars, entries, Unlocked, Notify, Insert, Touch, gcs!cacheVars,
        gcs!entries, gcs!Unlocked, gcs!Notify, gcs!Insert, gcs!Touch, diskVars,
        providerVars, gcsVars, gcs!diskVars, gcs!providerVars, plugVars,
        faultVars, nodeVars, vars, Goroutine

-----------------------------------------------------------------------------
(* The models that claims can make a provider download.                    *)
Downloaded(p) ==
    {LoaderOf(s.config).model :
        s \in {t \in ClaimSpec : /\ webhook!Admitted(Review(t))
                                 /\ LoaderOf(t.config) # NoLoader
                                 /\ \E i \in DOMAIN t.requests :
                                       t.requests[i].provider = p}}

(* The hypothesis of both theorems.                                        *)
Undivided == /\ \A left \in Before : left.gcs = {} /\ left.huggingface = {}
             /\ MaxCrashes = 0
             /\ Rev = {FirstRev}
             /\ Downloaded("gcs") \intersect Downloaded("huggingface") = {}

(* And of the second one: no download fails, and there is room for all.    *)
Roomy == /\ "huggingface" \notin Failing
         /\ IsFiniteSet(Model)
         /\ ModelSize * Cardinality(Model) <= MaxSize

Whole(m) == Complete(m, FirstRev)

(* Nothing is scanned, so no entry has the directory of a provider as its  *)
(* Path, and evictions remove none.                                        *)
NothingScanned == /\ ~up => dirs = {} /\ gcsSentinel = {}
                  /\ \A m \in Model : path[m] \notin Provider

(* The stub devices of a list are of providers that the claim asks for.    *)
StubsAsked(c, devices) ==
    \A i \in DOMAIN devices :
       devices[i].stub => \E j \in DOMAIN alloc[c].spec.requests :
             alloc[c].spec.requests[j].provider = devices[i].provider

StubsOK ==
    /\ call.pc \in {"stub"} \union Waiting
          => call.model \in Downloaded("huggingface")
    /\ gcsCall.pc \in {"stub"} \union Waiting
          => gcsCall.model \in Downloaded("gcs")
    /\ \A c \in Claim : st[c] # "none" => StubsAsked(c, alloc[c].devices)
    /\ prep # NoPrep => StubsAsked(prep.claim, prep.left)

(* Each provider downloads its own models, and an entry of one of Hugging  *)
(* Face is of a model that is on the disk in full.                         *)
OwnModels ==
    /\ dirs \subseteq Downloaded("huggingface")
    /\ \A g \in Fetcher :
          dl[g].pc # "none" => dl[g].model \in Downloaded("huggingface")
    /\ \A g \in GcsFetcher :
          gcsDl[g].pc # "none" => gcsDl[g].model \in Downloaded("gcs")
    /\ \A m \in models \intersect Downloaded("huggingface") : Whole(m)

SliceInv == NothingScanned /\ StubsOK /\ OwnModels /\ SliceMeansComplete

(* While a model is being downloaded it has no entry, and every entry is   *)
(* charged ModelSize: so there is room for it.                             *)
Charged == /\ \A m \in models : size[m] = ModelSize
           /\ currentSize = Cardinality(models) * ModelSize
RoomOK == /\ Charged
          /\ \A g \in Fetcher :
                dl[g].pc \notin {"none", "sentinel", "exit"}
                   => dl[g].model \notin models

(* A download that ends has the model on the disk, and so has a call that  *)
(* goes on without a hook.                                                 *)
EndsWhole == \A g \in Fetcher :
                dl[g].pc \in {"sentinel", "exit"} => Whole(dl[g].model)
Unhooked == \/ call.pc \in {"again", "cached"}
            \/ call.pc = "select" /\ call.ch = None
            \/ call.pc \in {"info", "done"} /\ ~call.hook
CallWhole ==
    /\ Unhooked => Whole(call.model)
    /\ call.pc = "select" /\ call.ch # None
          => dl[call.ch].pc # "none" /\ dl[call.ch].model = call.model
    /\ call.pc = "done" => call.sha = FirstRev

EditWhole(e) == e.provider = "huggingface"
                   => e.sha = FirstRev /\ (e.hook \/ Whole(e.model))
EditsWhole == /\ \A e \in prep.edits : EditWhole(e)
              /\ \A c \in Claim : \A e \in cdi[c] : EditWhole(e)

HookInv == RoomOK /\ EndsWhole /\ CallWhole /\ EditsWhole

-----------------------------------------------------------------------------
(* What cannot happen: crashes, pushes and scans.                          *)

(* A repository has one commit.                                            *)
LEMMA OneCommit ==
    ASSUME Undivided, ControlInv
    PROVE  /\ \A m \in Model : rev[m] = FirstRev
           /\ \A g \in Fetcher : Fetching(dl[g]) => dl[g].sha = FirstRev
           /\ \A m \in Model : ~ Push(m)
<1>1. \A m \in Model : rev[m] = FirstRev
  BY DEF Undivided, ControlInv, DiskOK
<1>2. \A g \in Fetcher : Fetching(dl[g]) => dl[g].sha = FirstRev
  BY DEF Undivided, ControlInv, DownloadsOK
<1>3. \A m \in Model : ~ Push(m)
  BY <1>1 DEF Undivided, Push, FirstRev
<1> QED BY <1>1, <1>2, <1>3

(* The process does not end.                                               *)
LEMMA NoCrash == ASSUME Undivided, ControlInv PROVE ~ Crash
BY DEF Undivided, ControlInv, PlainOK, Crash

(* Before the process is up the disk is empty.                             *)
LEMMA NoScan ==
    ASSUME NothingScanned PROVE \A m \in Model : ~ Scan(m)
<1>1. ~up => Discoverable = {} /\ GcsDiscoverable = {}
  BY DEF NothingScanned, Discoverable, GcsDiscoverable, gcs!Discoverable
<1> QED BY <1>1 DEF Scan

(* Only a crash takes a process down.                                      *)
LEMMA StaysUp == ASSUME Next PROVE up => up' \/ Crash
<1>1. CASE Start \/ RunOnUpdate \/ Failure \/ CallStep
  BY <1>1 DEF Start, NewDriver, Scan, RunOnUpdate, Failure, CallStep,
     NextDevice, CreateClaimSpecFile, Prepared
<1>2. CASE \/ \E g \in Fetcher : DownloadStep(g)
           \/ \E g \in GcsFetcher : GcsDownloadStep(g)
           \/ \E m \in Model : Push(m)
  BY <1>2 DEF DownloadStep, GcsDownloadStep, Evict, Push
<1>3. ASSUME NEW c \in Claim,
             \/ Prepare(c) \/ StartContainer(c) \/ StopPod(c) \/ Unprepare(c)
             \/ \E s \in ClaimSpec : Allocate(c, s)
      PROVE  UNCHANGED up
  BY <1>3 DEF Prepare, StartContainer, StopPod, Unprepare, Allocate
<1> QED BY <1>1, <1>2, <1>3 DEF Next

(* No file and no directory is ever removed.                               *)
LEMMA DiskGrows ==
    ASSUME Undivided, ControlInv, NothingScanned, Next
    PROVE  /\ dirs \subseteq dirs' /\ disk \subseteq disk'
           /\ gcsBuckets \subseteq gcsBuckets'
           /\ UNCHANGED rev
           /\ \A m : Whole(m) => Whole(m)'
<1>0. \A m \in Model : path[m] \notin Provider
  BY DEF NothingScanned
<1>1. /\ dirs \subseteq dirs' /\ disk \subseteq disk'
      /\ gcsBuckets \subseteq gcsBuckets' /\ UNCHANGED rev
  <2>1. ASSUME NEW g, NEW m \in Model, Evict(g, m)
        PROVE  UNCHANGED <<rev, diskVars, gcsBuckets>>
    <3>1. path[m] # "huggingface" /\ path[m] # "gcs"
      BY <1>0 DEF Provider
    <3> QED BY <2>1, <3>1 DEF Evict, RemoveSnapshots, gcs!RemoveBucket
  <2>2. ASSUME NEW g \in Fetcher, UNCHANGED <<gcsBuckets, gcsSentinel>>,
               \/ DownloadMkdir(g) \/ DownloadSentinel(g)
               \/ \E f \in File : DownloadFile(g, f)
        PROVE  /\ dirs \subseteq dirs' /\ disk \subseteq disk' /\ UNCHANGED rev
    BY <2>2 DEF DownloadMkdir, DownloadSentinel, DownloadFile
  <2>3. ASSUME NEW g \in GcsFetcher, gcs!DownloadMkdir(g) \/ gcs!DownloadSentinel(g)
        PROVE  gcsBuckets \subseteq gcsBuckets'
    BY <2>3 DEF gcs!DownloadMkdir, gcs!DownloadSentinel
  <2> QED BY <2>1, <2>2, <2>3, DiskFrame, OneCommit
<1> QED BY <1>1 DEF Whole, Complete

(* Nor does a step put anything there before the process is up, or give an *)
(* entry the directory of a provider.                                      *)
LEMMA NothingScannedKept ==
    ASSUME Undivided, ControlInv, NothingScanned, Next PROVE NothingScanned'
<1>0. /\ \A m \in Model : path[m] \notin Provider
      /\ path \in [Model -> Provider \union {"none", "joined"}]
      /\ "none" \notin Provider /\ "joined" \notin Provider
  BY DEF NothingScanned, ControlInv, CacheInv, CacheTypeOK, Provider
<1>1. \A m \in Model : path'[m] \notin Provider
  <2>1. ASSUME NEW g \in Fetcher, GoroutineStep(g)
        PROVE  \A m \in Model : path'[m] \notin Provider
    BY <1>0, <2>1, GoroutineMoves DEF GoroutineMove
  <2>2. ASSUME NEW g \in GcsFetcher, GcsGoroutineStep(g)
        PROVE  \A m \in Model : path'[m] \notin Provider
    BY <1>0, <2>2, GcsGoroutineMoves DEF GcsGoroutineMove
  <2>3. ASSUME NEW g, NEW m \in Model, Evict(g, m)
        PROVE  \A n \in Model : path'[n] \notin Provider
    BY <1>0, <2>3, EvictTakes
  <2> QED BY <1>0, <2>1, <2>2, <2>3, DownloadKinds, NoCrash, NoScan, OneCommit
<1>2. ~up' => dirs' = {} /\ gcsSentinel' = {}
  <2> SUFFICES ASSUME ~up' PROVE dirs' = {} /\ gcsSentinel' = {}
    OBVIOUS
  <2>1. ~up
    BY StaysUp, NoCrash
  <2>2. /\ \A g \in Fetcher : dl[g].pc = "none"
        /\ \A g \in GcsFetcher : gcsDl[g].pc = "none"
        /\ holder \notin Fetcher \union GcsFetcher
    BY <2>1, CacheAssumption, ProviderAssumption, PluginAssumption
       DEF ControlInv, DownOK, NoDownload, gcs!NoDownload
  <2>3. UNCHANGED <<dirs, gcsSentinel>>
    BY <2>2, DiskFrame, OneCommit
       DEF Evict, EvictLRU, DownloadMkdir, DownloadSentinel, DownloadFile, In,
           gcs!DownloadMkdir, gcs!DownloadSentinel, gcs!In
  <2> QED BY <2>1, <2>3 DEF NothingScanned
<1> QED BY <1>1, <1>2 DEF NothingScanned

-----------------------------------------------------------------------------
(* Who downloads what.                                                     *)

(* A stub device of the claim is served by a provider that the claim asks  *)
(* for, with the model of its loader.                                      *)
LEMMA ServeAtHome ==
    ASSUME ControlInv, NEW c \in Claim, st[c] = "allocated",
           NEW devices \in Seq(Device), devices # <<>>, StubsAsked(c, devices),
           NEW edits, Serve(c, devices, edits)
    PROVE  /\ call'.pc \in {"stub"} \union Waiting
                 => call'.model \in Downloaded("huggingface")
           /\ gcsCall'.pc \in {"stub"} \union Waiting
                 => gcsCall'.model \in Downloaded("gcs")
           /\ prep' # NoPrep => prep'.claim = c /\ prep'.left = devices
<1> DEFINE d == Head(devices)
           loader == LoaderOf(alloc[c].spec.config)
           first == IF d.stub THEN "stub" ELSE "find"
           model == IF d.stub THEN loader.model ELSE d.model
<1>1. CASE PrepareFails
  BY <1>1 DEF PrepareFails, NoCall, gcs!NoCall, Waiting
<1>2. CASE ~ PrepareFails
  <2>1. /\ d.stub => loader # NoLoader
        /\ prep' = [claim |-> c, left |-> devices, edits |-> edits]
        /\ \/ /\ d.provider = "huggingface"
              /\ call' = [NoCall EXCEPT !.pc = first, !.claim = c, !.model = model]
              /\ gcsCall' = gcs!NoCall
           \/ /\ d.provider # "huggingface"
              /\ call' = NoCall
              /\ gcsCall' = [gcs!NoCall EXCEPT !.pc = first, !.claim = c,
                                               !.model = model]
    BY <1>2 DEF Serve
  <2>2. d = devices[1] /\ 1 \in DOMAIN devices /\ d \in Device
    OBVIOUS
  <2>3. d.provider \in {"huggingface", "gcs"}
    BY <2>2 DEF Device, Provider
  <2>4. d.stub => loader.model \in Downloaded(d.provider)
    <3>1. alloc[c].spec \in ClaimSpec /\ webhook!Admitted(Review(alloc[c].spec))
      BY DEF ControlInv, ClaimsOK
    <3> QED BY <2>1, <2>2, <3>1 DEF StubsAsked, Downloaded
  <2>5. first \in {"stub", "find"} /\ (first = "stub" => d.stub /\ model = loader.model)
    BY <2>2 DEF Device
  <2> HIDE DEF d, loader, first, model
  <2>6. CASE call' = NoCall
    <3>1. gcsCall'.pc = first /\ gcsCall'.model = model /\ d.provider = "gcs"
      BY <2>1, <2>3, <2>5, <2>6 DEF NoCall, gcs!NoCall
    <3> QED BY <2>1, <2>4, <2>5, <2>6, <3>1 DEF NoCall, Waiting
  <2>7. CASE call' # NoCall
    <3>1. /\ call'.pc = first /\ call'.model = model
          /\ d.provider = "huggingface" /\ gcsCall' = gcs!NoCall
      BY <2>1, <2>7 DEF NoCall
    <3> QED BY <2>1, <2>4, <2>5, <3>1 DEF gcs!NoCall, Waiting
  <2> QED BY <2>6, <2>7
<1> QED BY <1>1, <1>2

(* The scheduler takes a stub device of the provider the request names.    *)
LEMMA StubsAllocated ==
    ASSUME ControlInv, StubsOK, Next, NEW c \in Claim, st'[c] # "none"
    PROVE  StubsAsked(c, alloc[c].devices)'
<1>0. ClaimsOK /\ (st[c] # "none" => StubsAsked(c, alloc[c].devices))
  BY DEF ControlInv, StubsOK
<1>1. CASE st[c] # "none" /\ alloc'[c] = alloc[c]
  BY <1>0, <1>1 DEF StubsAsked
<1>2. ASSUME NEW d \in Claim, NEW s \in ClaimSpec, Allocate(d, s)
      PROVE  StubsAsked(c, alloc[c].devices)'
  <2>1. PICK devices \in [DOMAIN s.requests -> Device] :
           /\ \A i \in DOMAIN devices : devices[i] \in Candidates(s.requests[i])
           /\ alloc' = [alloc EXCEPT ![d] = [spec |-> s, devices |-> devices]]
    BY <1>2 DEF Allocate
  <2>2. CASE c = d
    <3>1. alloc'[c].spec = s /\ alloc'[c].devices = devices
      BY <1>0, <2>1, <2>2 DEF ClaimsOK
    <3>2. \A i \in DOMAIN devices :
             devices[i].stub => devices[i].provider = s.requests[i].provider
      <4> TAKE i \in DOMAIN devices
      <4>1. \/ \E p \in Enabled : devices[i] = [provider |-> p, stub |-> FALSE,
                                             model |-> s.requests[i].model]
            \/ devices[i] = [provider |-> s.requests[i].provider,
                             stub |-> TRUE, model |-> None]
        BY <2>1 DEF Candidates
      <4> QED BY <4>1
    <3>3. ASSUME NEW i \in DOMAIN devices, devices[i].stub
          PROVE  \E j \in DOMAIN s.requests :
                    s.requests[j].provider = devices[i].provider
      BY <3>2, <3>3
    <3> QED BY <3>1, <3>3 DEF StubsAsked
  <2>3. CASE c # d
    <3>1. alloc'[c] = alloc[c]
      BY <1>0, <2>1, <2>3 DEF ClaimsOK
    <3>2. st'[c] = st[c]
      BY <1>0, <1>2, <2>3 DEF Allocate, ClaimsOK
    <3> QED BY <1>1, <3>1, <3>2
  <2> QED BY <2>2, <2>3
<1>3. CASE ~ \E d \in Claim, s \in ClaimSpec : Allocate(d, s)
  <2>1. UNCHANGED alloc
    BY <1>3, ClaimFrame DEF CreateClaimSpecFile
  <2>2. st[c] # "none"
    <3>1. CASE UNCHANGED st
      BY <3>1
    <3>2. CASE Prepared
      <4>1. prep.claim \in Claim /\ st[prep.claim] = "allocated"
        BY <3>2 DEF Prepared, ControlInv, PrepOK
      <4> QED BY <1>0, <3>2, <4>1 DEF Prepared, ClaimsOK
    <3>3. ASSUME NEW d \in Claim, StartContainer(d) \/ StopPod(d) \/ Unprepare(d)
          PROVE  st[c] # "none"
      BY <1>0, <3>3 DEF StartContainer, StopPod, Unprepare, ClaimsOK
    <3> QED BY <1>3, <3>1, <3>2, <3>3, ClaimFrame
  <2> QED BY <1>1, <2>1, <2>2
<1> QED BY <1>2, <1>3

(* A call that may download is for a model of its own provider.            *)
LEMMA StubsKept == ASSUME Undivided, ControlInv, StubsOK, Next PROVE StubsOK'
<1> DEFINE Early == {"stub"} \union Waiting
           CallsGoal == /\ call'.pc \in Early
                              => call'.model \in Downloaded("huggingface")
                        /\ gcsCall'.pc \in Early
                              => gcsCall'.model \in Downloaded("gcs")
           PrepGoal == prep' # NoPrep => StubsAsked(prep.claim, prep.left)'
<1>0. /\ call.pc \in Early => call.model \in Downloaded("huggingface")
      /\ gcsCall.pc \in Early => gcsCall.model \in Downloaded("gcs")
      /\ prep # NoPrep => StubsAsked(prep.claim, prep.left)
      /\ \A c \in Claim : st[c] # "none" => StubsAsked(c, alloc[c].devices)
  BY DEF StubsOK
<1>1. NoCall.pc \notin Early /\ gcs!NoCall.pc \notin Early
  BY DEF NoCall, gcs!NoCall, Waiting
<1>2. ASSUME UNCHANGED prep PROVE PrepGoal
  <2>1. CASE prep # NoPrep
    <3>1. alloc'[prep.claim] = alloc[prep.claim]
      BY <2>1, PreparedClaimStays
    <3> QED BY <1>0, <1>2, <2>1, <3>1 DEF StubsAsked
  <2> QED BY <1>2, <2>1
<1>3. UNCHANGED prep => PrepGoal
  BY <1>2
<1>4. ASSUME prep' = NoPrep \/ UNCHANGED prep,
             UNCHANGED gcsCall \/ gcsCall' = gcs!NoCall,
             UNCHANGED call \/ call' = NoCall
      PROVE  CallsGoal /\ PrepGoal
  BY <1>0, <1>1, <1>3, <1>4
<1>5. ASSUME HfCallStep, UNCHANGED gcsCall, prep' = NoPrep \/ UNCHANGED prep
      PROVE  CallsGoal /\ PrepGoal
  <2>1. \/ call' = NoCall
        \/ call'.pc \notin Early
        \/ call.pc \in Early /\ call'.model = call.model
    BY <1>5, HfCallMoves DEF HfCallMove, Waiting
  <2>2. CallsGoal
    BY <1>0, <1>1, <1>5, <2>1
  <2> QED BY <1>3, <1>5, <2>2
<1>6. ASSUME GcsCallStep, UNCHANGED <<call, razed>>,
             prep' = NoPrep \/ UNCHANGED prep
      PROVE  CallsGoal /\ PrepGoal
  <2>1. \/ gcsCall' = gcs!NoCall
        \/ gcsCall'.pc \notin Early
        \/ gcsCall.pc \in Early /\ gcsCall'.model = gcsCall.model
    BY <1>6, GcsCallMoves DEF GcsCallMove, Waiting
  <2>2. CallsGoal
    BY <1>0, <1>1, <1>6, <2>1
  <2> QED BY <1>3, <1>6, <2>2
<1>7. ASSUME NEW c \in Claim, st[c] = "allocated", NEW devices \in Seq(Device),
             devices # <<>>, StubsAsked(c, devices), UNCHANGED alloc,
             NEW edits, Serve(c, devices, edits)
      PROVE  CallsGoal /\ PrepGoal
  <2>1. StubsAsked(c, devices)'
    BY <1>7 DEF StubsAsked
  <2>2. CallsGoal /\ (prep' # NoPrep => prep'.claim = c /\ prep'.left = devices)
    BY <1>7, ServeAtHome
  <2>3. PrepGoal
    <3>1. CASE prep'.claim = c /\ prep'.left = devices
      BY <2>1, <3>1 DEF StubsAsked
    <3> QED BY <2>2, <3>1
  <2> QED BY <2>2, <2>3
<1>8. ASSUME NextDevice PROVE CallsGoal /\ PrepGoal
  <2>1. Served /\ prep.left \in Seq(Device) /\ Len(prep.left) > 1
    BY <1>8 DEF NextDevice, ControlInv, PrepOK
  <2>2. /\ prep # NoPrep /\ prep.claim \in Claim
        /\ st[prep.claim] = "allocated"
    BY <2>1, ServedPrepares
  <2>3. /\ Tail(prep.left) \in Seq(Device)
        /\ Len(Tail(prep.left)) = Len(prep.left) - 1
        /\ \A i \in 1..Len(Tail(prep.left)) : Tail(prep.left)[i] = prep.left[i + 1]
    BY <2>1, HeadTailProperties
  <2>4. StubsAsked(prep.claim, Tail(prep.left))
    BY <1>0, <2>1, <2>2, <2>3 DEF StubsAsked
  <2>5. Tail(prep.left) # <<>>
    <3> DEFINE n == Len(prep.left)
               rest == Tail(prep.left)
    <3>1. n \in Nat /\ n > 1 /\ Len(rest) = n - 1
      BY <2>1, <2>3, LenProperties
    <3> HIDE DEF n, rest
    <3>2. Len(rest) # 0
      BY <3>1
    <3> QED BY <3>2, EmptySeq DEF rest
  <2> QED BY <1>7, <1>8, <2>2, <2>3, <2>4, <2>5 DEF NextDevice
<1>9. ASSUME NEW c \in Claim, Prepare(c) PROVE CallsGoal /\ PrepGoal
  <2>1. /\ st[c] = "allocated" /\ alloc[c].devices \in Seq(Device)
        /\ alloc[c].devices # <<>>
    BY <1>9 DEF Prepare, ControlInv, ClaimsOK
  <2> QED BY <1>0, <1>7, <1>9, <2>1 DEF Prepare
<1>10. ASSUME CreateClaimSpecFile PROVE CallsGoal /\ PrepGoal
  <2>1. call' = NoCall /\ gcsCall' = gcs!NoCall
        /\ (prep' = NoPrep \/ prep'.left = <<>>)
    BY <1>10 DEF CreateClaimSpecFile, PrepareFails, ControlInv, PrepOK
  <2> QED BY <1>1, <2>1 DEF StubsAsked
<1>11. CallsGoal /\ PrepGoal
  <2>1. CASE CallStep
    BY <1>4, <1>5, <1>6, <1>8, <1>10, <2>1
       DEF CallStep, HfCallStep, GcsCallStep, Prepared
  <2>2. CASE \/ CreateClaimSpecFileFails
             \/ SnapshotInfoFails /\ prep' = NoPrep /\ UNCHANGED gcsCall
    BY <1>4, <2>2 DEF CreateClaimSpecFileFails, PrepareFails,
                      SnapshotInfoFails, Return
  <2>3. ASSUME NEW g \in Fetcher, DownloadExit(g), UNCHANGED <<gcsCall, prep>>
        PROVE  CallsGoal /\ PrepGoal
    <3>1. call'.pc = call.pc /\ call'.model = call.model
      BY <2>3 DEF DownloadExit
    <3> QED BY <1>0, <1>3, <2>3, <3>1
  <2>4. ASSUME NEW g \in GcsFetcher, gcs!DownloadExit(g), UNCHANGED <<call, prep>>
        PROVE  CallsGoal /\ PrepGoal
    <3>1. gcsCall'.pc = gcsCall.pc /\ gcsCall'.model = gcsCall.model
      BY <2>4 DEF gcs!DownloadExit
    <3> QED BY <1>0, <1>3, <2>4, <3>1
  <2> QED BY <1>4, <1>9, <2>1, <2>2, <2>3, <2>4, CallFrame, NoCrash
<1>12. \A c \in Claim : st'[c] # "none" => StubsAsked(c, alloc[c].devices)'
  BY StubsAllocated
<1> QED BY <1>11, <1>12 DEF StubsOK, StubsAsked

(* A new entry of a Hugging Face model is made when its files are there;   *)
(* the other provider makes none.                                          *)
LEMMA OwnKept ==
    ASSUME Undivided, DownloadInv, NothingScanned, StubsOK, OwnModels, Next
    PROVE  OwnModels'
<1> DEFINE Here == Downloaded("huggingface")
           There == Downloaded("gcs")
<1>0. /\ ControlInv /\ ProgressOK /\ Here \intersect There = {}
      /\ dirs \subseteq Here
      /\ \A g \in Fetcher : dl[g].pc # "none" => dl[g].model \in Here
      /\ \A g \in GcsFetcher : gcsDl[g].pc # "none" => gcsDl[g].model \in There
      /\ \A m \in models \intersect Here : Whole(m)
  BY DEF Undivided, DownloadInv, OwnModels
<1> HIDE DEF Here, There
<1>1. \A m : Whole(m) => Whole(m)'
  BY <1>0, DiskGrows
<1>2. dirs' \subseteq Here
  <2>1. ASSUME NEW g, NEW m \in Model, Evict(g, m) PROVE dirs' \subseteq dirs
    BY <2>1 DEF Evict, RemoveSnapshots
  <2>2. ASSUME NEW g \in Fetcher,
               \/ DownloadMkdir(g) \/ DownloadSentinel(g)
               \/ \E f \in File : DownloadFile(g, f)
        PROVE  dirs' \subseteq Here
    BY <1>0, <2>2 DEF DownloadMkdir, DownloadSentinel, DownloadFile, In
  <2> QED BY <1>0, <2>1, <2>2, DiskFrame, OneCommit
<1>3. ASSUME UNCHANGED <<dl, gcsDl>>, models' \subseteq models PROVE OwnModels'
  BY <1>0, <1>1, <1>2, <1>3 DEF OwnModels, Here, There
<1>4. CASE DownloadModel /\ UNCHANGED <<gcsDl, models>>
  <2>1. call.model \in Here
    BY <1>4 DEF DownloadModel, At, StubsOK, Waiting, Here
  <2>2. \A g \in Fetcher : dl'[g].pc # "none" => dl'[g].model \in Here
    BY <1>0, <1>4, <2>1, DownloadStarts
  <2> QED BY <1>0, <1>1, <1>2, <1>4, <2>2 DEF OwnModels, Here, There
<1>5. CASE gcs!DownloadModel /\ UNCHANGED <<dl, models>>
  <2>1. gcsCall.model \in There
    BY <1>5 DEF gcs!DownloadModel, gcs!At, StubsOK, Waiting, There
  <2>2. \A g \in GcsFetcher : gcsDl'[g].pc # "none" => gcsDl'[g].model \in There
    BY <1>0, <1>5, <2>1, GcsDownloadStarts
  <2> QED BY <1>0, <1>1, <1>2, <1>5, <2>2 DEF OwnModels, Here, There
<1>6. ASSUME NEW g \in Fetcher, GoroutineStep(g), UNCHANGED gcsDl
      PROVE  OwnModels'
  <2>1. GoroutineMove(g)
    BY <1>0, <1>6, GoroutineMoves
  <2>2. \A h \in Fetcher : dl'[h].pc # "none" => dl'[h].model \in Here
    BY <1>0, <2>1 DEF GoroutineMove
  <2>3. \A m \in models' \intersect Here : Whole(m)'
    <3>1. dl[g].pc = "files" /\ dl[g].todo = {} => Whole(dl[g].model)
      <4>1. dl[g].pc = "files" => dl[g].sha = FirstRev /\ rev[dl[g].model] = FirstRev
        BY <1>0, <2>1, OneCommit DEF Fetching, GoroutineMove
      <4> QED BY <1>0, <4>1 DEF ProgressOK, Whole, Complete
    <3> QED BY <1>0, <1>1, <2>1, <3>1 DEF GoroutineMove
  <2> QED BY <1>0, <1>2, <1>6, <2>2, <2>3 DEF OwnModels, Here, There
<1>7. ASSUME NEW g \in GcsFetcher, GcsGoroutineStep(g), UNCHANGED dl
      PROVE  OwnModels'
  <2>1. GcsGoroutineMove(g)
    BY <1>0, <1>7, GcsGoroutineMoves
  <2>2. \A h \in GcsFetcher : gcsDl'[h].pc # "none" => gcsDl'[h].model \in There
    BY <1>0, <2>1 DEF GcsGoroutineMove
  <2>3. \A m \in models' \intersect Here : Whole(m)'
    BY <1>0, <1>1, <2>1 DEF GcsGoroutineMove
  <2> QED BY <1>0, <1>2, <1>7, <2>2, <2>3 DEF OwnModels, Here, There
<1>8. ASSUME NEW g, NEW m \in Model, Evict(g, m) PROVE OwnModels'
  BY <1>0, <1>3, <1>8, EvictTakes
<1> QED BY <1>0, <1>3, <1>4, <1>5, <1>6, <1>7, <1>8, DownloadKinds, NoCrash,
           NoScan, OneCommit

-----------------------------------------------------------------------------
(* The published slice.                                                    *)

(* It changes when it is published.                                        *)
LEMMA SliceFrame == ASSUME Next PROVE UNCHANGED slice \/ slice' = Published(Devices)
<1>1. CASE Start \/ RunOnUpdate \/ Crash \/ Failure \/ CallStep
  BY <1>1 DEF Start, NewDriver, Scan, RunOnUpdate, Crash, Failure, CallStep,
     NextDevice, CreateClaimSpecFile, Prepared
<1>2. CASE \/ \E g \in Fetcher : DownloadStep(g)
           \/ \E g \in GcsFetcher : GcsDownloadStep(g)
           \/ \E m \in Model : Push(m)
  BY <1>2 DEF DownloadStep, GcsDownloadStep, Evict, Push
<1>3. ASSUME NEW c \in Claim,
             \/ Prepare(c) \/ StartContainer(c) \/ StopPod(c) \/ Unprepare(c)
             \/ \E s \in ClaimSpec : Allocate(c, s)
      PROVE  UNCHANGED slice
  BY <1>3 DEF Prepare, StartContainer, StopPod, Unprepare, Allocate
<1> QED BY <1>1, <1>2, <1>3 DEF Next

(* What is published is on the disk, and stays there.                      *)
LEMMA SliceKept ==
    ASSUME Undivided, ControlInv, NothingScanned, OwnModels, SliceMeansComplete,
           Next
    PROVE  SliceMeansComplete'
<1> DEFINE Listed(d) == IF d[1] = "gcs" THEN d[2] \in gcsBuckets
                                        ELSE Whole(d[2])
<1>1. /\ slice \subseteq Enabled \X Model /\ Enabled \subseteq {"huggingface", "gcs"}
      /\ \A m \in Model : rev[m] = FirstRev
      /\ UNCHANGED rev
  BY PluginAssumption, OneCommit, DiskGrows DEF ControlInv, PlainOK, Provider
<1>2. Devices \subseteq Enabled \X Model
  BY DEF Devices
<1>3. \A d \in slice : Listed(d)
  BY <1>1 DEF SliceMeansComplete, Whole
<1>4. \A d \in Devices : Listed(d)
  BY <1>1, <1>2 DEF Devices, Advertised, gcs!Advertised, OwnModels
<1>5. \A d : Listed(d) => Listed(d)'
  BY DiskGrows
<1>6. slice' \subseteq slice \union Devices
  BY SliceFrame DEF Published
<1>7. \A d \in slice' : Listed(d)'
  BY <1>3, <1>4, <1>5, <1>6
<1> QED BY <1>1, <1>2, <1>6, <1>7 DEF SliceMeansComplete, Whole

(* NothingScanned, StubsOK and OwnModels are invariant, and with them the  *)
(* property of the slice.                                                  *)
THEOREM SliceCorrect == Undivided => (Spec => []SliceInv)
<1> SUFFICES ASSUME Undivided PROVE Spec => []SliceInv
  OBVIOUS
<1>1. Init => SliceInv
  <2> SUFFICES ASSUME Init PROVE SliceInv
    OBVIOUS
  <2>1. PICK left \in Before :
           /\ dirs = left.huggingface /\ gcsSentinel = left.gcs
    BY DEF Init
  <2>2. dirs = {} /\ gcsSentinel = {}
    BY <2>1 DEF Undivided
  <2>3. /\ models = {} /\ path = [m \in Model |-> "none"] /\ slice = {}
        /\ dl = [g \in Fetcher |-> NoDownload] /\ call = NoCall
        /\ gcsDl = [g \in GcsFetcher |-> gcs!NoDownload]
        /\ gcsCall = gcs!NoCall /\ prep = NoPrep
        /\ st = [c \in Claim |-> "none"]
    BY DEF Init, NewCacheManager, NewProvider, gcs!NewGCSProvider
  <2>4. NothingScanned
    BY <2>2, <2>3 DEF NothingScanned, Provider
  <2>5. StubsOK
    BY <2>3 DEF StubsOK, NoCall, gcs!NoCall, Waiting
  <2>6. OwnModels
    BY <2>2, <2>3 DEF OwnModels, NoDownload, gcs!NoDownload
  <2>7. SliceMeansComplete
    BY <2>3 DEF SliceMeansComplete
  <2> QED BY <2>4, <2>5, <2>6, <2>7 DEF SliceInv
<1>2. SliceInv /\ DownloadInv /\ Next => SliceInv'
  <2> SUFFICES ASSUME SliceInv, DownloadInv, Next PROVE SliceInv'
    OBVIOUS
  <2> QED BY NothingScannedKept, StubsKept, OwnKept, SliceKept
          DEF SliceInv, DownloadInv
<1>3. SliceInv /\ UNCHANGED vars => SliceInv'
  BY DEF SliceInv, NothingScanned, StubsOK, StubsAsked, OwnModels,
         SliceMeansComplete, Whole, Complete
<1>4. SliceInv /\ DownloadInv /\ [Next]_vars => SliceInv'
  BY <1>2, <1>3
<1> QED BY <1>1, <1>4, DownloadsCorrect, PTL DEF Spec

(* README.md:211: "the cached version of the model does not appear in the  *)
(* ResourceSlice until it is fully downloaded".  It holds of a process that*)
(* starts on an empty disk and does not crash, when repositories have one  *)
(* commit and no id is downloaded from both providers, whatever fails: the *)
(* entry is made when the last file is there, the callback of AddModel     *)
(* publishes entries only, and no eviction removes files.                  *)
THEOREM ListedIsComplete == Undivided => (Spec => []SliceMeansComplete)
<1> SUFFICES ASSUME Undivided PROVE Spec => []SliceMeansComplete
  OBVIOUS
<1>1. SliceInv => SliceMeansComplete
  BY DEF SliceInv
<1> QED BY <1>1, SliceCorrect, PTL

-----------------------------------------------------------------------------
(* There is room for every model.                                          *)

(* Multiplication keeps the order.                                         *)
LEMMA TimesGrows ==
    ASSUME NEW a \in Nat, NEW b \in Nat, a <= b, NEW k \in Nat
    PROVE  k * a <= k * b
<1>1. k * b = k * a + k * (b - a)
  OBVIOUS
<1>2. k * (b - a) >= 0 /\ k * a \in Int /\ k * (b - a) \in Int
  OBVIOUS
<1> QED BY <1>1, <1>2

(* The entries and the goroutines of Hugging Face: none of its steps fail. *)
SpaceStep(g) == \/ DownloadInfo(g) \/ DownloadEnsureSpace(g)
                \/ DownloadSpaceEnsured(g) \/ DownloadMkdir(g)
                \/ \E f \in File : DownloadFile(g, f)
                \/ DownloadSentinel(g) \/ DownloadExit(g)

(* Who changes them.                                                       *)
LEMMA RoomKinds ==
    ASSUME Roomy, Next
    PROVE  \/ UNCHANGED <<models, size, currentSize, dl>>
           \/ Crash
           \/ \E m \in Model : Scan(m)
           \/ DownloadModel /\ UNCHANGED <<models, size, currentSize>>
           \/ \E g \in Fetcher : \/ SpaceStep(g) /\ UNCHANGED <<models, size, currentSize>>
                                 \/ DownloadSpaceRefused(g)
                                 \/ DownloadAdd(g)
           \/ \E g \in GcsFetcher : gcs!DownloadAdd(g) /\ UNCHANGED dl
           \/ \E g \in Fetcher \union GcsFetcher, m \in Model : Evict(g, m)
<1>1. CASE Start \/ RunOnUpdate
  BY <1>1 DEF Start, NewDriver, RunOnUpdate, SetOnUpdate
<1>2. CASE Failure
  BY <1>2 DEF Failure, CreateClaimSpecFileFails, Roomy, gcs!DownloadFails,
          gcs!DownloadAddFails
<1>3. CASE CallStep
  BY <1>3 DEF CallStep, StubUse, DownloadModel, Select, UseAgain, FindDevice,
     CachedUse, SnapshotInfo, gcs!StubUse, gcs!DownloadModel, gcs!Select,
     gcs!UseAgain, gcs!FindDevice, gcs!CachedUse, gcs!StatDirectory, UseModel,
     gcs!UseModel, NextDevice, CreateClaimSpecFile, Prepared
<1>4. ASSUME NEW g \in Fetcher, DownloadStep(g)
      PROVE  \/ SpaceStep(g) /\ UNCHANGED <<models, size, currentSize>>
             \/ DownloadSpaceRefused(g)
             \/ DownloadAdd(g)
             \/ \E m \in Model : Evict(g, m)
  BY <1>4 DEF DownloadStep, SpaceStep, DownloadInfo, DownloadEnsureSpace,
     DownloadSpaceEnsured, DownloadMkdir, DownloadFile, DownloadSentinel,
     DownloadExit, EnsureSpace, SpaceEnsured
<1>5. ASSUME NEW g \in GcsFetcher, GcsDownloadStep(g)
      PROVE  \/ UNCHANGED <<models, size, currentSize, dl>>
             \/ gcs!DownloadAdd(g) /\ UNCHANGED dl
             \/ \E m \in Model : Evict(g, m)
  BY <1>5 DEF GcsDownloadStep, gcs!DownloadEnsureSpace,
     gcs!DownloadSpaceEnsured, gcs!DownloadSpaceRefused, gcs!DownloadMkdir,
     gcs!DownloadSentinel, gcs!DownloadExit, gcs!EnsureSpace,
     gcs!SpaceEnsured, gcs!SpaceRefused
<1>6. ASSUME NEW c \in Claim,
             \/ Prepare(c) \/ StartContainer(c) \/ StopPod(c) \/ Unprepare(c)
             \/ \E s \in ClaimSpec : Allocate(c, s)
      PROVE  UNCHANGED <<models, size, currentSize, dl>>
  BY <1>6 DEF Prepare, StartContainer, StopPod, Unprepare, Allocate
<1>7. ASSUME NEW m \in Model, Push(m)
      PROVE  UNCHANGED <<models, size, currentSize, dl>>
  BY <1>7 DEF Push
<1> QED BY <1>1, <1>2, <1>3, <1>4, <1>5, <1>6, <1>7 DEF Next

(* A goroutine that asks for space finds it.                               *)
LEMMA RoomFor ==
    ASSUME Roomy, ControlInv, RoomOK, NEW g \in Fetcher, holder = g
    PROVE  Fits(ModelSize)
<1> DEFINE all == Cardinality(Model)
           now == Cardinality(models)
           m == dl[g].model
<1>1. m \in Model \ models
  BY DEF ControlInv, DownloadsOK, RoomOK
<1>2. /\ IsFiniteSet(Model) /\ models \subseteq Model /\ ModelSize \in Nat
      /\ MaxSize \in Nat
  BY CacheAssumption, ProviderAssumption
     DEF Roomy, ControlInv, CacheInv, CacheTypeOK
<1>3. IsFiniteSet(models)
  BY <1>2, FS_Subset
<1>4. Cardinality(models \union {m}) = now + 1
  BY <1>1, <1>3, FS_AddElement
<1>5. Cardinality(models \union {m}) <= all
  BY <1>1, <1>2, FS_Subset
<1>6. all \in Nat /\ now \in Nat
  BY <1>2, <1>3, FS_CardinalityType
<1>7. currentSize = now * ModelSize /\ ModelSize * all <= MaxSize
  BY DEF RoomOK, Charged, Roomy
<1> HIDE DEF all, now, m
<1>8. ModelSize * (now + 1) <= ModelSize * all
  BY <1>2, <1>4, <1>5, <1>6, TimesGrows
<1>9. currentSize + ModelSize = ModelSize * (now + 1)
  BY <1>2, <1>6, <1>7
<1> QED BY <1>2, <1>6, <1>7, <1>8, <1>9 DEF Fits

(* A new entry is charged ModelSize too ...                                *)
LEMMA AddCharges ==
    ASSUME Roomy, ControlInv, Charged, NEW m \in Model, AddModel(m, ModelSize)
    PROVE  /\ models' = models \union {m}
           /\ Charged'
<1>1. CASE m \in models
  <2>1. UNCHANGED <<models, size, currentSize>>
    BY <1>1 DEF AddModel
  <2> QED BY <1>1, <2>1 DEF Charged
<1>2. CASE m \notin models
  <2>1. /\ models' = models \union {m}
        /\ size' = [size EXCEPT ![m] = ModelSize]
        /\ currentSize' = currentSize + ModelSize
    BY <1>2 DEF AddModel
  <2>2. /\ size \in [Model -> Nat] /\ models \subseteq Model
        /\ ModelSize \in Nat /\ IsFiniteSet(models)
    BY ProviderAssumption, FS_Subset
       DEF Roomy, ControlInv, CacheInv, CacheTypeOK
  <2>3. /\ Cardinality(models') = Cardinality(models) + 1
        /\ Cardinality(models) \in Nat
    BY <1>2, <2>1, <2>2, FS_AddElement, FS_CardinalityType
  <2>4. \A n \in models' : size'[n] = ModelSize
    BY <2>1, <2>2 DEF Charged
  <2>5. currentSize' = Cardinality(models') * ModelSize
    <3> DEFINE now == Cardinality(models)
    <3>1. now \in Nat /\ currentSize = now * ModelSize
      BY <2>3 DEF Charged
    <3> HIDE DEF now
    <3>2. currentSize + ModelSize = (now + 1) * ModelSize
      BY <2>2, <3>1
    <3> QED BY <2>1, <2>3, <3>2 DEF now
  <2> QED BY <2>1, <2>4, <2>5 DEF Charged
<1> QED BY <1>1, <1>2

(* ... and an evicted one no longer.                                       *)
LEMMA EvictCharges ==
    ASSUME Roomy, ControlInv, Charged, NEW g, NEW m \in Model, Evict(g, m)
    PROVE  /\ models' \subseteq models
           /\ Charged'
<1>1. /\ m \in models /\ models' = models \ {m}
      /\ size' = [size EXCEPT ![m] = 0] /\ currentSize' = currentSize - size[m]
  BY DEF Evict, EvictLRU, LeastRecent, Idle
<1>2. /\ size \in [Model -> Nat] /\ models \subseteq Model
      /\ ModelSize \in Nat /\ IsFiniteSet(models)
  BY ProviderAssumption, FS_Subset DEF Roomy, ControlInv, CacheInv, CacheTypeOK
<1>3. /\ Cardinality(models') = Cardinality(models) - 1
      /\ Cardinality(models) \in Nat
  BY <1>1, <1>2, FS_RemoveElement, FS_CardinalityType
<1>4. \A n \in models' : size'[n] = ModelSize
  BY <1>1, <1>2 DEF Charged
<1>5. currentSize' = Cardinality(models') * ModelSize
  <2> DEFINE now == Cardinality(models)
  <2>1. now \in Nat /\ currentSize = now * ModelSize /\ size[m] = ModelSize
    BY <1>1, <1>3 DEF Charged
  <2> HIDE DEF now
  <2>2. now * ModelSize - ModelSize = (now - 1) * ModelSize
    BY <1>2, <2>1
  <2> QED BY <1>1, <1>3, <2>1, <2>2 DEF now
<1> QED BY <1>1, <1>4, <1>5 DEF Charged

(* A goroutine never waits for space in vain, so each one that is at work  *)
(* is for a model without an entry, and one that ends has the model on the *)
(* disk.                                                                   *)
LEMMA RoomKept ==
    ASSUME Undivided, Roomy, DownloadInv, NothingScanned, OwnModels, RoomOK,
           EndsWhole, Next
    PROVE  RoomOK' /\ EndsWhole'
<1> DEFINE AtWork == {"info", "space", "ensuring", "mkdir", "files"}
<1>0. /\ ControlInv /\ Charged /\ ProgressOK
      /\ dl \in [Fetcher -> Goroutine]
      /\ \A g \in Fetcher : /\ dl[g].pc \in AtWork => dl[g].model \in Model \ models
                            /\ dl[g].pc \in {"sentinel", "exit"} => Whole(dl[g].model)
                            /\ dl[g].pc # "none" => dl[g].model \in Model
  BY DEF DownloadInv, RoomOK, EndsWhole, ControlInv, DownloadsOK, DownloadPC
<1>1. \A m : Whole(m) => Whole(m)'
  BY <1>0, DiskGrows
<1>2. ASSUME NEW S, models' \subseteq models \union S, Charged',
             \A g \in Fetcher :
                \/ dl'[g].pc = "none"
                \/ dl'[g].pc \in AtWork /\ dl'[g].model \notin models \union S
                \/ dl'[g].pc \in {"sentinel", "exit"} /\ Whole(dl'[g].model)
      PROVE  RoomOK' /\ EndsWhole'
  BY <1>1, <1>2 DEF RoomOK, EndsWhole
<1>3. ASSUME NEW g \in Fetcher
      PROVE  \/ dl[g].pc = "none"
             \/ dl[g].pc \in AtWork /\ dl[g].model \in Model \ models
             \/ dl[g].pc \in {"sentinel", "exit"} /\ Whole(dl[g].model)
  BY <1>0, <1>3 DEF DownloadPC
<1>4. UNCHANGED <<models, size, currentSize>> => models' \subseteq models /\ Charged'
  BY <1>0 DEF Charged
<1>5. CASE UNCHANGED <<models, size, currentSize, dl>>
  BY <1>2, <1>3, <1>4, <1>5
<1>6. CASE DownloadModel /\ UNCHANGED <<models, size, currentSize>>
  BY <1>0, <1>2, <1>3, <1>4, <1>6, DownloadStarts
<1>7. ASSUME NEW g \in Fetcher, SpaceStep(g), UNCHANGED <<models, size, currentSize>>
      PROVE  RoomOK' /\ EndsWhole'
  <2>1. \A h \in Fetcher : h # g => dl'[h] = dl[h]
    BY <1>0, <1>7 DEF SpaceStep, DownloadInfo, DownloadEnsureSpace,
       DownloadSpaceEnsured, DownloadMkdir, DownloadFile, DownloadSentinel,
       DownloadExit, Step
  <2>2. holder = g => dl[g].pc = "ensuring"
    BY <1>0 DEF ControlInv, DownloadsOK
  <2>3. \/ dl'[g].pc = "none"
        \/ /\ dl[g].pc \in AtWork /\ dl'[g].pc \in AtWork
           /\ dl'[g].model = dl[g].model
        \/ /\ dl[g].pc = "sentinel" /\ dl'[g].pc = "exit"
           /\ dl'[g].model = dl[g].model
    <3>1. CASE DownloadInfo(g) \/ DownloadEnsureSpace(g) \/ DownloadSpaceEnsured(g)
      BY <1>0, <2>2, <3>1 DEF DownloadInfo, DownloadEnsureSpace,
         DownloadSpaceEnsured, SpaceEnsured, In, Step
    <3>2. CASE \/ DownloadMkdir(g) \/ DownloadSentinel(g)
               \/ \E f \in File : DownloadFile(g, f)
      BY <1>0, <3>2 DEF DownloadMkdir, DownloadSentinel, DownloadFile, In, Step
    <3>3. CASE DownloadExit(g)
      BY <1>0, <3>3 DEF DownloadExit, NoDownload
    <3> QED BY <1>7, <3>1, <3>2, <3>3 DEF SpaceStep
  <2> QED BY <1>0, <1>2, <1>3, <1>4, <1>7, <2>1, <2>3
<1>8. ASSUME NEW g \in Fetcher PROVE ~ DownloadSpaceRefused(g)
  BY <1>0, RoomFor DEF DownloadSpaceRefused, SpaceRefused
<1>9. ASSUME NEW g \in Fetcher, DownloadAdd(g) PROVE RoomOK' /\ EndsWhole'
  <2> DEFINE m == dl[g].model
  <2>1. /\ dl[g].pc = "files" /\ dl[g].todo = {}
        /\ dl' = [dl EXCEPT ![g].pc = "sentinel"] /\ AddModel(m, ModelSize)
    BY <1>9 DEF DownloadAdd, Fetched, In, Step
  <2>2. m \in Model /\ Whole(m)
    <3>1. dl[g].sha = FirstRev /\ rev[m] = FirstRev
      BY <1>0, <2>1, OneCommit DEF Fetching
    <3> QED BY <1>0, <2>1, <3>1 DEF ProgressOK, Whole, Complete
  <2>3. models' \subseteq models \union {m} /\ Charged'
    BY <1>0, <2>1, <2>2, AddCharges
  <2>4. ASSUME NEW h \in Fetcher, h # g, dl[h].pc # "none" PROVE dl[h].model # m
    BY <1>0, <2>1, <2>2, <2>4 DEF ControlInv, DownloadsOK
  <2>5. \A h \in Fetcher : h # g => dl'[h] = dl[h]
    BY <1>0, <2>1
  <2>6. dl'[g].pc = "sentinel" /\ dl'[g].model = m
    BY <1>0, <2>1
  <2> HIDE DEF m
  <2> QED BY <1>2, <1>3, <2>2, <2>3, <2>4, <2>5, <2>6
<1>10. ASSUME NEW g \in GcsFetcher, gcs!DownloadAdd(g), UNCHANGED dl
       PROVE  RoomOK' /\ EndsWhole'
  <2> DEFINE m == gcsDl[g].model
  <2>1. gcsDl[g].pc # "none" /\ AddModel(m, ModelSize)
    BY <1>10 DEF gcs!DownloadAdd, gcs!In, gcs!AddModel, AddModel
  <2>2. m \in Model /\ m \notin Downloaded("huggingface")
    BY <1>0, <2>1 DEF ControlInv, GcsDownloadsOK, OwnModels, Undivided
  <2>3. models' \subseteq models \union {m} /\ Charged'
    BY <1>0, <2>1, <2>2, AddCharges
  <2>4. \A h \in Fetcher : dl[h].pc # "none" => dl[h].model # m
    BY <2>2 DEF OwnModels
  <2> HIDE DEF m
  <2> QED BY <1>2, <1>3, <1>10, <2>3, <2>4
<1>11. ASSUME NEW g, NEW m \in Model, Evict(g, m) PROVE RoomOK' /\ EndsWhole'
  <2>1. models' \subseteq models /\ Charged' /\ UNCHANGED dl
    BY <1>0, <1>11, EvictCharges, EvictTakes
  <2> QED BY <1>2, <1>3, <2>1
<1> QED BY <1>0, <1>5, <1>6, <1>7, <1>8, <1>9, <1>10, <1>11, RoomKinds, NoCrash,
           NoScan

-----------------------------------------------------------------------------
(* The calls.                                                              *)

(* While a call is about to look at a channel, the goroutine behind it is  *)
(* at work on its model, until it closes the channel.                      *)
LEMMA ChannelKept ==
    ASSUME Undivided, ControlInv, Next, UNCHANGED call, NEW g \in Fetcher,
           call.pc = "select", call.ch = g,
           dl[g].pc # "none", dl[g].model = call.model
    PROVE  dl'[g].pc # "none" /\ dl'[g].model = call.model
<1>0. /\ dl \in [Fetcher -> Goroutine] /\ None \notin Fetcher
      /\ holder = g => dl[g].pc = "ensuring"
      /\ "ch" \in DOMAIN call
  BY CacheAssumption, ProviderAssumption DEF ControlInv, DownloadsOK, CallsOK
<1>1. ~ DownloadExit(g)
  <2>1. CASE DownloadExit(g)
    <3>1. call' = [call EXCEPT !.ch = None]
      BY <2>1 DEF DownloadExit, At
    <3> QED BY <1>0, <3>1
  <2> QED BY <2>1
<1>2. ~ DownloadModel
  BY DEF DownloadModel, At
<1>3. ASSUME NEW h \in Fetcher, GoroutineStep(h)
      PROVE  dl'[g].pc # "none" /\ dl'[g].model = call.model
  <2>1. GoroutineMove(h)
    BY <1>3, GoroutineMoves
  <2>2. CASE h # g
    BY <2>1, <2>2 DEF GoroutineMove
  <2>3. CASE h = g
    <3>1. dl'[g].pc # "none"
      BY <1>0, <1>1, <1>3, <2>3 DEF GoroutineStep, DownloadInfo,
         DownloadEnsureSpace, DownloadSpaceEnsured, DownloadSpaceRefused,
         DownloadMkdir, DownloadFile, DownloadAdd, DownloadAddFails,
         DownloadSentinel, DownloadFails, Step
    <3> QED BY <2>1, <2>3, <3>1 DEF GoroutineMove
  <2> QED BY <2>2, <2>3
<1> QED BY <1>2, <1>3, DownloadFrame, NoCrash

(* A call goes on without a hook when the model has an entry, or when the  *)
(* goroutine it found has ended.                                           *)
LEMMA CallKept ==
    ASSUME Undivided, ControlInv, NothingScanned, StubsOK, OwnModels, EndsWhole,
           CallWhole, Next
    PROVE  CallWhole'
<1> DEFINE Behind == call.pc = "select" /\ call.ch # None
           Later(k) == /\ k.pc \in {"again", "cached", "info", "done"}
                       /\ k.pc \in {"again", "cached"} \/ ~k.hook => Whole(k.model)
                       /\ k.pc = "done" => k.sha = FirstRev
           Early(k) == k.pc \in {"none", "stub", "find", "download"}
<1>0. /\ \A m : Whole(m) => Whole(m)'
      /\ \A m \in models : m \in Downloaded("huggingface") => Whole(m)
      /\ dirs \subseteq Downloaded("huggingface")
      /\ \A m \in Model : rev[m] = FirstRev
      /\ call.pc \in {"stub"} \union Waiting
            => call.model \in Downloaded("huggingface")
      /\ call \in [pc : CallPC, claim : Claim \union {None},
                   model : Model \union {None}, ch : Fetcher \union {None},
                   hook : BOOLEAN, sha : Rev \union {None}]
      /\ call.pc # "none" => call.model \in Model
      /\ dl \in [Fetcher -> Goroutine]
      /\ None \notin Fetcher
  BY DiskGrows, OneCommit, CacheAssumption, ProviderAssumption
     DEF OwnModels, StubsOK, ControlInv, CallsOK, DownloadsOK
<1>1. ASSUME Early(call') PROVE CallWhole'
  BY <1>1 DEF CallWhole, Unhooked
<1>2. ASSUME Later(call') PROVE CallWhole'
  BY <1>0, <1>2 DEF CallWhole, Unhooked
<1>3. ASSUME UNCHANGED call PROVE CallWhole'
  <2>1. Behind => dl'[call.ch].pc # "none" /\ dl'[call.ch].model = call.model
    BY <1>0, <1>3, ChannelKept DEF CallWhole
  <2> QED BY <1>0, <1>3, <2>1 DEF CallWhole, Unhooked
<1>4. NoCall.pc = "none"
  BY DEF NoCall
<1>5. CASE HfCallStep
  <2>1. CASE StubUse
    BY <1>0, <1>1, <1>2, <2>1 DEF StubUse, At, Goto
  <2>2. CASE DownloadModel
    <3>1. CASE call.model \in models
      <4>1. call' = [call EXCEPT !.pc = "again"]
        BY <2>2, <3>1 DEF DownloadModel, Goto
      <4>2. Whole(call.model)
        BY <1>0, <2>2, <3>1 DEF DownloadModel, At, Waiting
      <4> QED BY <1>0, <1>2, <4>1, <4>2
    <3>2. CASE /\ ongoing[call.model] # None
               /\ call' = [call EXCEPT !.pc = "select", !.ch = ongoing[call.model]]
               /\ UNCHANGED <<ongoing, dl>>
      <4> DEFINE g == ongoing[call.model]
      <4>1. call.model \in Model /\ g \in Fetcher
        BY <1>0, <2>2, <3>2 DEF DownloadModel, At, ControlInv, DownloadsOK
      <4>2. dl[g].pc # "none" /\ dl[g].model = call.model
        BY <4>1 DEF ControlInv, DownloadsOK
      <4>3. /\ call'.pc = "select" /\ call'.ch = g /\ call'.model = call.model
        BY <1>0, <3>2
      <4> HIDE DEF g
      <4> QED BY <1>0, <3>2, <4>1, <4>2, <4>3 DEF CallWhole, Unhooked
    <3>3. CASE call' = [call EXCEPT !.pc = "info", !.hook = TRUE]
      BY <1>0, <1>2, <3>3
    <3> QED BY <2>2, <3>1, <3>2, <3>3 DEF DownloadModel
  <2>3. CASE Select
    BY <1>0, <1>2, <2>3 DEF Select, At, CallWhole, Unhooked
  <2>4. CASE UseAgain
    BY <1>0, <1>2, <2>4 DEF UseAgain, At, Goto, CallWhole, Unhooked
  <2>5. CASE FindDevice
    <3>1. ASSUME NEW m \in Advertised,
                 call' = [call EXCEPT !.pc = "cached", !.model = m]
          PROVE  CallWhole'
      BY <1>0, <1>2, <3>1 DEF Advertised
    <3> QED BY <1>1, <1>4, <2>5, <3>1 DEF FindDevice, Return
  <2>6. CASE CachedUse
    BY <1>0, <1>1, <1>2, <1>4, <2>6 DEF CachedUse, At, Goto, Return, CallWhole,
       Unhooked
  <2>7. CASE SnapshotInfo
    BY <1>0, <1>2, <2>7 DEF SnapshotInfo, At, CallWhole, Unhooked
  <2> QED BY <1>5, <2>1, <2>2, <2>3, <2>4, <2>5, <2>6, <2>7 DEF HfCallStep
<1>6. ASSUME NEW c, NEW devices, NEW edits, Serve(c, devices, edits)
      PROVE  CallWhole'
  <2>1. \/ call' = NoCall
        \/ \E pc \in {"stub", "find"} : \E m :
              call' = [NoCall EXCEPT !.pc = pc, !.claim = c, !.model = m]
    BY <1>6 DEF Serve, PrepareFails
  <2> QED BY <1>1, <1>4, <2>1 DEF NoCall
<1>7. CASE CallStep
  BY <1>1, <1>3, <1>4, <1>5, <1>6, <1>7
     DEF CallStep, HfCallStep, NextDevice, CreateClaimSpecFile, PrepareFails,
         Prepared
<1>8. CASE \/ \E c \in Claim : Prepare(c)
           \/ CreateClaimSpecFileFails \/ SnapshotInfoFails
  BY <1>1, <1>4, <1>6, <1>8 DEF Prepare, CreateClaimSpecFileFails,
     SnapshotInfoFails, PrepareFails, Return
<1>9. ASSUME NEW g \in Fetcher, DownloadExit(g) PROVE CallWhole'
  <2>1. CASE At("select") /\ call.ch = g
    <3>1. Whole(call.model)
      BY <1>9, <2>1, <1>0 DEF DownloadExit, In, At, CallWhole, EndsWhole
    <3>2. call'.pc = "select" /\ call'.ch = None /\ call'.model = call.model
      BY <1>0, <1>9, <2>1 DEF DownloadExit, At
    <3> QED BY <1>0, <3>1, <3>2 DEF CallWhole, Unhooked
  <2>2. CASE ~ (At("select") /\ call.ch = g)
    BY <1>3, <1>9, <2>2 DEF DownloadExit
  <2> QED BY <2>1, <2>2
<1> QED BY <1>3, <1>7, <1>8, <1>9, CallFrame, NoCrash

-----------------------------------------------------------------------------
(* The edits, and the containers.                                          *)

(* An edit tells the container's runtime what its call found.              *)
LEMMA EditsKept ==
    ASSUME Undivided, ControlInv, NothingScanned, CallWhole, EditsWhole, Next
    PROVE  EditsWhole'
<1>0. /\ \A e \in prep.edits : EditWhole(e)
      /\ \A c \in Claim : \A e \in cdi[c] : EditWhole(e)
      /\ cdi \in [Claim -> SUBSET Edits]
  BY DEF EditsWhole, ControlInv, ClaimsOK
<1>1. \A e : EditWhole(e) => EditWhole(e)'
  BY DiskGrows DEF EditWhole
<1>2. Served => \A e \in Edited : EditWhole(e)
  <2> SUFFICES ASSUME Served, NEW e \in Edited, e \notin prep.edits
               PROVE  EditWhole(e)
    BY <1>0
  <2>1. CASE At("done")
    <3>1. /\ e.sha = call.sha /\ e.hook = call.hook /\ e.model = call.model
          /\ call.pc = "done"
      BY <2>1 DEF Edited, At
    <3> QED BY <3>1 DEF CallWhole, Unhooked, EditWhole
  <2>2. CASE ~ At("done")
    BY <2>2 DEF Edited, EditWhole
  <2> QED BY <2>1, <2>2
<1>3. /\ \/ prep'.edits \subseteq prep.edits
         \/ prep'.edits = {}
         \/ Served /\ prep'.edits = Edited
      /\ \/ UNCHANGED cdi
         \/ \E c \in Claim : cdi' = [cdi EXCEPT ![c] = {}]
         \/ Served /\ cdi' = [cdi EXCEPT ![prep.claim] = Edited]
  BY ClaimKinds, NoCrash DEF ClaimKind, Stays, CallEnds, Starting, NoPrep
<1>4. \A e \in prep'.edits : EditWhole(e)
  BY <1>0, <1>2, <1>3
<1>5. \A c \in Claim : \A e \in cdi'[c] : EditWhole(e)
  BY <1>0, <1>2, <1>3
<1> QED BY <1>1, <1>4, <1>5 DEF EditsWhole

(* README.md:147: "The `createContainer` hook ensures that the container   *)
(* will not start until the model is fully downloaded."  It holds of such a*)
(* process when no step of the Hugging Face provider fails and there is    *)
(* room for all models: a container without a hook has the model on the    *)
(* disk already, one with a hook starts when the sentinel is there, which  *)
(* is written last.                                                        *)
THEOREM StartedIsComplete == Undivided /\ Roomy => (Spec => StartsOnlyWhenComplete)
<1> SUFFICES ASSUME Undivided, Roomy PROVE Spec => StartsOnlyWhenComplete
  OBVIOUS
<1>1. Init => HookInv
  <2> SUFFICES ASSUME Init PROVE HookInv
    OBVIOUS
  <2>1. /\ models = {} /\ size = [m \in Model |-> 0] /\ currentSize = 0
        /\ dl = [g \in Fetcher |-> NoDownload] /\ call = NoCall
        /\ prep = NoPrep /\ cdi = [c \in Claim |-> {}]
    BY DEF Init, NewCacheManager, NewProvider
  <2>2. RoomOK
    <3>1. Cardinality(models) = 0
      BY <2>1, FS_EmptySet
    <3> QED BY <2>1, <3>1, ProviderAssumption DEF RoomOK, Charged, NoDownload
  <2>3. EndsWhole
    BY <2>1 DEF EndsWhole, NoDownload
  <2>4. CallWhole
    BY <2>1 DEF CallWhole, Unhooked, NoCall
  <2>5. EditsWhole
    BY <2>1 DEF EditsWhole, NoPrep
  <2> QED BY <2>2, <2>3, <2>4, <2>5 DEF HookInv
<1>2. HookInv /\ SliceInv /\ DownloadInv /\ Next => HookInv'
  <2> SUFFICES ASSUME HookInv, SliceInv, DownloadInv, Next PROVE HookInv'
    OBVIOUS
  <2> QED BY RoomKept, CallKept, EditsKept DEF HookInv, SliceInv, DownloadInv
<1>3. HookInv /\ UNCHANGED vars => HookInv'
  BY DEF HookInv, RoomOK, Charged, EndsWhole, CallWhole, Unhooked, EditsWhole,
         EditWhole, Whole, Complete
<1>4. HookInv /\ SliceInv /\ DownloadInv /\ [Next]_vars => HookInv'
  BY <1>2, <1>3
<1>5. ASSUME HookInv, DownloadInv, Next, NEW c \in Claim,
             st[c] # "running", st'[c] = "running",
             NEW e \in cdi[c], e.provider = "huggingface"
      PROVE  Complete(e.model, e.sha)
  <2>1. StartContainer(c)
    <3>1. ClaimsOK /\ (Prepared => prep.claim \in Claim)
      BY <1>5 DEF DownloadInv, ControlInv, Prepared, PrepOK
    <3> QED BY <1>5, <3>1, ClaimFrame DEF ClaimsOK, Prepared, StartContainer,
               StopPod, Unprepare, Allocate
  <2>2. Starts(e)
    BY <1>5, <2>1 DEF StartContainer
  <2>3. e.sha = FirstRev /\ (e.hook \/ Whole(e.model))
    BY <1>5 DEF HookInv, EditsWhole, EditWhole
  <2>4. CASE e.hook
    <3>1. <<e.model, e.sha>> \in sentinel
      BY <1>5, <2>2, <2>4 DEF Starts
    <3>2. e.model \in Model
      BY <1>5 DEF DownloadInv, ControlInv, ClaimsOK, Edits
    <3>3. e.sha = rev[e.model]
      BY <1>5, <2>3, <3>2, OneCommit DEF DownloadInv
    <3> QED BY <1>5, <3>1, <3>3 DEF DownloadInv, SentinelMeansComplete
  <2>5. CASE Whole(e.model)
    BY <2>3, <2>5 DEF Whole
  <2> QED BY <2>3, <2>4, <2>5
<1>6. HookInv /\ DownloadInv /\ [Next]_vars =>
         [\A c \in Claim : st[c] # "running" /\ st'[c] = "running"
             => \A e \in cdi[c] : e.provider = "huggingface"
                                     => Complete(e.model, e.sha)]_vars
  BY <1>5
<1>7. Spec => []HookInv
  BY <1>1, <1>4, SliceCorrect, DownloadsCorrect, PTL DEF Spec
<1> QED BY <1>6, <1>7, DownloadsCorrect, PTL DEF Spec, StartsOnlyWhenComplete
=============================================================================
