----------------------- MODULE PluginDownloads_proofs -----------------------
(* Proofs about what the downloads of ModelCachePlugin leave on the disk.  *)
EXTENDS ModelCachePlugin_proofs

USE DEF cacheVars, entries, Unlocked, Notify, Insert, Touch, gcs!cacheVars,
        gcs!entries, gcs!Unlocked, gcs!Notify, gcs!Insert, gcs!Touch, diskVars,
        providerVars, gcsVars, gcs!diskVars, gcs!providerVars, plugVars,
        faultVars, nodeVars, vars, Goroutine

(* Commits come one after the other, and nobody is ahead of the hub.       *)
RevsOK == /\ \A m \in Model : FirstRev <= rev[m]
          /\ \A x \in sentinel : x[2] <= rev[x[1]]
          /\ \A g \in Fetcher : Fetching(dl[g]) => /\ FirstRev <= dl[g].sha
                                                   /\ dl[g].sha <= rev[dl[g].model]

(* A goroutine whose commit is still that of the repository has on the disk*)
(* what it has ticked off.                                                 *)
ProgressOK ==
    \A g \in Fetcher :
       /\ dl[g].pc \in {"space", "ensuring", "mkdir"} => dl[g].todo = File
       /\ dl[g].pc = "files" /\ dl[g].sha = rev[dl[g].model] =>
             \A f \in File \ dl[g].todo : <<dl[g].model, dl[g].sha, f>> \in disk
       /\ dl[g].pc = "sentinel" /\ dl[g].sha = rev[dl[g].model] =>
             Complete(dl[g].model, dl[g].sha)

(* A model that is being downloaded is not one the scan found, so no       *)
(* eviction removes its directory.                                         *)
NotScanned == /\ \A g \in Fetcher : dl[g].pc # "none" => path[dl[g].model] \notin Provider
              /\ \A g \in GcsFetcher :
                    gcsDl[g].pc # "none" => path[gcsDl[g].model] \notin Provider

GcsProgressOK == \A g \in GcsFetcher :
                    gcsDl[g].pc = "add" => gcsDl[g].model \in gcsBuckets \union razed

DownloadInv == /\ ControlInv /\ RevsOK /\ ProgressOK /\ NotScanned /\ GcsProgressOK
               /\ SentinelMeansComplete /\ AddedMeansComplete

-----------------------------------------------------------------------------
(* Who changes the entries, the disk and the goroutines.                   *)
LEMMA DownloadKinds ==
    ASSUME Next
    PROVE  \/ UNCHANGED <<dl, rev, diskVars, gcsDl, gcsBuckets, razed, models, path>>
           \/ Crash
           \/ \E m \in Model : Scan(m)
           \/ /\ DownloadModel
              /\ UNCHANGED <<rev, diskVars, gcsDl, gcsBuckets, razed, models, path>>
           \/ /\ gcs!DownloadModel
              /\ UNCHANGED <<dl, rev, diskVars, gcsBuckets, razed, models, path>>
           \/ \E g \in Fetcher : /\ GoroutineStep(g)
                                 /\ UNCHANGED <<gcsDl, gcsBuckets, razed>>
           \/ \E g \in GcsFetcher : /\ GcsGoroutineStep(g)
                                    /\ UNCHANGED <<dl, rev, diskVars, razed>>
           \/ \E g \in Fetcher \union GcsFetcher, m \in Model : Evict(g, m)
           \/ \E m \in Model : Push(m)
<1>1. CASE Start \/ RunOnUpdate
  BY <1>1 DEF Start, NewDriver, RunOnUpdate, SetOnUpdate
<1>2. CASE Failure
  BY <1>2 DEF Failure, CreateClaimSpecFileFails, SnapshotInfoFails,
          DownloadFails, DownloadAddFails, gcs!DownloadFails,
          gcs!DownloadAddFails, GoroutineStep, GcsGoroutineStep
<1>3. CASE CallStep
  BY <1>3 DEF CallStep, StubUse, DownloadModel, Select, UseAgain, FindDevice,
     CachedUse, SnapshotInfo, gcs!StubUse, gcs!DownloadModel, gcs!Select,
     gcs!UseAgain, gcs!FindDevice, gcs!CachedUse, gcs!StatDirectory, UseModel,
     gcs!UseModel, NextDevice, CreateClaimSpecFile, Prepared
<1>4. ASSUME NEW g \in Fetcher, DownloadStep(g)
      PROVE  \/ GoroutineStep(g) /\ UNCHANGED <<gcsDl, gcsBuckets, razed>>
             \/ \E m \in Model : Evict(g, m)
  BY <1>4 DEF DownloadStep, GoroutineStep
<1>5. ASSUME NEW g \in GcsFetcher, GcsDownloadStep(g)
      PROVE  \/ GcsGoroutineStep(g) /\ UNCHANGED <<dl, rev, diskVars, razed>>
             \/ \E m \in Model : Evict(g, m)
  BY <1>5 DEF GcsDownloadStep, GcsGoroutineStep
<1>6. ASSUME NEW c \in Claim,
             \/ Prepare(c) \/ StartContainer(c) \/ StopPod(c) \/ Unprepare(c)
             \/ \E s \in ClaimSpec : Allocate(c, s)
      PROVE  UNCHANGED <<dl, rev, diskVars, gcsDl, gcsBuckets, razed, models, path>>
  BY <1>6 DEF Prepare, StartContainer, StopPod, Unprepare, Allocate
<1> QED BY <1>1, <1>2, <1>3, <1>4, <1>5, <1>6 DEF Next

(* What a step of a goroutine does to its variables, the disk and the      *)
(* entries.                                                                *)
GoroutineMove(g) ==
    /\ \A h \in Fetcher : h # g => dl'[h] = dl[h]
    /\ dl[g].pc # "none" /\ dl[g].model \in Model
    /\ dl'[g].pc = "none" \/ dl'[g].model = dl[g].model
    /\ UNCHANGED rev
    /\ \/ dl'[g].pc \in {"none", "exit"}
       \/ /\ dl'[g].pc = "space"
          /\ dl'[g].sha = rev[dl[g].model] /\ dl'[g].todo = File
       \/ /\ dl'[g].sha = dl[g].sha /\ dl'[g].todo = dl[g].todo
          /\ Fetching(dl[g])
          /\ \/ dl[g].pc \in {"space", "ensuring"} /\ dl'[g].pc \in {"ensuring", "mkdir"}
             \/ dl[g].pc = "mkdir" /\ dl'[g].pc = "files"
             \/ dl[g].pc = "files" /\ dl[g].todo = {} /\ dl'[g].pc = "sentinel"
       \/ \E f \in File :
             /\ dl'[g].sha = dl[g].sha
             /\ dl[g].pc = "files" /\ dl'[g].pc = "files"
             /\ dl'[g].todo = dl[g].todo \ {f}
             /\ disk' = disk \union {<<dl[g].model, rev[dl[g].model], f>>}
    /\ disk \subseteq disk'
    /\ \/ UNCHANGED sentinel
       \/ /\ dl[g].pc = "sentinel"
          /\ sentinel' = sentinel \union {<<dl[g].model, dl[g].sha>>}
    /\ \/ UNCHANGED <<models, path>>
       \/ /\ dl[g].pc = "files" /\ dl[g].todo = {}
          /\ models' = models \union {dl[g].model}
          /\ path' = [path EXCEPT ![dl[g].model] = "joined"]

(* Each step of a Hugging Face goroutine is such a move.                   *)
LEMMA GoroutineMoves ==
    ASSUME ControlInv, NEW g \in Fetcher, GoroutineStep(g)
    PROVE  GoroutineMove(g)
<1>0. dl \in [Fetcher -> Goroutine]
  BY DEF ControlInv, DownloadsOK
<1>1. dl[g].pc # "none" => dl[g].model \in Model
  BY DEF ControlInv, DownloadsOK
<1>2. holder = g => dl[g].pc = "ensuring"
  BY DEF ControlInv, DownloadsOK
<1>3. CASE DownloadInfo(g)
  BY <1>0, <1>1, <1>3 DEF DownloadInfo, In, GoroutineMove
<1>4. CASE DownloadEnsureSpace(g) \/ DownloadSpaceEnsured(g)
           \/ DownloadSpaceRefused(g)
  BY <1>0, <1>1, <1>2, <1>4 DEF DownloadEnsureSpace, DownloadSpaceEnsured,
     DownloadSpaceRefused, EnsureSpace, SpaceEnsured, SpaceRefused, In, Step,
     Fetching, GoroutineMove
<1>5. CASE DownloadMkdir(g) \/ DownloadAddFails(g) \/ DownloadSentinel(g)
           \/ DownloadFails(g)
  BY <1>0, <1>1, <1>5 DEF DownloadMkdir, DownloadAddFails, DownloadSentinel,
     DownloadFails, Fetched, In, Step, Fetching, GoroutineMove
<1>6. CASE DownloadAdd(g)
  <2>1. \/ UNCHANGED <<models, path>>
        \/ /\ models' = models \union {dl[g].model}
           /\ path' = [path EXCEPT ![dl[g].model] = "joined"]
    BY <1>6 DEF DownloadAdd, AddModel
  <2> QED BY <1>0, <1>1, <1>6, <2>1 DEF DownloadAdd, Fetched, In, Step,
             Fetching, GoroutineMove
<1>7. ASSUME NEW f \in File, DownloadFile(g, f) PROVE GoroutineMove(g)
  BY <1>0, <1>1, <1>7 DEF DownloadFile, In, GoroutineMove
<1>8. CASE DownloadExit(g)
  BY <1>0, <1>1, <1>8 DEF DownloadExit, In, NoDownload, GoroutineMove
<1> QED BY <1>3, <1>4, <1>5, <1>6, <1>7, <1>8 DEF GoroutineStep

(* The same of a goroutine of the GCS provider.                            *)
GcsGoroutineMove(g) ==
    /\ \A h \in GcsFetcher : h # g => gcsDl'[h] = gcsDl[h]
    /\ gcsDl[g].pc # "none" /\ gcsDl[g].model \in Model
    /\ gcsDl'[g].pc = "none" \/ gcsDl'[g].model = gcsDl[g].model
    /\ gcsDl'[g].pc = "add" => gcsDl[g].model \in gcsBuckets'
    /\ gcsBuckets \subseteq gcsBuckets'
    /\ \/ UNCHANGED <<models, path>>
       \/ /\ gcsDl[g].pc = "add"
          /\ models' = models \union {gcsDl[g].model}
          /\ path' = [path EXCEPT ![gcsDl[g].model] = "joined"]

(* Each step of a GCS goroutine is such a move.                            *)
LEMMA GcsGoroutineMoves ==
    ASSUME ControlInv, NEW g \in GcsFetcher, GcsGoroutineStep(g)
    PROVE  GcsGoroutineMove(g)
<1>0. gcsDl \in [GcsFetcher -> [pc : GcsDownloadPC, model : Model \union {None}]]
  BY DEF ControlInv, GcsDownloadsOK
<1>1. gcsDl[g].pc # "none" => gcsDl[g].model \in Model
  BY DEF ControlInv, GcsDownloadsOK
<1>2. holder = g => gcsDl[g].pc = "ensuring"
  BY DEF ControlInv, GcsDownloadsOK
<1>3. CASE gcs!DownloadEnsureSpace(g) \/ gcs!DownloadSpaceEnsured(g)
           \/ gcs!DownloadSpaceRefused(g)
  BY <1>0, <1>1, <1>2, <1>3 DEF gcs!DownloadEnsureSpace,
     gcs!DownloadSpaceEnsured, gcs!DownloadSpaceRefused, gcs!EnsureSpace,
     gcs!SpaceEnsured, gcs!SpaceRefused, gcs!In, gcs!Step, GcsGoroutineMove
<1>4. CASE gcs!DownloadMkdir(g) \/ gcs!DownloadAddFails(g)
           \/ gcs!DownloadSentinel(g) \/ gcs!DownloadFails(g)
  BY <1>0, <1>1, <1>4 DEF gcs!DownloadMkdir, gcs!DownloadAddFails,
     gcs!DownloadSentinel, gcs!DownloadFails, gcs!In, gcs!Step, GcsGoroutineMove
<1>5. CASE gcs!DownloadAdd(g)
  <2>1. \/ UNCHANGED <<models, path>>
        \/ /\ models' = models \union {gcsDl[g].model}
           /\ path' = [path EXCEPT ![gcsDl[g].model] = "joined"]
    BY <1>5 DEF gcs!DownloadAdd, gcs!AddModel
  <2> QED BY <1>0, <1>1, <1>5, <2>1 DEF gcs!DownloadAdd, gcs!In, gcs!Step,
             GcsGoroutineMove
<1>6. CASE gcs!DownloadExit(g)
  BY <1>0, <1>1, <1>6 DEF gcs!DownloadExit, gcs!In, gcs!NoDownload,
     GcsGoroutineMove
<1> QED BY <1>3, <1>4, <1>5, <1>6 DEF GcsGoroutineStep

(* A download starts for a model that has no entry.                        *)
LEMMA DownloadStarts ==
    ASSUME ControlInv, DownloadModel
    PROVE  \/ UNCHANGED dl
           \/ \E g \in Fetcher : /\ \A h \in Fetcher : h # g => dl'[h] = dl[h]
                                 /\ dl[g].pc = "none" /\ dl'[g].pc = "info"
                                 /\ dl'[g].model = call.model
                                 /\ call.model \in Model \ models
<1>1. dl \in [Fetcher -> Goroutine] /\ call.model \in Model
  BY DEF ControlInv, DownloadsOK, CallsOK, DownloadModel, At
<1>2. ASSUME NEW g \in Fetcher, dl[g].pc = "none", call.model \notin models,
             dl' = [dl EXCEPT ![g] = [NoDownload EXCEPT
                                        !.pc = "info", !.model = call.model]]
      PROVE  /\ \A h \in Fetcher : h # g => dl'[h] = dl[h]
             /\ dl'[g].pc = "info" /\ dl'[g].model = call.model
  BY <1>1, <1>2 DEF NoDownload
<1> QED BY <1>1, <1>2 DEF DownloadModel

(* The same of the GCS provider.                                           *)
LEMMA GcsDownloadStarts ==
    ASSUME ControlInv, gcs!DownloadModel
    PROVE  \/ UNCHANGED gcsDl
           \/ \E g \in GcsFetcher :
                 /\ \A h \in GcsFetcher : h # g => gcsDl'[h] = gcsDl[h]
                 /\ gcsDl[g].pc = "none" /\ gcsDl'[g].pc = "space"
                 /\ gcsDl'[g].model = gcsCall.model
                 /\ gcsCall.model \in Model \ models
<1>1. /\ gcsDl \in [GcsFetcher -> [pc : GcsDownloadPC, model : Model \union {None}]]
      /\ gcsCall.model \in Model
  BY DEF ControlInv, GcsDownloadsOK, CallsOK, gcs!DownloadModel, gcs!At
<1> QED BY <1>1 DEF gcs!DownloadModel

(* What is scanned before the process is up is no model of a goroutine;    *)
(* what is evicted later and has a directory was scanned.                  *)
LEMMA NotScannedKept == ASSUME DownloadInv, Next PROVE NotScanned'
<1>0. /\ NotScanned /\ ControlInv /\ path \in [Model -> Provider \union {"none", "joined"}]
      /\ EntriesOfModels
  BY DEF DownloadInv, ControlInv, CacheInv, CacheTypeOK
<1>00. "none" \notin Provider /\ "joined" \notin Provider
  BY DEF Provider
<1> USE <1>0, <1>00
<1>1. CASE UNCHANGED <<dl, gcsDl, path>>
  BY <1>1 DEF NotScanned
<1>2. ASSUME \A g \in Fetcher : dl[g].pc = "none",
             \A g \in GcsFetcher : gcsDl[g].pc = "none",
             UNCHANGED <<dl, gcsDl>>
      PROVE  NotScanned'
  BY <1>2 DEF NotScanned
<1>3. CASE Crash
  BY <1>3 DEF Crash, RestartProvider, gcs!RestartGCSProvider, NoDownload,
     gcs!NoDownload, NotScanned
<1>4. ASSUME NEW m \in Model, Scan(m) PROVE NotScanned'
  <2>1. /\ dl = [g \in Fetcher |-> NoDownload]
        /\ gcsDl = [g \in GcsFetcher |-> gcs!NoDownload]
    BY <1>4 DEF Scan, ControlInv, DownOK
  <2>2. UNCHANGED <<dl, gcsDl>>
    BY <1>4 DEF Scan
  <2> QED BY <1>2, <2>1, <2>2 DEF NoDownload, gcs!NoDownload
<1>5. CASE DownloadModel /\ UNCHANGED <<gcsDl, path>>
  <2>1. \A m \in Model \ models : path[m] = "none"
    BY DEF EntriesOfModels
  <2> QED BY <1>5, <2>1, DownloadStarts DEF NotScanned
<1>6. CASE gcs!DownloadModel /\ UNCHANGED <<dl, path>>
  <2>1. \A m \in Model \ models : path[m] = "none"
    BY DEF EntriesOfModels
  <2> QED BY <1>6, <2>1, GcsDownloadStarts DEF NotScanned
<1>7. ASSUME NEW g \in Fetcher, GoroutineStep(g), UNCHANGED gcsDl
      PROVE  NotScanned'
  <2>1. GoroutineMove(g)
    BY <1>7, GoroutineMoves
  <2>2. \A m \in Model : path[m] \notin Provider => path'[m] \notin Provider
    BY <2>1 DEF GoroutineMove
  <2>3. \A h \in GcsFetcher : gcsDl[h].pc # "none" => gcsDl[h].model \in Model
    BY DEF ControlInv, GcsDownloadsOK
  <2>4. \A h \in Fetcher : dl[h].pc # "none" => dl[h].model \in Model
    BY DEF ControlInv, DownloadsOK
  <2> QED BY <1>7, <2>1, <2>2, <2>3, <2>4 DEF NotScanned, GoroutineMove
<1>8. ASSUME NEW g \in GcsFetcher, GcsGoroutineStep(g), UNCHANGED dl
      PROVE  NotScanned'
  <2>1. GcsGoroutineMove(g)
    BY <1>8, GcsGoroutineMoves
  <2>2. \A m \in Model : path[m] \notin Provider => path'[m] \notin Provider
    BY <2>1 DEF GcsGoroutineMove
  <2>3. \A h \in GcsFetcher : gcsDl[h].pc # "none" => gcsDl[h].model \in Model
    BY DEF ControlInv, GcsDownloadsOK
  <2>4. \A h \in Fetcher : dl[h].pc # "none" => dl[h].model \in Model
    BY DEF ControlInv, DownloadsOK
  <2> QED BY <1>8, <2>1, <2>2, <2>3, <2>4 DEF NotScanned, GcsGoroutineMove
<1>9. ASSUME NEW g, NEW m \in Model, Evict(g, m) PROVE NotScanned'
  <2>1. path' = [path EXCEPT ![m] = "none"] /\ UNCHANGED <<dl, gcsDl>>
    BY <1>9 DEF Evict, EvictLRU
  <2>2. \A n : n \in Model /\ path[n] \notin Provider => path'[n] \notin Provider
    BY <2>1
  <2>3. /\ \A h \in GcsFetcher : gcsDl[h].pc # "none" => gcsDl[h].model \in Model
        /\ \A h \in Fetcher : dl[h].pc # "none" => dl[h].model \in Model
    BY DEF ControlInv, DownloadsOK, GcsDownloadsOK
  <2> QED BY <2>1, <2>2, <2>3 DEF NotScanned
<1>10. ASSUME NEW m \in Model, Push(m) PROVE NotScanned'
  BY <1>1, <1>10 DEF Push
<1> QED BY DownloadKinds, <1>1, <1>3, <1>4, <1>5, <1>6, <1>7, <1>8, <1>9, <1>10

(* What an eviction takes: the entry, and with it the directory the scan   *)
(* found, if any.                                                          *)
LEMMA EvictTakes ==
    ASSUME ControlInv, NEW g, NEW m \in Model, Evict(g, m)
    PROVE  /\ UNCHANGED <<dl, rev, gcsDl>>
           /\ models' = models \ {m} /\ path' = [path EXCEPT ![m] = "none"]
           /\ sentinel' \subseteq sentinel
           /\ UNCHANGED disk \/ path[m] \in Provider
           /\ \A n, r, f : n # m /\ <<n, r, f>> \in disk => <<n, r, f>> \in disk'
           /\ \A x \in sentinel' : x[1] # m \/ UNCHANGED disk
           /\ \A n \in gcsBuckets \union razed :
                 n # m \/ path[m] \notin Provider => n \in gcsBuckets' \union razed'
<1>1. /\ UNCHANGED <<dl, rev, gcsDl>> /\ EvictLRU(g, m, ModelSize)
      /\ RemoveSnapshots(m) /\ gcs!RemoveBucket(m)
      /\ razed' = razed \union (gcsBuckets \ (gcsBuckets' \union {m}))
  BY <1>1 DEF Evict
<1>2. models' = models \ {m} /\ path' = [path EXCEPT ![m] = "none"]
  BY <1>1 DEF EvictLRU
<1>3. CASE path[m] = "huggingface"
  <2>1. /\ disk' = {x \in disk : x[1] # m} /\ sentinel' = {x \in sentinel : x[1] # m}
        /\ UNCHANGED gcsBuckets
    BY <1>1, <1>3 DEF RemoveSnapshots, gcs!RemoveBucket
  <2>2. path[m] \in Provider
    BY <1>3 DEF Provider
  <2> QED BY <1>1, <1>2, <2>1, <2>2
<1>4. CASE path[m] # "huggingface"
  <2>1. UNCHANGED <<disk, sentinel>>
    BY <1>1, <1>4 DEF RemoveSnapshots
  <2>2. path[m] \notin Provider => UNCHANGED gcsBuckets
    BY <1>1 DEF gcs!RemoveBucket, Provider
  <2> QED BY <1>1, <1>2, <2>1, <2>2
<1> QED BY <1>3, <1>4

(* Commits only move on.                                                   *)
LEMMA RevsKept == ASSUME DownloadInv, Next PROVE RevsOK'
<1>0. /\ RevsOK /\ ControlInv /\ rev \in [Model -> Rev] /\ Rev \subseteq Nat
      /\ sentinel \subseteq Model \X Rev
      /\ \A g \in Fetcher : dl[g].pc # "none" => dl[g].model \in Model
      /\ \A g \in Fetcher : Fetching(dl[g]) => dl[g].sha \in Rev
  BY FaultAssumption DEF DownloadInv, ControlInv, DiskOK, DownloadsOK
<1>1. CASE UNCHANGED <<dl, rev, sentinel>>
  BY <1>0, <1>1 DEF RevsOK
<1>2. CASE Crash
  <2>1. \A g \in Fetcher : dl'[g].pc = "none"
    BY <1>2 DEF Crash, RestartProvider, NoDownload
  <2> QED BY <1>0, <1>2, <2>1 DEF Crash, RevsOK, Fetching
<1>3. CASE DownloadModel /\ UNCHANGED <<rev, diskVars>>
  BY <1>0, <1>3, DownloadStarts DEF RevsOK, Fetching
<1>4. ASSUME NEW g \in Fetcher, GoroutineStep(g) PROVE RevsOK'
  <2>1. GoroutineMove(g)
    BY <1>0, <1>4, GoroutineMoves
  <2>2. \A x \in sentinel' : x[2] <= rev'[x[1]]
    BY <1>0, <2>1 DEF GoroutineMove, RevsOK, Fetching
  <2>3. Fetching(dl'[g]) => /\ FirstRev <= dl'[g].sha
                            /\ dl'[g].sha <= rev'[dl'[g].model]
    <3>1. rev[dl[g].model] \in Nat
      BY <1>0, <2>1 DEF GoroutineMove
    <3> QED BY <1>0, <2>1, <3>1 DEF GoroutineMove, RevsOK, Fetching
  <2> QED BY <1>0, <2>1, <2>2, <2>3 DEF GoroutineMove, RevsOK
<1>5. ASSUME NEW g, NEW m \in Model, Evict(g, m) PROVE RevsOK'
  BY <1>0, <1>5, EvictTakes DEF RevsOK
<1>6. ASSUME NEW m \in Model, Push(m) PROVE RevsOK'
  <2>1. /\ rev' = [rev EXCEPT ![m] = rev[m] + 1] /\ UNCHANGED <<dl, sentinel>>
    BY <1>6 DEF Push
  <2>2. \A n \in Model : rev[n] <= rev'[n] /\ rev[n] \in Nat /\ rev'[n] \in Nat
    <3> TAKE n \in Model
    <3>1. rev[n] \in Nat /\ rev[m] \in Nat
      BY <1>0
    <3>2. rev'[n] = IF n = m THEN rev[m] + 1 ELSE rev[n]
      BY <1>0, <2>1
    <3> QED BY <3>1, <3>2
  <2>3. \A g \in Fetcher : Fetching(dl[g]) => dl[g].model \in Model /\ dl[g].sha \in Nat
    BY <1>0 DEF Fetching
  <2>4. \A x \in sentinel : x[1] \in Model /\ x[2] \in Nat
    BY <1>0
  <2>5. FirstRev \in Nat
    BY DEF FirstRev
  <2> QED BY <1>0, <2>1, <2>2, <2>3, <2>4, <2>5 DEF RevsOK
<1>7. ASSUME NEW m \in Model, Scan(m) PROVE RevsOK'
  BY <1>1, <1>7 DEF Scan
<1> QED BY <1>0, <1>1, <1>2, <1>3, <1>4, <1>5, <1>6, <1>7, DownloadKinds

(* A goroutine keeps what it has ticked off, since nobody evicts it, or the*)
(* repository has moved on.                                                *)
LEMMA ProgressKept == ASSUME DownloadInv, Next PROVE ProgressOK' /\ SentinelMeansComplete'
<1>0. /\ ProgressOK /\ SentinelMeansComplete /\ RevsOK /\ NotScanned /\ ControlInv
      /\ rev \in [Model -> Rev] /\ Rev \subseteq Nat
      /\ sentinel \subseteq Model \X Rev
      /\ \A g \in Fetcher : dl[g].pc # "none" => dl[g].model \in Model
      /\ \A g \in Fetcher : Fetching(dl[g]) => dl[g].sha \in Rev
  BY FaultAssumption DEF DownloadInv, ControlInv, DiskOK, DownloadsOK
<1>1. CASE UNCHANGED <<dl, rev, disk, sentinel>>
  BY <1>0, <1>1 DEF ProgressOK, SentinelMeansComplete, Complete
<1>2. CASE Crash
  <2>1. \A g \in Fetcher : dl'[g].pc = "none"
    BY <1>2 DEF Crash, RestartProvider, NoDownload
  <2> QED BY <1>0, <1>2, <2>1 DEF Crash, ProgressOK, SentinelMeansComplete, Complete
<1>3. CASE DownloadModel /\ UNCHANGED <<rev, diskVars>>
  <2>1. SentinelMeansComplete'
    BY <1>0, <1>3 DEF SentinelMeansComplete, Complete
  <2>2. ProgressOK'
    BY <1>0, <1>3, DownloadStarts DEF ProgressOK, Complete
  <2> QED BY <2>1, <2>2
<1>4. ASSUME NEW g \in Fetcher, GoroutineStep(g)
      PROVE  ProgressOK' /\ SentinelMeansComplete'
  <2>1. GoroutineMove(g)
    BY <1>0, <1>4, GoroutineMoves
  <2>2. \A m, r : Complete(m, r) => Complete(m, r)'
    BY <2>1 DEF Complete, GoroutineMove
  <2>3. SentinelMeansComplete'
    <3>1. CASE UNCHANGED sentinel
      BY <1>0, <2>1, <2>2, <3>1 DEF SentinelMeansComplete, GoroutineMove
    <3>2. CASE /\ dl[g].pc = "sentinel"
               /\ sentinel' = sentinel \union {<<dl[g].model, dl[g].sha>>}
      <4>1. dl[g].sha = rev[dl[g].model] => Complete(dl[g].model, dl[g].sha)
        BY <1>0, <3>2 DEF ProgressOK
      <4> QED BY <1>0, <2>1, <2>2, <3>2, <4>1 DEF SentinelMeansComplete, GoroutineMove
    <3> QED BY <2>1, <3>1, <3>2 DEF GoroutineMove
  <2>4. ASSUME NEW h \in Fetcher
        PROVE  /\ dl'[h].pc \in {"space", "ensuring", "mkdir"} => dl'[h].todo = File
               /\ dl'[h].pc = "files" /\ dl'[h].sha = rev'[dl'[h].model] =>
                     \A f \in File \ dl'[h].todo :
                        <<dl'[h].model, dl'[h].sha, f>> \in disk'
               /\ dl'[h].pc = "sentinel" /\ dl'[h].sha = rev'[dl'[h].model] =>
                     Complete(dl[h].model, dl[h].sha)'
    <3>1. CASE h # g
      BY <1>0, <2>1, <2>2, <3>1 DEF ProgressOK, GoroutineMove
    <3>2. CASE h = g /\ dl'[g].pc \in {"none", "exit", "space", "ensuring", "mkdir"}
      BY <1>0, <2>1, <3>2 DEF ProgressOK, GoroutineMove, Fetching
    <3>3. CASE h = g /\ dl'[g].pc = "files"
      BY <1>0, <2>1, <3>3 DEF ProgressOK, GoroutineMove
    <3>4. CASE h = g /\ dl'[g].pc = "sentinel"
      <4>1. /\ dl[g].pc = "files" /\ dl[g].todo = {} /\ dl'[g].sha = dl[g].sha
            /\ dl'[g].model = dl[g].model /\ UNCHANGED rev /\ disk \subseteq disk'
        BY <2>1, <3>4 DEF GoroutineMove
      <4> QED BY <1>0, <3>4, <4>1 DEF ProgressOK, Complete
    <3> QED BY <2>1, <3>1, <3>2, <3>3, <3>4 DEF GoroutineMove
  <2> QED BY <2>3, <2>4 DEF ProgressOK
<1>5. ASSUME NEW g, NEW m \in Model, Evict(g, m)
      PROVE  ProgressOK' /\ SentinelMeansComplete'
  <2>1. /\ UNCHANGED <<dl, rev>> /\ sentinel' \subseteq sentinel
        /\ UNCHANGED disk \/ path[m] \in Provider
        /\ \A n, r, f : n # m /\ <<n, r, f>> \in disk => <<n, r, f>> \in disk'
        /\ \A x \in sentinel' : x[1] # m \/ UNCHANGED disk
    BY <1>0, <1>5, EvictTakes
  <2>2. \A n, r : (n # m \/ UNCHANGED disk) /\ Complete(n, r) => Complete(n, r)'
    BY <2>1 DEF Complete
  <2>3. SentinelMeansComplete'
    BY <1>0, <2>1, <2>2 DEF SentinelMeansComplete
  <2>4. \A g2 \in Fetcher : dl[g2].pc # "none" => dl[g2].model # m \/ UNCHANGED disk
    BY <1>0, <2>1 DEF NotScanned
  <2> QED BY <1>0, <2>1, <2>2, <2>3, <2>4 DEF ProgressOK
<1>6. ASSUME NEW m \in Model, Push(m)
      PROVE  ProgressOK' /\ SentinelMeansComplete'
  <2>1. rev' = [rev EXCEPT ![m] = rev[m] + 1] /\ UNCHANGED <<dl, disk, sentinel>>
    BY <1>6 DEF Push
  <2>2. /\ \A n \in Model : rev[n] \in Nat
        /\ \A g \in Fetcher : Fetching(dl[g]) => dl[g].model \in Model /\ dl[g].sha \in Nat
        /\ \A x \in sentinel : x[1] \in Model /\ x[2] \in Nat
    BY <1>0 DEF Fetching
  <2>3. /\ \A x \in sentinel : x[2] = rev'[x[1]] => x[2] = rev[x[1]]
        /\ \A g \in Fetcher : Fetching(dl[g]) /\ dl[g].sha = rev'[dl[g].model]
                                => dl[g].sha = rev[dl[g].model]
    BY <1>0, <2>1, <2>2 DEF RevsOK
  <2> QED BY <1>0, <2>1, <2>3 DEF ProgressOK, SentinelMeansComplete, Complete, Fetching
<1>7. ASSUME NEW m \in Model, Scan(m)
      PROVE  ProgressOK' /\ SentinelMeansComplete'
  BY <1>1, <1>7 DEF Scan
<1> QED BY <1>0, <1>1, <1>2, <1>3, <1>4, <1>5, <1>6, <1>7, DownloadKinds

(* What the GCS provider made a directory for keeps it, or the directory   *)
(* went with the one around it.                                            *)
LEMMA GcsProgressKept == ASSUME DownloadInv, Next PROVE GcsProgressOK'
<1>0. GcsProgressOK /\ NotScanned /\ ControlInv
  BY DEF DownloadInv
<1>1. CASE UNCHANGED <<gcsDl, gcsBuckets, razed>>
  BY <1>0, <1>1 DEF GcsProgressOK
<1>2. CASE Crash
  BY <1>2 DEF Crash, gcs!RestartGCSProvider, gcs!NoDownload, GcsProgressOK
<1>3. CASE gcs!DownloadModel /\ UNCHANGED <<gcsBuckets, razed>>
  BY <1>0, <1>3, GcsDownloadStarts DEF GcsProgressOK
<1>4. ASSUME NEW g \in GcsFetcher, GcsGoroutineStep(g), UNCHANGED razed
      PROVE  GcsProgressOK'
  BY <1>0, <1>4, GcsGoroutineMoves DEF GcsProgressOK, GcsGoroutineMove
<1>5. ASSUME NEW g, NEW m \in Model, Evict(g, m) PROVE GcsProgressOK'
  BY <1>0, <1>5, EvictTakes DEF GcsProgressOK, NotScanned
<1>6. ASSUME NEW m \in Model, Push(m) \/ Scan(m) PROVE GcsProgressOK'
  BY <1>1, <1>6 DEF Push, Scan
<1> QED BY <1>0, <1>1, <1>2, <1>3, <1>4, <1>5, <1>6, DownloadKinds

(* A model enters the cache when its download is complete, and what it was *)
(* then it is until the entry goes.                                        *)
LEMMA AddedKept == ASSUME DownloadInv, Next PROVE AddedMeansComplete'
<1> DEFINE Whole(m) == Complete(m, FirstRev) \/ m \in gcsBuckets \union razed
<1>0. /\ AddedMeansComplete /\ RevsOK /\ ProgressOK /\ GcsProgressOK /\ ControlInv
      /\ rev \in [Model -> Rev] /\ Rev \subseteq Nat /\ models \subseteq Model
      /\ path \in [Model -> Provider \union {"none", "joined"}]
  BY FaultAssumption DEF DownloadInv, ControlInv, DiskOK, CacheInv, CacheTypeOK
<1>1. ASSUME UNCHANGED <<models, path, rev>>,
             \A m \in models : Whole(m) => Whole(m)'
      PROVE  AddedMeansComplete'
  BY <1>0, <1>1 DEF AddedMeansComplete
<1>2. CASE UNCHANGED <<rev, diskVars, gcsBuckets, razed, models, path>>
  BY <1>1, <1>2 DEF Complete
<1>3. CASE Crash
  BY <1>3 DEF Crash, RestartCacheManager, AddedMeansComplete
<1>4. ASSUME NEW m \in Model, Scan(m) PROVE AddedMeansComplete'
  <2>1. PICK where \in Provider : path' = [path EXCEPT ![m] = where]
    BY <1>4 DEF Scan, ScanModel, Provider
  <2>2. /\ models' = models \union {m}
        /\ UNCHANGED <<rev, diskVars, gcsBuckets, razed>>
    BY <1>4 DEF Scan, ScanModel
  <2> QED BY <1>0, <2>1, <2>2 DEF AddedMeansComplete, Complete, Provider
<1>5. ASSUME NEW g \in Fetcher, GoroutineStep(g), UNCHANGED <<gcsBuckets, razed>>
      PROVE  AddedMeansComplete'
  <2>1. GoroutineMove(g)
    BY <1>0, <1>5, GoroutineMoves
  <2>2. \A m : Whole(m) => Whole(m)'
    BY <1>5, <2>1 DEF Complete, GoroutineMove
  <2>3. CASE UNCHANGED <<models, path>>
    BY <1>1, <2>1, <2>2, <2>3 DEF GoroutineMove
  <2>4. CASE /\ dl[g].pc = "files" /\ dl[g].todo = {}
             /\ models' = models \union {dl[g].model}
             /\ path' = [path EXCEPT ![dl[g].model] = "joined"]
    <3>1. dl[g].model \in Model /\ UNCHANGED rev
      BY <2>1 DEF GoroutineMove
    <3>2. rev[dl[g].model] = FirstRev => dl[g].sha = FirstRev
      <4>1. /\ FirstRev <= dl[g].sha /\ dl[g].sha <= rev[dl[g].model]
        BY <1>0, <2>4 DEF RevsOK, Fetching
      <4>2. dl[g].sha \in Nat /\ rev[dl[g].model] \in Nat /\ FirstRev \in Nat
        BY <1>0, <2>4, <3>1 DEF ControlInv, DownloadsOK, Fetching, FirstRev
      <4> QED BY <4>1, <4>2
    <3>3. rev[dl[g].model] = FirstRev => Whole(dl[g].model)
      BY <1>0, <2>4, <3>2 DEF ProgressOK, Complete
    <3> QED BY <1>0, <2>2, <2>4, <3>1, <3>3 DEF AddedMeansComplete
  <2> QED BY <2>1, <2>3, <2>4 DEF GoroutineMove
<1>6. ASSUME NEW g \in GcsFetcher, GcsGoroutineStep(g),
             UNCHANGED <<rev, diskVars, razed>>
      PROVE  AddedMeansComplete'
  <2>1. GcsGoroutineMove(g)
    BY <1>0, <1>6, GcsGoroutineMoves
  <2>2. \A m : Whole(m) => Whole(m)'
    BY <1>6, <2>1 DEF Complete, GcsGoroutineMove
  <2>3. CASE UNCHANGED <<models, path>>
    BY <1>1, <1>6, <2>2, <2>3
  <2>4. CASE /\ gcsDl[g].pc = "add"
             /\ models' = models \union {gcsDl[g].model}
             /\ path' = [path EXCEPT ![gcsDl[g].model] = "joined"]
    <3>1. Whole(gcsDl[g].model)
      BY <1>0, <2>4 DEF GcsProgressOK
    <3> QED BY <1>0, <1>6, <2>2, <2>4, <3>1 DEF AddedMeansComplete
  <2> QED BY <2>1, <2>3, <2>4 DEF GcsGoroutineMove
<1>7. ASSUME NEW g, NEW m \in Model, Evict(g, m) PROVE AddedMeansComplete'
  <2>1. /\ models' = models \ {m} /\ path' = [path EXCEPT ![m] = "none"]
        /\ UNCHANGED rev
        /\ \A n, r, f : n # m /\ <<n, r, f>> \in disk => <<n, r, f>> \in disk'
        /\ \A n \in gcsBuckets \union razed : n # m => n \in gcsBuckets' \union razed'
    BY <1>0, <1>7, EvictTakes
  <2>2. \A n : n # m /\ Whole(n) => Whole(n)'
    BY <2>1 DEF Complete
  <2> QED BY <1>0, <2>1, <2>2 DEF AddedMeansComplete
<1>8. ASSUME NEW m \in Model, Push(m) PROVE AddedMeansComplete'
  <2>1. /\ rev' = [rev EXCEPT ![m] = rev[m] + 1]
        /\ UNCHANGED <<models, path, disk, gcsBuckets, razed>>
    BY <1>8 DEF Push
  <2>2. rev[m] \in Nat /\ FirstRev <= rev[m] /\ FirstRev \in Nat
    BY <1>0 DEF RevsOK, FirstRev
  <2>3. \A n \in Model : rev'[n] = FirstRev => rev[n] = FirstRev
    BY <1>0, <2>1, <2>2
  <2> QED BY <1>0, <2>1, <2>3 DEF AddedMeansComplete, Complete
<1> QED BY <1>2, <1>3, <1>4, <1>5, <1>6, <1>7, <1>8, DownloadKinds

-----------------------------------------------------------------------------
(* Together they are invariant.                                            *)
THEOREM DownloadsCorrect == Spec => []DownloadInv
<1>1. Init => DownloadInv
  <2> SUFFICES ASSUME Init PROVE DownloadInv
    OBVIOUS
  <2>1. ControlInv
    BY ControlInit
  <2>2. PICK left \in Before : /\ disk = left.huggingface \X {FirstRev} \X File
                               /\ sentinel = left.huggingface \X {FirstRev}
    BY DEF Init
  <2>3. /\ models = {} /\ rev = [m \in Model |-> FirstRev]
        /\ dl = [g \in Fetcher |-> NoDownload]
        /\ gcsDl = [g \in GcsFetcher |-> gcs!NoDownload]
    BY DEF Init, NewCacheManager, NewProvider, gcs!NewGCSProvider
  <2>4. /\ \A g \in Fetcher : dl[g].pc = "none"
        /\ \A g \in GcsFetcher : gcsDl[g].pc = "none"
    BY <2>3 DEF NoDownload, gcs!NoDownload
  <2>5. sentinel \subseteq Model \X Rev
    BY <2>1 DEF ControlInv, DiskOK
  <2>6. RevsOK
    BY <2>2, <2>3, <2>4, <2>5 DEF RevsOK, Fetching, FirstRev
  <2>7. ProgressOK /\ NotScanned /\ GcsProgressOK
    BY <2>4 DEF ProgressOK, NotScanned, GcsProgressOK
  <2>8. SentinelMeansComplete
    BY <2>2, <2>3, <2>5 DEF SentinelMeansComplete, Complete
  <2>9. AddedMeansComplete
    BY <2>3 DEF AddedMeansComplete
  <2> QED BY <2>1, <2>6, <2>7, <2>8, <2>9 DEF DownloadInv
<1>2. DownloadInv /\ ControlInv' /\ Next => DownloadInv'
  BY NotScannedKept, RevsKept, ProgressKept, GcsProgressKept, AddedKept
     DEF DownloadInv
<1>3. DownloadInv /\ ControlInv' /\ UNCHANGED vars => DownloadInv'
  BY DEF DownloadInv, RevsOK, ProgressOK, NotScanned, GcsProgressOK,
     SentinelMeansComplete, AddedMeansComplete, Complete
<1>4. DownloadInv /\ ControlInv' /\ [Next]_vars => DownloadInv'
  BY <1>2, <1>3
<1> QED BY <1>1, <1>4, ControlCorrect, PTL DEF Spec

(* The sentinel that the createContainer hook waits for is never in a      *)
(* snapshot of the repository's commit with a file of it missing, whatever *)
(* fails, is evicted or restarts.                                          *)
THEOREM SentinelIsLast == Spec => []SentinelMeansComplete
BY DownloadsCorrect, PTL DEF DownloadInv

(* A model that a download entered in the cache is on the disk in full, as *)
(* long as its repository is as it was and no eviction of another entry    *)
(* took its directory.                                                     *)
THEOREM AddedIsComplete == Spec => []AddedMeansComplete
BY DownloadsCorrect, PTL DEF DownloadInv
=============================================================================
