-------------------------- MODULE ModelCachePlugin --------------------------
(* cmd/model-cache-kubeletplugin: the plugin on one node, with one or both *)
(* providers on one cache manager, and what surrounds it: the webhook that *)
(* admits claims, the scheduler that allocates devices of the published    *)
(* slice to them, the kubelet that prepares and unprepares them, the       *)
(* runtime that runs the createContainer hook and starts the container, the*)
(* hub, and the crash and restart of the plugin.                           *)
EXTENDS HuggingFaceProvider, Sequences, FiniteSetsExt

CONSTANTS
    Enabled,       \* the providers of the configuration file
    GcsFetcher,    \* the background goroutines of the GCS provider
    Org,           \* the first component of each id, as an id
    Empty,         \* the id that is the empty string
    ClaimSpec,     \* the claims users write
    Before,        \* what earlier processes may have left on the disk
    Failing,       \* the providers whose operations can fail
    MaxFailures, MaxCrashes, MaxPushes   \* bounds on the environment

ASSUME PluginAssumption ==
    /\ Enabled \subseteq Provider /\ Failing \subseteq Provider
    /\ GcsFetcher \subseteq Caller /\ GcsFetcher \intersect Fetcher = {}
    /\ Org \in [Model -> Model] /\ \A m \in Model : Org[Org[m]] = Org[m]
    /\ Empty # None
(* What is on the disk is finite, and a directory has a name.              *)
ASSUME DiskAssumption ==
    /\ Before \subseteq [gcs : SUBSET Model, huggingface : SUBSET Model]
    /\ \A left \in Before : /\ IsFiniteSet(left.huggingface)
                            /\ Empty \notin left.gcs \union left.huggingface
    /\ IsFiniteSet(File)
    /\ \A m \in Model : Org[m] = Empty => m = Empty
(* A claim has opaque configurations, which may be for other drivers, and  *)
(* at least one request, each for a cached device of a model or for a      *)
(* provider's stub.                                                        *)
ASSUME ClaimAssumption ==
    ClaimSpec \subseteq
       [config : Seq([driver : STRING,
                      params : [form : {"absent", "garbled", "lenient", "strict"},
                                provider : Provider \union {Empty},
                                model : Model \union {Empty}]]),
        requests : Seq([provider : Provider, model : Model]) \ {<<>>}]
ASSUME FaultAssumption == /\ MaxFailures \in Nat /\ MaxCrashes \in Nat
                          /\ MaxPushes \in Nat
                          /\ 1 \in Rev /\ Rev \subseteq Nat

VARIABLES
    gcsOngoing, gcsDl, gcsCall, gcsBuckets, gcsSentinel,   \* GCSProvider's
    prep,        \* DeviceState.Prepare in progress: the claim, the devices
                 \* left (the first is at its provider) and the edits so far
    up,          \* the plugin has started its kubelet helper
    slice,       \* the cached devices in the published ResourceSlice
    st,          \* how far each claim is, as the kubelet knows it
    alloc,       \* what each claim asks for and the devices it was allocated
    cdi,         \* the edits in the CDI spec file of each claim
    fresh,       \* claims prepared by the running process (history)
    razed,       \* GCS models whose directory went with <org> (history)
    failures, crashes

gcs == INSTANCE GCSProvider
       WITH Fetcher <- GcsFetcher, ongoing <- gcsOngoing, dl <- gcsDl,
            call <- gcsCall, buckets <- gcsBuckets, sentinel <- gcsSentinel
DriverName == "modelcache"
webhook == INSTANCE Webhook

gcsVars == <<gcsOngoing, gcsDl, gcsCall, gcsBuckets, gcsSentinel>>
plugVars == <<cacheVars, providerVars, gcsVars, prep>>
faultVars == <<failures, crashes>>
nodeVars == <<up, slice, st, alloc, cdi, fresh, razed, faultVars>>
vars == <<plugVars, nodeVars>>

FirstRev == 1
NoPrep == [claim |-> None, left |-> <<>>, edits |-> {}]
NoAlloc == [spec |-> None, devices |-> <<>>]
NoLoader == [form |-> "absent", provider |-> Empty, model |-> Empty]

Device == [provider : Provider, stub : BOOLEAN, model : Model \union {None}]
Edits == [provider : Provider, model : Model, sha : Rev \union {None},
          hook : BOOLEAN]

TypeOK ==
    /\ ProviderTypeOK
    /\ gcs!ProviderTypeOK
    /\ prep \in [claim : Claim \union {None}, left : Seq(Device),
                edits : SUBSET Edits]
    /\ up \in BOOLEAN
    /\ slice \subseteq Enabled \X Model
    /\ st \in [Claim -> {"none", "allocated", "prepared", "running",
                         "stopped", "done"}]
    /\ alloc \in [Claim -> [spec : ClaimSpec \union {None},
                           devices : Seq(Device)]]
    /\ cdi \in [Claim -> SUBSET Edits]
    /\ fresh \subseteq Claim
    /\ razed \subseteq Model
    /\ failures \in 0..MaxFailures
    /\ crashes \in 0..MaxCrashes

Init == /\ NewCacheManager
        /\ NewProvider
        /\ rev = [m \in Model |-> FirstRev]
        /\ gcs!NewGCSProvider
        /\ \E left \in Before :   \* each of them downloaded in full
              /\ dirs = left.huggingface
              /\ disk = left.huggingface \X {FirstRev} \X File
              /\ sentinel = left.huggingface \X {FirstRev}
              /\ gcsSentinel = left.gcs
              /\ gcsBuckets = left.gcs \union {Org[m] : m \in left.gcs}
        /\ prep = NoPrep
        /\ up = FALSE
        /\ slice = {}
        /\ st = [c \in Claim |-> "none"]
        /\ alloc = [c \in Claim |-> NoAlloc]
        /\ cdi = [c \in Claim |-> {}]
        /\ fresh = {} /\ razed = {}
        /\ failures = 0 /\ crashes = 0

-----------------------------------------------------------------------------
(* Start of the process.                                                   *)

Contents(m) == {x \in disk : x[1] = m}

(* DiscoverModels accepts a directory with any bytes in it, .complete or   *)
(* not.                                                                    *)
Discoverable == IF "huggingface" \in Enabled
                THEN {m \in dirs : Contents(m) # {}
                                   \/ \E r \in Rev : <<m, r>> \in sentinel}
                ELSE {}
GcsDiscoverable == IF "gcs" \in Enabled THEN gcs!Discoverable ELSE {}

(* The walk is in lexical order: gcs before huggingface.  An id that both  *)
(* have keeps the path of the first.  The sentinels, all a GCS directory   *)
(* holds, are bytes: no unit of size.                                      *)
Scan(m) == /\ ~up
           /\ \/ /\ m \in GcsDiscoverable
                 /\ ScanModel(m, 0, "gcs")
              \/ /\ m \in Discoverable
                 /\ GcsDiscoverable \subseteq models
                 /\ ScanModel(m, Cardinality(Contents(m)), "huggingface")
           /\ UNCHANGED <<providerVars, gcsVars, prep, nodeVars>>

(* Config.Devices, without the stub devices.                               *)
Devices == {d \in Enabled \X Model :
               d[2] \in IF d[1] = "gcs" THEN gcs!Advertised ELSE Advertised}

(* PublishResources.  Two devices of one name are refused by the API server*)
(* and the slice stays what it was.                                        *)
Published(devices) ==
    IF \E d, e \in devices : /\ d # e /\ d[1] = e[1]
                             /\ DeviceName[d[2]] = DeviceName[e[2]]
    THEN slice ELSE devices

Scanned == Discoverable \union GcsDiscoverable \subseteq models

(* NewDriver: the first slice is published, the callback registered.       *)
(* (SlicePublisher has these as steps of their own.)  An error of the scan *)
(* is only logged: the plugin goes on with the models found before it.     *)
NewDriver == /\ ~up
             /\ \/ Scanned /\ UNCHANGED failures
                \/ ~Scanned /\ failures < MaxFailures /\ failures' = failures + 1
             /\ SetOnUpdate
             /\ up' = TRUE
             /\ slice' = Published(Devices)
             /\ UNCHANGED <<providerVars, gcsVars, prep, st, alloc, cdi, fresh,
                            razed, crashes>>

(* Mutant of RunOnUpdate: a callback nobody started.                       *)
RunOnUpdateUnspawned == /\ up
                        /\ Unlocked
                        /\ spawned' = spawned - 1
                        /\ slice' = Published(Devices)
                        /\ UNCHANGED <<entries, holder, onUpdate, providerVars,
                                       gcsVars, prep, up, st, alloc, cdi,
                                       fresh, razed, faultVars>>

(* The callback of AddModel and of evictLRU publishes the devices.         *)
RunOnUpdate == /\ up
               /\ Unlocked
               /\ spawned > 0
               /\ spawned' = spawned - 1
               /\ slice' = Published(Devices)
               /\ UNCHANGED <<entries, holder, onUpdate, providerVars, gcsVars,
                              prep, up, st, alloc, cdi, fresh, razed,
                              faultVars>>

(* Memory is lost; disk, CDI specs, slice and containers stay.             *)
Crash == /\ up
         /\ crashes < MaxCrashes
         /\ crashes' = crashes + 1
         /\ RestartCacheManager
         /\ RestartProvider
         /\ gcs!RestartGCSProvider
         /\ prep' = NoPrep
         /\ up' = FALSE
         /\ fresh' = {}
         /\ UNCHANGED <<rev, diskVars, gcsBuckets, gcsSentinel, slice, st,
                        alloc, cdi, razed, failures>>

-----------------------------------------------------------------------------
(* The API server, the scheduler and the hub.                              *)

Review(spec) == [resource |-> <<"resourceclaims", "v1">>, decodes |-> TRUE,
                 config |-> spec.config]

(* The first alternative of a request is any cached device of the model,   *)
(* the other one the stub of the provider.                                 *)
Candidates(request) ==
    {[provider |-> p, stub |-> FALSE, model |-> request.model] :
        p \in {q \in Enabled : <<q, request.model>> \in slice}}
    \union {[provider |-> p, stub |-> TRUE, model |-> None] :
        p \in Enabled \intersect {request.provider}}

(* A claim is created, if the webhook admits it, and allocated.            *)
Allocate(c, s) ==
    /\ st[c] = "none"
    /\ webhook!Admitted(Review(s))
    /\ st' = [st EXCEPT ![c] = "allocated"]
    /\ \E devices \in [DOMAIN s.requests -> Device] :
          /\ \A i \in DOMAIN devices : devices[i] \in Candidates(s.requests[i])
          /\ alloc' = [alloc EXCEPT ![c] = [spec |-> s, devices |-> devices]]
    /\ UNCHANGED <<plugVars, up, slice, cdi, fresh, razed, faultVars>>

Push(m) ==
    /\ rev[m] + 1 \in Rev
    /\ Cardinality({n \in Model : rev[n] # FirstRev}) < MaxPushes
    /\ rev' = [rev EXCEPT ![m] = @ + 1]
    /\ UNCHANGED <<cacheVars, ongoing, dl, call, diskVars, gcsVars, prep,
                   nodeVars>>

-----------------------------------------------------------------------------
(* DeviceState.Prepare: one claim at a time.                               *)

(* The ModelLoader for all devices of the claim: the first configuration of*)
(* this driver that decodes or, if none does, what came out of the last.   *)
LoaderOf(config) ==
    LET own == {i \in DOMAIN config : config[i].driver = DriverName}
        decoded == {i \in own : webhook!Decodes(config[i].params)}
    IN  IF decoded # {} THEN config[Min(decoded)].params
        ELSE IF own # {} /\ webhook!HasObject(config[Max(own)].params)
        THEN config[Max(own)].params
        ELSE NoLoader

PrepareFails == prep' = NoPrep /\ call' = NoCall /\ gcsCall' = gcs!NoCall

(* Config.PrepareClaims takes the next device to the provider it belongs   *)
(* to.  A stub needs a ModelLoader, whose provider nobody looks at.        *)
Serve(c, devices, edits) ==
    LET d == Head(devices)
        loader == LoaderOf(alloc[c].spec.config)
        first == IF d.stub THEN "stub" ELSE "find"
        model == IF d.stub THEN loader.model ELSE d.model
    IN  IF d.provider \notin Enabled \/ (d.stub /\ loader = NoLoader)
        THEN PrepareFails
        ELSE /\ prep' = [claim |-> c, left |-> devices, edits |-> edits]
             /\ IF d.provider = "huggingface"
                THEN /\ call' = [NoCall EXCEPT !.pc = first, !.claim = c,
                                               !.model = model]
                     /\ gcsCall' = gcs!NoCall
                ELSE /\ call' = NoCall
                     /\ gcsCall' = [gcs!NoCall EXCEPT !.pc = first, !.claim = c,
                                                      !.model = model]

Prepare(c) ==
    /\ up
    /\ prep = NoPrep
    /\ st[c] = "allocated"
    /\ Serve(c, alloc[c].devices, {})
    /\ UNCHANGED <<cacheVars, ongoing, dl, rev, diskVars, gcsOngoing, gcsDl,
                   gcsBuckets, gcsSentinel, nodeVars>>

(* What the provider returned for the device.                              *)
Served == At("done") \/ gcs!At("done")
Edited == prep.edits \union
    {IF At("done")
     THEN [provider |-> "huggingface", model |-> call.model, sha |-> call.sha,
           hook |-> call.hook]
     ELSE [provider |-> "gcs", model |-> gcsCall.model, sha |-> None,
           hook |-> gcsCall.hook]}

NextDevice ==
    /\ Served
    /\ Len(prep.left) > 1
    /\ Serve(prep.claim, Tail(prep.left), Edited)
    /\ UNCHANGED <<cacheVars, ongoing, dl, rev, diskVars, gcsOngoing, gcsDl,
                   gcsBuckets, gcsSentinel, nodeVars>>

(* The name of the CDI device is made of the claim and of the device's     *)
(* name; a spec with two of one name is not valid.                         *)
CDIDeviceName(d) ==
    <<d.provider, IF d.stub THEN "stub" ELSE DeviceName[d.model]>>

CreateClaimSpecFile ==
    /\ Served
    /\ Len(prep.left) = 1
    /\ LET devices == alloc[prep.claim].devices
       IN  IF Cardinality({CDIDeviceName(devices[i]) : i \in DOMAIN devices})
                 = Len(devices)
           THEN /\ cdi' = [cdi EXCEPT ![prep.claim] = Edited]
                /\ prep' = [prep EXCEPT !.left = <<>>, !.edits = {}]
                /\ call' = NoCall /\ gcsCall' = gcs!NoCall
           ELSE PrepareFails /\ UNCHANGED cdi
    /\ UNCHANGED <<cacheVars, ongoing, dl, rev, diskVars, gcsOngoing, gcsDl,
                   gcsBuckets, gcsSentinel, up, slice, st, alloc, fresh, razed,
                   faultVars>>

CreateClaimSpecFileFails ==
    /\ Served
    /\ Len(prep.left) = 1
    /\ PrepareFails
    /\ UNCHANGED <<cacheVars, ongoing, dl, rev, diskVars, gcsOngoing, gcsDl,
                   gcsBuckets, gcsSentinel>>

Prepared ==
    /\ prep # NoPrep /\ prep.left = <<>>
    /\ st' = [st EXCEPT ![prep.claim] = "prepared"]
    /\ fresh' = fresh \union {prep.claim}
    /\ prep' = NoPrep
    /\ UNCHANGED <<cacheVars, providerVars, gcsVars, up, slice, alloc, cdi,
                   razed, faultVars>>

-----------------------------------------------------------------------------
(* The kubelet and the runtime.                                            *)

(* createContainer: the bind mount of a GCS model needs its directory; the *)
(* hook, if there is one, polls for .complete where the edits say.         *)
Starts(e) ==
    IF e.provider = "huggingface"
    THEN e.hook => <<e.model, e.sha>> \in sentinel
    ELSE e.model \in gcsBuckets /\ (e.hook => e.model \in gcsSentinel)

StartContainer(c) ==
    /\ st[c] = "prepared"
    /\ \A e \in cdi[c] : Starts(e)
    /\ st' = [st EXCEPT ![c] = "running"]
    /\ UNCHANGED <<plugVars, up, slice, alloc, cdi, fresh, razed, faultVars>>

StopPod(c) ==
    /\ st[c] \in {"allocated", "prepared", "running"}
    /\ prep.claim # c
    /\ st' = [st EXCEPT ![c] = "stopped"]
    /\ UNCHANGED <<plugVars, up, slice, alloc, cdi, fresh, razed, faultVars>>

(* Config.UnprepareClaims: both providers in turn.                         *)
UnprepareClaims(c, results) ==
    LET released == Releases(results) \union gcs!Releases(results)
    IN  inUse' = [m \in Model |-> IF m \in released THEN inUse[m] \ {c}
                                                    ELSE inUse[m]]

DeleteClaimSpecFile(c) == cdi' = [cdi EXCEPT ![c] = {}]

(* DeviceState.Unprepare passes nil for the results, so the mutex of the   *)
(* cache manager is not needed.                                            *)
Unprepare(c) ==
    /\ up
    /\ prep = NoPrep
    /\ st[c] = "stopped"
    /\ UnprepareClaims(c, {})
    /\ DeleteClaimSpecFile(c)
    /\ st' = [st EXCEPT ![c] = "done"]
    /\ fresh' = fresh \ {c}
    /\ UNCHANGED <<models, path, size, older, currentSize, holder, onUpdate,
                   spawned, providerVars, gcsVars, prep, up, slice, alloc,
                   razed, faultVars>>

-----------------------------------------------------------------------------
(* A call of PrepareClaims that returns an error ends the Prepare.         *)
CallStep == \/ /\ \/ StubUse \/ DownloadModel \/ Select \/ UseAgain
                  \/ FindDevice \/ CachedUse \/ SnapshotInfo
               /\ prep' = IF call' = NoCall THEN NoPrep ELSE prep
               /\ UNCHANGED <<gcsVars, nodeVars>>
            \/ /\ \/ gcs!StubUse \/ gcs!DownloadModel \/ gcs!Select
                  \/ gcs!UseAgain \/ gcs!FindDevice \/ gcs!CachedUse
                  \/ gcs!StatDirectory
               /\ prep' = IF gcsCall' = gcs!NoCall THEN NoPrep ELSE prep
               /\ UNCHANGED <<providerVars, nodeVars>>
            \/ NextDevice
            \/ CreateClaimSpecFile
            \/ Prepared

(* evictLRU removes the directory of the entry, whose ever it is.          *)
Evict(g, m) ==
    /\ EvictLRU(g, m, ModelSize)
    /\ RemoveSnapshots(m)
    /\ gcs!RemoveBucket(m)
    /\ razed' = razed \union (gcsBuckets \ (gcsBuckets' \union {m}))
    /\ UNCHANGED <<ongoing, dl, call, rev, gcsOngoing, gcsDl, gcsCall, prep,
                   up, slice, st, alloc, cdi, fresh, faultVars>>

DownloadStep(g) ==
    \/ /\ \/ DownloadInfo(g) \/ DownloadEnsureSpace(g)
          \/ DownloadSpaceEnsured(g) \/ DownloadSpaceRefused(g)
          \/ DownloadMkdir(g)
          \/ \E f \in File : DownloadFile(g, f)
          \/ DownloadAdd(g) \/ DownloadSentinel(g) \/ DownloadExit(g)
       /\ UNCHANGED <<gcsVars, prep, nodeVars>>
    \/ \E m \in Model : Evict(g, m)

GcsDownloadStep(g) ==
    \/ /\ \/ gcs!DownloadEnsureSpace(g)
          \/ gcs!DownloadSpaceEnsured(g) \/ gcs!DownloadSpaceRefused(g)
          \/ gcs!DownloadMkdir(g) \/ gcs!DownloadAdd(g)
          \/ gcs!DownloadSentinel(g) \/ gcs!DownloadExit(g)
       /\ UNCHANGED <<providerVars, prep, nodeVars>>
    \/ \E m \in Model : Evict(g, m)

Failure == /\ failures < MaxFailures
           /\ failures' = failures + 1
           /\ \/ CreateClaimSpecFileFails
              \/ /\ "huggingface" \in Failing
                 /\ \/ SnapshotInfoFails /\ prep' = NoPrep
                    \/ /\ \E g \in Fetcher : \/ DownloadFails(g)
                                              \/ DownloadAddFails(g)
                       /\ UNCHANGED prep
                 /\ UNCHANGED gcsVars
              \/ /\ "gcs" \in Failing
                 /\ \E g \in GcsFetcher : \/ gcs!DownloadFails(g)
                                           \/ gcs!DownloadAddFails(g)
                 /\ UNCHANGED <<providerVars, prep>>
           /\ UNCHANGED <<up, slice, st, alloc, cdi, fresh, razed, crashes>>

Start == NewDriver \/ \E m \in Model : Scan(m)

Next == \/ Start \/ RunOnUpdate \/ Crash \/ Failure \/ CallStep
        \/ \E g \in Fetcher : DownloadStep(g)
        \/ \E g \in GcsFetcher : GcsDownloadStep(g)
        \/ \E m \in Model : Push(m)
        \/ \E c \in Claim : \/ Prepare(c) \/ StartContainer(c)
                            \/ StopPod(c) \/ Unprepare(c)
                            \/ \E s \in ClaimSpec : Allocate(c, s)

Spec == Init /\ [][Next]_vars

(* Goroutines run, the kubelet retries and the runtime polls; pods need not*)
(* be created or stopped and nothing needs to fail.                        *)
FairSpec == /\ Spec
            /\ WF_vars(Start) /\ WF_vars(RunOnUpdate) /\ WF_vars(CallStep)
            /\ \A g \in Fetcher : WF_vars(DownloadStep(g))
            /\ \A g \in GcsFetcher : WF_vars(GcsDownloadStep(g))
            /\ \A c \in Claim : WF_vars(StartContainer(c)) /\ WF_vars(Prepare(c))

-----------------------------------------------------------------------------
(* The sentinel the hook waits for is written last: in the snapshot of the *)
(* commit the repository has, it is never there with a file missing,       *)
(* whatever fails, restarts or is evicted.  (In the snapshot of an earlier *)
(* commit it can be: Info and the Downloads may see different commits.)    *)
SentinelMeansComplete ==
    \A x \in sentinel : x[2] = rev[x[1]] => Complete(x[1], x[2])

(* ongoingDownloads and the goroutines agree, so a provider never downloads*)
(* a model twice at a time.                                                *)
OneDownload ==
    /\ \A m \in Model, g \in Fetcher :
          ongoing[m] = g <=> dl[g].pc # "none" /\ dl[g].model = m
    /\ gcs!OneDownload

(* A model that a download entered in the cache is on the disk of one of   *)
(* the providers in full, unless its repository changed or an eviction took*)
(* the directory around it.  (Claims that find the entry get no hook: with *)
(* ids that belong to one provider, that is the disk they mount from.)     *)
AddedMeansComplete ==
    \A m \in models : path[m] = "joined" /\ rev[m] = FirstRev
                        => Complete(m, FirstRev) \/ m \in gcsBuckets \union razed

(* A container prepared by the running process keeps its model: an         *)
(* eviction in the background never takes files from under it.  (After a   *)
(* restart the pins are gone and this no longer holds.)                    *)
RunningKeepsFiles ==
    [][\A c \in fresh : \A e \in cdi[c] :
          /\ st[c] = "running" /\ c \in fresh'
          /\ e.provider = "huggingface" /\ Complete(e.model, e.sha)
          => Complete(e.model, e.sha)']_vars

(* What the CDI file of a claim mounts without waiting for a download is   *)
(* there, from Prepare until the claim ends: neither an id that only the   *)
(* other provider has, nor an eviction, leaves the mount without its       *)
(* directory.  The exception is a directory that an eviction took with the *)
(* <org> around it, which a restart had entered as a model.                *)
PreparedKeepsMount ==
    \A c \in fresh : \A e \in cdi[c] :
       e.provider = "gcs" /\ ~e.hook => e.model \in gcsBuckets \union razed

(* The webhook stands between the users and the providers: no model without*)
(* an id is downloaded, entered or mounted, whatever is in the claims.     *)
OnlyNamedModels ==
    /\ Empty \notin models
    /\ \A g \in Fetcher : dl[g].model # Empty
    /\ \A g \in GcsFetcher : gcsDl[g].model # Empty
    /\ \A c \in Claim : \A e \in cdi[c] : e.model # Empty

(* A claim is given the models it asks for, although Prepare looks devices *)
(* up by name in a list that evictions, downloads and a restart change     *)
(* after the allocation, and although one ModelLoader serves all its       *)
(* devices.  (Another id of the same device name can take its place.)      *)
PreparesWhatWasAsked ==
    \A c \in Claim : \A e \in cdi[c] : \E i \in DOMAIN alloc[c].spec.requests :
       LET asked == alloc[c].spec.requests[i].model
       IN  IF e.hook THEN e.model = asked
                     ELSE DeviceName[e.model] = DeviceName[asked]

(* README.md:211: "the cached version of the model does not appear in the  *)
(* ResourceSlice until it is fully downloaded".  (After a restart in the   *)
(* middle of a download, or with one id for both providers, it can.)       *)
SliceMeansComplete ==
    \A d \in slice : IF d[1] = "gcs" THEN d[2] \in gcsBuckets
                                     ELSE Complete(d[2], rev[d[2]])

(* README.md:147: "The `createContainer` hook ensures that the container   *)
(* will not start until the model is fully downloaded."                    *)
StartsOnlyWhenComplete ==
    [][\A c \in Claim : st[c] # "running" /\ st'[c] = "running"
          => \A e \in cdi[c] : e.provider = "huggingface"
                                  => Complete(e.model, e.sha)]_vars

(* internal/interface.go:38: "UnprepareClaims informs the provider that    *)
(* claims are no longer actively using the models": a claim that was       *)
(* unprepared pins nothing.                                                *)
UnprepareReleases == \A c \in Claim, m \in Model : st[c] = "done"
                                                     => c \notin inUse[m]

(* Every claim is served: its container starts unless the pod is stopped   *)
(* first.  A failure in one provider (or of a CDI file, which the kubelet's*)
(* retry writes) holds up only the claims that mount a model of it.        *)
Stuck(c) == failures > 0 /\ \E e \in cdi[c] : e.provider \in Failing
ClaimsServed ==
    \A c \in Claim : st[c] = "allocated"
                       ~> Stuck(c) \/ st[c] \in {"running", "stopped", "done"}
=============================================================================
