------------------------ MODULE HuggingFaceProvider ------------------------
(* internal/provider/huggingface/provider.go: PrepareClaims for one device *)
(* of a claim, and the background goroutine that downloads a model.  The   *)
(* module has the provider's state, the part of the disk it owns and one   *)
(* operator per step; ModelCachePlugin runs them.                          *)
(*                                                                         *)
(* PrepareClaims is called by one goroutine at a time (DeviceState.Prepare *)
(* holds its mutex), so one record, "call", is its program counter and its *)
(* local variables.  A download is one record of "dl".  p.mu is held only  *)
(* inside DownloadModel and DownloadExit, which are one step each.         *)
EXTENDS CacheManager

CONSTANTS
    Fetcher,     \* the provider's background goroutines
    DeviceName,  \* the name made of each id: lower case, "-" for "/"
    Rev,         \* commits of a repository on the hub
    File,        \* the files of a commit (siblings)
    None,
    ModelSize    \* the size accounted for every download, 1 MiB

ASSUME ProviderAssumption == /\ Fetcher \subseteq Caller
                             /\ None \notin Model \union Caller \union Claim
                             /\ DOMAIN DeviceName = Model
                             /\ None \notin Rev
                             /\ ModelSize \in Nat

VARIABLES
    ongoing,     \* ongoingDownloads: the goroutine behind a model's channel
    dl,          \* the background goroutines
    call,        \* the PrepareClaims call in progress
    rev,         \* what the hub says is the commit of each repository
    dirs,        \* models--... directories that exist (isModelInCache)
    disk,        \* <<m, r, f>>: file f is in snapshots/r of model m
    sentinel     \* <<m, r>>: .complete is in snapshots/r of model m

diskVars == <<dirs, disk, sentinel>>
providerVars == <<ongoing, dl, call, rev, diskVars>>

Complete(m, r) == \A f \in File : <<m, r, f>> \in disk

NoDownload == [pc |-> "none", model |-> None, sha |-> None, todo |-> {}]
NoCall == [pc |-> "none", claim |-> None, model |-> None, ch |-> None,
           hook |-> FALSE, sha |-> None]

DownloadPC == {"none", "info", "space", "ensuring", "mkdir", "files", "sentinel",
               "exit"}
CallPC == {"none", "stub", "download", "select", "again", "find", "cached",
           "info", "done"}

ProviderTypeOK ==
    /\ CacheTypeOK
    /\ ongoing \in [Model -> Fetcher \union {None}]
    /\ dl \in [Fetcher -> [pc : DownloadPC, model : Model \union {None},
                           sha : Rev \union {None}, todo : SUBSET File]]
    /\ call \in [pc : CallPC, claim : Claim \union {None},
                 model : Model \union {None}, ch : Fetcher \union {None},
                 hook : BOOLEAN, sha : Rev \union {None}]
    /\ rev \in [Model -> Rev]
    /\ dirs \subseteq Model
    /\ disk \subseteq Model \X Rev \X File
    /\ sentinel \subseteq Model \X Rev

(* A process that has just started: nothing in memory.                     *)
NewProvider == /\ ongoing = [m \in Model |-> None]
               /\ dl = [g \in Fetcher |-> NoDownload]
               /\ call = NoCall

RestartProvider == /\ ongoing' = [m \in Model |-> None]
                   /\ dl' = [g \in Fetcher |-> NoDownload]
                   /\ call' = NoCall

Advertised == models \intersect dirs   \* Devices, without the stub device

-----------------------------------------------------------------------------
(* PrepareClaims.                                                          *)

At(pc) == call.pc = pc
Goto(pc) == call' = [call EXCEPT !.pc = pc]
Return == call' = NoCall

(* The stub device: a model that is cached is pinned, any other one is     *)
(* downloaded.                                                             *)
StubUse ==
    /\ At("stub")
    /\ Unlocked
    /\ IF call.model \in models
       THEN UseModel(call.model, call.claim) /\ Goto("info")
       ELSE UNCHANGED cacheVars /\ Goto("download")
    /\ UNCHANGED <<ongoing, dl, rev, diskVars>>

(* Mutant of DownloadModel: ongoingDownloads is not consulted.             *)
DownloadModelAlways ==
    /\ At("download")
    /\ Unlocked
    /\ \/ /\ call.model \in models
          /\ Goto("again")
          /\ UNCHANGED <<ongoing, dl>>
       \/ /\ call.model \notin models
          /\ \E g \in Fetcher :
                /\ dl[g].pc = "none"
                /\ dl' = [dl EXCEPT ![g] = [NoDownload EXCEPT
                                !.pc = "info", !.model = call.model]]
                /\ ongoing' = [ongoing EXCEPT ![call.model] = g]
          /\ call' = [call EXCEPT !.pc = "info", !.hook = TRUE]
    /\ UNCHANGED <<cacheVars, rev, diskVars>>

(* downloadModel under p.mu: cached by now, or someone is downloading it,  *)
(* or start a goroutine and report "download in progress".                 *)
DownloadModel ==
    /\ At("download")
    /\ Unlocked
    /\ \/ /\ call.model \in models
          /\ Goto("again")
          /\ UNCHANGED <<ongoing, dl>>
       \/ /\ call.model \notin models
          /\ ongoing[call.model] # None
          /\ call' = [call EXCEPT !.pc = "select", !.ch = ongoing[call.model]]
          /\ UNCHANGED <<ongoing, dl>>
       \/ /\ call.model \notin models
          /\ ongoing[call.model] = None
          /\ \E g \in Fetcher :
                /\ dl[g].pc = "none"
                /\ dl' = [dl EXCEPT ![g] = [NoDownload EXCEPT
                                !.pc = "info", !.model = call.model]]
                /\ ongoing' = [ongoing EXCEPT ![call.model] = g]
          /\ call' = [call EXCEPT !.pc = "info", !.hook = TRUE]
    /\ UNCHANGED <<cacheVars, rev, diskVars>>

(* Mutant of Select: a download in progress counts as finished.            *)
SelectWithoutDefault ==
    /\ At("select")
    /\ call' = [call EXCEPT !.pc = "again", !.ch = None]
    /\ UNCHANGED <<cacheVars, ongoing, dl, rev, diskVars>>

(* The select on the channel, after p.mu was released: a closed channel    *)
(* (DownloadExit clears ch) counts as a finished download.                 *)
Select ==
    /\ At("select")
    /\ call' = IF call.ch = None THEN [call EXCEPT !.pc = "again"]
               ELSE [call EXCEPT !.pc = "info", !.ch = None, !.hook = TRUE]
    /\ UNCHANGED <<cacheVars, ongoing, dl, rev, diskVars>>

(* The second UseModel, whose error is only logged.                        *)
UseAgain ==
    /\ At("again")
    /\ Unlocked
    /\ IF call.model \in models THEN UseModel(call.model, call.claim)
                                ELSE UNCHANGED cacheVars
    /\ Goto("info")
    /\ UNCHANGED <<ongoing, dl, rev, diskVars>>

(* A cached device: the id of the first device of that name that Devices() *)
(* lists (in no order) ...                                                 *)
FindDevice ==
    /\ At("find")
    /\ Unlocked
    /\ LET named == {m \in Advertised : DeviceName[m] = DeviceName[call.model]}
       IN  \/ \E m \in named :
                 call' = [call EXCEPT !.pc = "cached", !.model = m]
           \/ named = {} /\ Return
    /\ UNCHANGED <<cacheVars, ongoing, dl, rev, diskVars>>

(* ... and its model pinned, if it is still there.                         *)
CachedUse ==
    /\ At("cached")
    /\ Unlocked
    /\ IF call.model \in models
       THEN UseModel(call.model, call.claim) /\ Goto("info")
       ELSE UNCHANGED cacheVars /\ Return
    /\ UNCHANGED <<ongoing, dl, rev, diskVars>>

(* Info() for the path of the snapshot.                                    *)
SnapshotInfo ==
    /\ At("info")
    /\ call' = [call EXCEPT !.pc = "done", !.sha = rev[call.model]]
    /\ UNCHANGED <<cacheVars, ongoing, dl, rev, diskVars>>

SnapshotInfoFails ==
    /\ At("info")
    /\ Return
    /\ UNCHANGED <<cacheVars, ongoing, dl, rev, diskVars>>

(* UnprepareClaims: what it releases for results of these names.           *)
Releases(names) == {m \in Advertised : DeviceName[m] \in names}

-----------------------------------------------------------------------------
(* The background goroutine g.                                             *)

In(g, pc) == dl[g].pc = pc
Step(g, pc) == dl' = [dl EXCEPT ![g].pc = pc]

DownloadInfo(g) ==
    /\ In(g, "info")
    /\ dl' = [dl EXCEPT ![g].pc = "space", ![g].todo = File,
                        ![g].sha = rev[dl[g].model]]
    /\ UNCHANGED <<cacheVars, ongoing, call, rev, diskVars>>

DownloadEnsureSpace(g) ==
    /\ In(g, "space")
    /\ EnsureSpace(g)
    /\ Step(g, "ensuring")
    /\ UNCHANGED <<ongoing, call, rev, diskVars>>

(* os.RemoveAll of the Path of an entry that is evicted, whoever evicts it.*)
(* What the scan found is the directory itself; root/modelID, which        *)
(* AddModel made up, has no files in it.                                   *)
RemoveSnapshots(m) ==
    IF path[m] = "huggingface"
    THEN /\ dirs' = dirs \ {m}
         /\ disk' = {x \in disk : x[1] # m}
         /\ sentinel' = {x \in sentinel : x[1] # m}
    ELSE UNCHANGED diskVars

DownloadSpaceEnsured(g) ==
    /\ SpaceEnsured(g, ModelSize)
    /\ Step(g, "mkdir")
    /\ UNCHANGED <<ongoing, call, rev, diskVars>>

DownloadSpaceRefused(g) ==
    /\ SpaceRefused(g, ModelSize)
    /\ Step(g, "exit")
    /\ UNCHANGED <<ongoing, call, rev, diskVars>>

DownloadMkdir(g) ==
    /\ In(g, "mkdir")
    /\ dirs' = dirs \union {dl[g].model}
    /\ Step(g, "files")
    /\ UNCHANGED <<cacheVars, ongoing, call, rev, disk, sentinel>>

(* repo.Download(sibling): the hub client fetches the file of the commit   *)
(* the repository has now and puts it under that commit's snapshot.        *)
DownloadFile(g, f) ==
    /\ In(g, "files")
    /\ f \in dl[g].todo
    /\ disk' = disk \union {<<dl[g].model, rev[dl[g].model], f>>}
    /\ dl' = [dl EXCEPT ![g].todo = @ \ {f}]
    /\ UNCHANGED <<cacheVars, ongoing, call, rev, dirs, sentinel>>

(* Mutant of Fetched: the loop over the siblings is left early.            *)
FetchedEnough(g) == In(g, "files")

(* All siblings are there (and the snapshot's directory is made).          *)
Fetched(g) == In(g, "files") /\ dl[g].todo = {}

DownloadAdd(g) ==
    /\ Fetched(g)
    /\ AddModel(dl[g].model, ModelSize)
    /\ Step(g, "sentinel")
    /\ UNCHANGED <<ongoing, call, rev, diskVars>>

(* AddModel's error is only logged: the sentinel is written all the same.  *)
DownloadAddFails(g) ==
    /\ Fetched(g)
    /\ Unlocked
    /\ dl[g].model \notin models
    /\ Step(g, "sentinel")
    /\ UNCHANGED <<cacheVars, ongoing, call, rev, diskVars>>

(* Mutants of DownloadSentinel: written before the files are there; not    *)
(* written at all.                                                         *)
DownloadSentinelEarly(g) ==
    /\ \/ In(g, "files") /\ UNCHANGED dl
       \/ In(g, "sentinel") /\ Step(g, "exit")
    /\ sentinel' = sentinel \union {<<dl[g].model, dl[g].sha>>}
    /\ UNCHANGED <<cacheVars, ongoing, call, rev, dirs, disk>>
DownloadSentinelNever(g) ==
    /\ In(g, "sentinel")
    /\ Step(g, "exit")
    /\ UNCHANGED <<cacheVars, ongoing, call, rev, diskVars>>

DownloadSentinel(g) ==
    /\ In(g, "sentinel")
    /\ sentinel' = sentinel \union {<<dl[g].model, dl[g].sha>>}
    /\ Step(g, "exit")
    /\ UNCHANGED <<cacheVars, ongoing, call, rev, dirs, disk>>

(* Info, a MkdirAll, a Download or the WriteFile of the sentinel fails: the*)
(* goroutine returns (the sentinel is its last step).                      *)
DownloadFails(g) ==
    /\ dl[g].pc \in {"info", "mkdir", "files", "sentinel"}
    /\ Step(g, "exit")
    /\ UNCHANGED <<cacheVars, ongoing, call, rev, diskVars>>

(* The deferred function: forget the download and close its channel.       *)
DownloadExit(g) ==
    /\ In(g, "exit")
    /\ ongoing' = [ongoing EXCEPT ![dl[g].model] = None]
    /\ dl' = [dl EXCEPT ![g] = NoDownload]
    /\ call' = IF At("select") /\ call.ch = g
               THEN [call EXCEPT !.ch = None] ELSE call
    /\ UNCHANGED <<cacheVars, rev, diskVars>>
=============================================================================
