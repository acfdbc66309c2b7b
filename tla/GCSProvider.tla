---------------------------- MODULE GCSProvider ----------------------------
(* internal/provider/gcs/provider.go: PrepareClaims for one device of a    *)
(* claim, and the background goroutine that "downloads" a model, which     *)
(* makes its directory and no file but the sentinel.  The shape is that of *)
(* HuggingFaceProvider; what differs is the disk.  A model <org>/<name> has*)
(* the directory gcs/<org>/<name>, so the directory of one id can be inside*)
(* that of another, <org>, which is also the only one of the two the walk  *)
(* at the next start sees.                                                 *)
EXTENDS CacheManager

CONSTANTS
    Fetcher,     \* the provider's background goroutines
    DeviceName,  \* the name made of each id: lower case, "-" for "/"
    Org,         \* the first component of each id, as an id (its own is itself)
    None,
    ModelSize    \* the size accounted for every download, 1 MiB

VARIABLES
    ongoing,     \* ongoingDownloads: the goroutine behind a model's channel
    dl,          \* the background goroutines
    call,        \* the PrepareClaims call in progress
    buckets,     \* the ids gcs/<id> of which is a directory
    sentinel     \* the ids in whose directory .complete is

diskVars == <<buckets, sentinel>>
providerVars == <<ongoing, dl, call, diskVars>>

NoDownload == [pc |-> "none", model |-> None]
NoCall == [pc |-> "none", claim |-> None, model |-> None, ch |-> None,
           hook |-> FALSE]

ProviderTypeOK ==
    /\ ongoing \in [Model -> Fetcher \union {None}]
    /\ dl \in [Fetcher -> [pc : {"none", "space", "ensuring", "mkdir", "add",
                                 "sentinel", "exit"},
                           model : Model \union {None}]]
    /\ call \in [pc : {"none", "stub", "download", "select", "again", "find",
                       "cached", "stat", "done"},
                 claim : Claim \union {None}, model : Model \union {None},
                 ch : Fetcher \union {None}, hook : BOOLEAN]
    /\ buckets \subseteq Model
    /\ sentinel \subseteq buckets

NewGCSProvider == /\ ongoing = [m \in Model |-> None]
                  /\ dl = [g \in Fetcher |-> NoDownload]
                  /\ call = NoCall

(* NewGCSProvider in a restarted process.                                  *)
RestartGCSProvider == /\ ongoing' = [m \in Model |-> None]
                      /\ dl' = [g \in Fetcher |-> NoDownload]
                      /\ call' = NoCall

Advertised == models \intersect buckets   \* Devices, without the stub device

(* DiscoverModels: the walk meets gcs/<org> first, takes it if a file is   *)
(* anywhere in it, and does not go further down.                           *)
Discoverable == {Org[m] : m \in sentinel}

(* os.RemoveAll of the Path of an entry that is evicted, whoever evicts it:*)
(* for a directory the scan found, with all that is in it.                 *)
RemoveBucket(m) ==
    IF path[m] = "gcs"
    THEN /\ buckets' = {n \in buckets : Org[n] # m}
         /\ sentinel' = {n \in sentinel : Org[n] # m}
    ELSE UNCHANGED diskVars

-----------------------------------------------------------------------------
(* PrepareClaims.                                                          *)

At(pc) == call.pc = pc
Goto(pc) == call' = [call EXCEPT !.pc = pc]
Return == call' = NoCall

StubUse ==
    /\ At("stub")
    /\ Unlocked
    /\ IF call.model \in models
       THEN UseModel(call.model, call.claim) /\ Goto("stat")
       ELSE UNCHANGED cacheVars /\ Goto("download")
    /\ UNCHANGED <<ongoing, dl, diskVars>>

(* Mutant of DownloadModel: ongoingDownloads is not consulted.             *)
DownloadModelAlways ==
    /\ At("download")
    /\ Unlocked
    /\ \/ /\ call.model \in models
          /\ Goto("again")
          /\ UNCHANGED <<ongoing, dl>>
       \/ /\ call.model \notin models
          /\ \E g \in Fetcher :
                /\ dl[g].pc = "none"
                /\ dl' = [dl EXCEPT ![g] = [pc |-> "space",
                                            model |-> call.model]]
                /\ ongoing' = [ongoing EXCEPT ![call.model] = g]
          /\ call' = [call EXCEPT !.pc = "done", !.hook = TRUE]
    /\ UNCHANGED <<cacheVars, diskVars>>

(* downloadModel under p.mu: cached by now, or someone is downloading it,  *)
(* or start a goroutine and report "download in progress", which leaves    *)
(* nothing to look up on the disk.                                         *)
DownloadModel ==
    /\ At("download")
    /\ Unlocked
    /\ \/ /\ call.model \in models
          /\ Goto("again")
          /\ UNCHANGED <<ongoing, dl>>
       \/ /\ call.model \notin models
          /\ ongoing[call.model] # None
          /\ call' = [call EXCEPT !.pc = "select", !.ch = ongoing[call.model]]
          /\ UNCHANGED <<ongoing, dl>>
       \/ /\ call.model \notin models
          /\ ongoing[call.model] = None
          /\ \E g \in Fetcher :
                /\ dl[g].pc = "none"
                /\ dl' = [dl EXCEPT ![g] = [pc |-> "space",
                                            model |-> call.model]]
                /\ ongoing' = [ongoing EXCEPT ![call.model] = g]
          /\ call' = [call EXCEPT !.pc = "done", !.hook = TRUE]
    /\ UNCHANGED <<cacheVars, diskVars>>

(* The select on the channel, after p.mu was released: a closed channel    *)
(* (DownloadExit clears ch) counts as a finished download.                 *)
Select ==
    /\ At("select")
    /\ call' = IF call.ch = None THEN [call EXCEPT !.pc = "again"]
               ELSE [call EXCEPT !.pc = "done", !.ch = None, !.hook = TRUE]
    /\ UNCHANGED <<cacheVars, ongoing, dl, diskVars>>

(* The second UseModel, whose error is only logged.                        *)
UseAgain ==
    /\ At("again")
    /\ Unlocked
    /\ IF call.model \in models THEN UseModel(call.model, call.claim)
                                ELSE UNCHANGED cacheVars
    /\ Goto("stat")
    /\ UNCHANGED <<ongoing, dl, diskVars>>

(* Mutant of FindDevice: the names are not compared.                       *)
FindAnyDevice ==
    /\ At("find")
    /\ Unlocked
    /\ \/ \E m \in Advertised :
             call' = [call EXCEPT !.pc = "cached", !.model = m]
       \/ Advertised = {} /\ Return
    /\ UNCHANGED <<cacheVars, ongoing, dl, diskVars>>

(* A cached device: the id of the first device of that name that Devices() *)
(* lists (in no order) ...                                                 *)
FindDevice ==
    /\ At("find")
    /\ Unlocked
    /\ LET named == {m \in Advertised : DeviceName[m] = DeviceName[call.model]}
       IN  \/ \E m \in named :
                 call' = [call EXCEPT !.pc = "cached", !.model = m]
           \/ named = {} /\ Return
    /\ UNCHANGED <<cacheVars, ongoing, dl, diskVars>>

(* ... and its model pinned, if it is still there.                         *)
CachedUse ==
    /\ At("cached")
    /\ Unlocked
    /\ IF call.model \in models
       THEN UseModel(call.model, call.claim) /\ Goto("stat")
       ELSE UNCHANGED cacheVars /\ Return
    /\ UNCHANGED <<ongoing, dl, diskVars>>

(* Mutant of StatDirectory: the directory is not looked for.               *)
StatNothing ==
    /\ At("stat")
    /\ Goto("done")
    /\ UNCHANGED <<cacheVars, ongoing, dl, diskVars>>

(* Without a download to wait for, the directory must be there; when it is *)
(* not, the pin stays.                                                     *)
StatDirectory ==
    /\ At("stat")
    /\ IF call.model \in buckets THEN Goto("done") ELSE Return
    /\ UNCHANGED <<cacheVars, ongoing, dl, diskVars>>

(* UnprepareClaims: what it releases for results of these names.           *)
Releases(names) == {m \in Advertised : DeviceName[m] \in names}

-----------------------------------------------------------------------------
(* The background goroutine g.                                             *)

In(g, pc) == dl[g].pc = pc
Step(g, pc) == dl' = [dl EXCEPT ![g].pc = pc]

DownloadEnsureSpace(g) ==
    /\ In(g, "space")
    /\ EnsureSpace(g)
    /\ Step(g, "ensuring")
    /\ UNCHANGED <<ongoing, call, diskVars>>

DownloadSpaceEnsured(g) ==
    /\ SpaceEnsured(g, ModelSize)
    /\ Step(g, "mkdir")
    /\ UNCHANGED <<ongoing, call, diskVars>>

DownloadSpaceRefused(g) ==
    /\ SpaceRefused(g, ModelSize)
    /\ Step(g, "exit")
    /\ UNCHANGED <<ongoing, call, diskVars>>

DownloadMkdir(g) ==
    /\ In(g, "mkdir")
    /\ buckets' = buckets \union {dl[g].model, Org[dl[g].model]}
    /\ Step(g, "add")
    /\ UNCHANGED <<cacheVars, ongoing, call, sentinel>>

(* Mutant of DownloadAdd: the entry is made before the directory.          *)
DownloadAddFirst(g) ==
    /\ dl[g].pc \in {"mkdir", "add"}
    /\ AddModel(dl[g].model, ModelSize)
    /\ Step(g, "sentinel")
    /\ UNCHANGED <<ongoing, call, diskVars>>

DownloadAdd(g) ==
    /\ In(g, "add")
    /\ AddModel(dl[g].model, ModelSize)
    /\ Step(g, "sentinel")
    /\ UNCHANGED <<ongoing, call, diskVars>>

(* AddModel's error is only logged: the sentinel is written all the same.  *)
DownloadAddFails(g) ==
    /\ In(g, "add")
    /\ Unlocked
    /\ dl[g].model \notin models
    /\ Step(g, "sentinel")
    /\ UNCHANGED <<cacheVars, ongoing, call, diskVars>>

(* WriteFile fails, and nothing comes of it, when an eviction has removed  *)
(* the directory.                                                          *)
DownloadSentinel(g) ==
    /\ In(g, "sentinel")
    /\ sentinel' = sentinel \union ({dl[g].model} \intersect buckets)
    /\ Step(g, "exit")
    /\ UNCHANGED <<cacheVars, ongoing, call, buckets>>

(* MkdirAll or WriteFile fails.                                            *)
DownloadFails(g) ==
    /\ dl[g].pc \in {"mkdir", "sentinel"}
    /\ Step(g, "exit")
    /\ UNCHANGED <<cacheVars, ongoing, call, diskVars>>

(* The deferred function: forget the download and close its channel.       *)
DownloadExit(g) ==
    /\ In(g, "exit")
    /\ ongoing' = [ongoing EXCEPT ![dl[g].model] = None]
    /\ dl' = [dl EXCEPT ![g] = NoDownload]
    /\ call' = IF At("select") /\ call.ch = g
               THEN [call EXCEPT !.ch = None] ELSE call
    /\ UNCHANGED <<cacheVars, diskVars>>

(* A model is never downloaded twice at a time by this provider.           *)
OneDownload ==
    \A m \in Model, g \in Fetcher :
       ongoing[m] = g <=> dl[g].pc # "none" /\ dl[g].model = m
=============================================================================
