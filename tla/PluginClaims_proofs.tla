------------------------- MODULE PluginClaims_proofs -------------------------
(* Proofs about what ModelCachePlugin does for a claim: the models it      *)
(* mounts are named, are those the claim asked for, and stay while the     *)
(* claim does.                                                             *)
EXTENDS PluginDownloads_proofs

USE DEF cacheVars, entries, Unlocked, Notify, Insert, Touch, gcs!cacheVars,
        gcs!entries, gcs!Unlocked, gcs!Notify, gcs!Insert, gcs!Touch, diskVars,
        providerVars, gcsVars, gcs!diskVars, gcs!providerVars, plugVars,
        faultVars, nodeVars, vars, Goroutine

-----------------------------------------------------------------------------
(* What a step of PrepareClaims does to its call, in both providers.       *)

SameCall(k, l) == /\ k.pc = l.pc /\ k.claim = l.claim
                  /\ k.model = l.model /\ k.hook = l.hook

Waiting == {"download", "select", "again"}

HfCallMove ==
    /\ UNCHANGED <<models, path>>
    /\ \/ call' = NoCall
       \/ /\ call'.claim = call.claim /\ call'.model = call.model
          /\ \/ /\ call'.pc \in Waiting
                /\ (call'.hook => call.hook)
                /\ \/ call.pc \in Waiting
                   \/ call.pc = "stub" /\ call.model \notin models
             \/ call'.pc = "info" /\ call.pc \in Waiting
             \/ /\ call'.pc = "info" /\ call.pc \in {"stub", "cached"}
                /\ (call'.hook => call.hook)
                /\ call.claim \in inUse'[call.model]
             \/ /\ call'.pc = "done" /\ call.pc = "info"
                /\ (call'.hook => call.hook)
       \/ /\ call.pc = "find" /\ call'.pc = "cached"
          /\ call'.claim = call.claim /\ (call'.hook => call.hook)
          /\ call'.model \in models
          /\ DeviceName[call'.model] = DeviceName[call.model]

(* Each step of a PrepareClaims of the Hugging Face provider is such a     *)
(* move.                                                                   *)
LEMMA HfCallMoves == ASSUME ControlInv, HfCallStep PROVE HfCallMove
<1>0. /\ call.pc # "none"
      /\ call \in [pc : CallPC, claim : Claim \union {None},
                   model : Model \union {None}, ch : Fetcher \union {None},
                   hook : BOOLEAN, sha : Rev \union {None}]
      /\ call.claim \in Claim /\ call.model \in Model
      /\ inUse \in [Model -> SUBSET Claim]
  BY HfCallStepKeeps DEF ControlInv, CallsOK, CacheInv, CacheTypeOK
<1>1. UNCHANGED <<models, path>>
  BY DEF HfCallStep, StubUse, DownloadModel, Select, UseAgain, FindDevice,
         CachedUse, SnapshotInfo, UseModel
<1>2. CASE StubUse
  <2>1. CASE call.model \in models
    <3>1. UseModel(call.model, call.claim) /\ Goto("info") /\ call.pc = "stub"
      BY <1>2, <2>1 DEF StubUse, At
    <3>2. call.claim \in inUse'[call.model]
      BY <1>0, <3>1 DEF UseModel
    <3> QED BY <1>0, <1>1, <3>1, <3>2 DEF HfCallMove, Goto
  <2>2. CASE call.model \notin models
    BY <1>0, <1>1, <1>2, <2>2 DEF StubUse, At, Goto, HfCallMove, Waiting
  <2> QED BY <2>1, <2>2
<1>3. CASE CachedUse
  <2>1. CASE call.model \in models
    <3>1. UseModel(call.model, call.claim) /\ Goto("info") /\ call.pc = "cached"
      BY <1>3, <2>1 DEF CachedUse, At
    <3>2. call.claim \in inUse'[call.model]
      BY <1>0, <3>1 DEF UseModel
    <3> QED BY <1>0, <1>1, <3>1, <3>2 DEF HfCallMove, Goto
  <2>2. CASE call.model \notin models
    BY <1>1, <1>3, <2>2 DEF CachedUse, Return, HfCallMove
  <2> QED BY <2>1, <2>2
<1>4. CASE DownloadModel
  <2>1. \/ Goto("again")
        \/ call' = [call EXCEPT !.pc = "select", !.ch = ongoing[call.model]]
        \/ call' = [call EXCEPT !.pc = "info", !.hook = TRUE]
    BY <1>4 DEF DownloadModel
  <2>2. call.pc = "download"
    BY <1>4 DEF DownloadModel, At
  <2>3. CASE Goto("again")
    <3>1. /\ call'.pc = "again" /\ call'.claim = call.claim
          /\ call'.model = call.model /\ (call'.hook => call.hook)
      BY <1>0, <2>3 DEF Goto
    <3> QED BY <1>1, <2>2, <3>1 DEF HfCallMove, Waiting
  <2>4. CASE call' = [call EXCEPT !.pc = "select", !.ch = ongoing[call.model]]
    <3>1. /\ call'.pc = "select" /\ call'.claim = call.claim
          /\ call'.model = call.model /\ (call'.hook => call.hook)
      BY <1>0, <2>4
    <3> QED BY <1>1, <2>2, <3>1 DEF HfCallMove, Waiting
  <2>5. CASE call' = [call EXCEPT !.pc = "info", !.hook = TRUE]
    BY <1>0, <1>1, <2>2, <2>5 DEF HfCallMove, Waiting
  <2> QED BY <2>1, <2>3, <2>4, <2>5
<1>5. CASE Select
  <2>1. CASE call' = [call EXCEPT !.pc = "again"]
    <3>1. /\ call'.pc = "again" /\ call'.claim = call.claim
          /\ call'.model = call.model /\ (call'.hook => call.hook)
      BY <1>0, <2>1
    <3> QED BY <1>1, <1>5, <3>1 DEF Select, At, HfCallMove, Waiting
  <2>2. CASE call' = [call EXCEPT !.pc = "info", !.ch = None, !.hook = TRUE]
    BY <1>0, <1>1, <1>5, <2>2 DEF Select, At, HfCallMove, Waiting
  <2> QED BY <1>5, <2>1, <2>2 DEF Select
<1>6. CASE UseAgain
  BY <1>0, <1>1, <1>6 DEF UseAgain, At, Goto, HfCallMove, Waiting
<1>7. CASE FindDevice
  <2>1. CASE Return
    BY <1>1, <2>1 DEF Return, HfCallMove
  <2>2. ASSUME NEW m \in Advertised, DeviceName[m] = DeviceName[call.model],
               call' = [call EXCEPT !.pc = "cached", !.model = m]
        PROVE  HfCallMove
    BY <1>0, <1>1, <1>7, <2>2 DEF FindDevice, At, Advertised, HfCallMove
  <2> QED BY <1>7, <2>1, <2>2 DEF FindDevice
<1>8. CASE SnapshotInfo
  BY <1>0, <1>1, <1>8 DEF SnapshotInfo, At, HfCallMove
<1> QED BY <1>2, <1>3, <1>4, <1>5, <1>6, <1>7, <1>8 DEF HfCallStep

(* The same of the GCS provider, which looks for the directory at the end. *)
GcsCallMove ==
    /\ UNCHANGED <<models, path, gcsBuckets, razed>>
    /\ \/ gcsCall' = gcs!NoCall
       \/ /\ gcsCall'.claim = gcsCall.claim /\ gcsCall'.model = gcsCall.model
          /\ \/ /\ gcsCall'.pc \in Waiting
                /\ (gcsCall'.hook => gcsCall.hook)
                /\ \/ gcsCall.pc \in Waiting
                   \/ gcsCall.pc = "stub" /\ gcsCall.model \notin models
             \/ gcsCall'.pc = "stat" /\ gcsCall.pc \in Waiting
             \/ gcsCall'.pc = "done" /\ gcsCall.pc \in Waiting /\ gcsCall'.hook
             \/ /\ gcsCall'.pc = "stat" /\ gcsCall.pc \in {"stub", "cached"}
                /\ (gcsCall'.hook => gcsCall.hook)
                /\ gcsCall.claim \in inUse'[gcsCall.model]
             \/ /\ gcsCall'.pc = "done" /\ gcsCall.pc = "stat"
                /\ (gcsCall'.hook => gcsCall.hook)
                /\ gcsCall.model \in gcsBuckets
       \/ /\ gcsCall.pc = "find" /\ gcsCall'.pc = "cached"
          /\ gcsCall'.claim = gcsCall.claim /\ (gcsCall'.hook => gcsCall.hook)
          /\ gcsCall'.model \in models
          /\ DeviceName[gcsCall'.model] = DeviceName[gcsCall.model]

(* Each step of a PrepareClaims of the GCS provider is such a move.        *)
LEMMA GcsCallMoves ==
    ASSUME ControlInv, GcsCallStep, UNCHANGED razed PROVE GcsCallMove
<1>0. /\ gcsCall.pc # "none"
      /\ gcsCall \in [pc : GcsCallPC, claim : Claim \union {None},
                      model : Model \union {None}, ch : GcsFetcher \union {None},
                      hook : BOOLEAN]
      /\ gcsCall.claim \in Claim /\ gcsCall.model \in Model
      /\ inUse \in [Model -> SUBSET Claim]
  BY GcsCallStepKeeps DEF ControlInv, CallsOK, CacheInv, CacheTypeOK
<1>1. UNCHANGED <<models, path, gcsBuckets, razed>>
  BY DEF GcsCallStep, gcs!StubUse, gcs!DownloadModel, gcs!Select, gcs!UseAgain,
         gcs!FindDevice, gcs!CachedUse, gcs!StatDirectory, gcs!UseModel
<1>2. CASE gcs!StubUse
  <2>1. CASE gcsCall.model \in models
    <3>1. /\ gcs!UseModel(gcsCall.model, gcsCall.claim) /\ gcs!Goto("stat")
          /\ gcsCall.pc = "stub"
      BY <1>2, <2>1 DEF gcs!StubUse, gcs!At
    <3>2. gcsCall.claim \in inUse'[gcsCall.model]
      BY <1>0, <3>1 DEF gcs!UseModel
    <3> QED BY <1>0, <1>1, <3>1, <3>2 DEF GcsCallMove, gcs!Goto
  <2>2. CASE gcsCall.model \notin models
    BY <1>0, <1>1, <1>2, <2>2
       DEF gcs!StubUse, gcs!At, gcs!Goto, GcsCallMove, Waiting
  <2> QED BY <2>1, <2>2
<1>3. CASE gcs!CachedUse
  <2>1. CASE gcsCall.model \in models
    <3>1. /\ gcs!UseModel(gcsCall.model, gcsCall.claim) /\ gcs!Goto("stat")
          /\ gcsCall.pc = "cached"
      BY <1>3, <2>1 DEF gcs!CachedUse, gcs!At
    <3>2. gcsCall.claim \in inUse'[gcsCall.model]
      BY <1>0, <3>1 DEF gcs!UseModel
    <3> QED BY <1>0, <1>1, <3>1, <3>2 DEF GcsCallMove, gcs!Goto
  <2>2. CASE gcsCall.model \notin models
    BY <1>1, <1>3, <2>2 DEF gcs!CachedUse, gcs!Return, GcsCallMove
  <2> QED BY <2>1, <2>2
<1>4. CASE gcs!DownloadModel
  <2>1. \/ gcs!Goto("again")
        \/ gcsCall' = [gcsCall EXCEPT !.pc = "select",
                                      !.ch = gcsOngoing[gcsCall.model]]
        \/ gcsCall' = [gcsCall EXCEPT !.pc = "done", !.hook = TRUE]
    BY <1>4 DEF gcs!DownloadModel
  <2>2. gcsCall.pc = "download"
    BY <1>4 DEF gcs!DownloadModel, gcs!At
  <2>3. CASE gcs!Goto("again")
    BY <1>0, <1>1, <2>2, <2>3 DEF gcs!Goto, GcsCallMove, Waiting
  <2>4. CASE gcsCall' = [gcsCall EXCEPT !.pc = "select",
                                        !.ch = gcsOngoing[gcsCall.model]]
    BY <1>0, <1>1, <2>2, <2>4 DEF GcsCallMove, Waiting
  <2>5. CASE gcsCall' = [gcsCall EXCEPT !.pc = "done", !.hook = TRUE]
    BY <1>0, <1>1, <2>2, <2>5 DEF GcsCallMove, Waiting
  <2> QED BY <2>1, <2>3, <2>4, <2>5
<1>5. CASE gcs!Select
  <2>1. CASE gcsCall' = [gcsCall EXCEPT !.pc = "again"]
    BY <1>0, <1>1, <1>5, <2>1 DEF gcs!Select, gcs!At, GcsCallMove, Waiting
  <2>2. CASE gcsCall' = [gcsCall EXCEPT !.pc = "done", !.ch = None, !.hook = TRUE]
    BY <1>0, <1>1, <1>5, <2>2 DEF gcs!Select, gcs!At, GcsCallMove, Waiting
  <2> QED BY <1>5, <2>1, <2>2 DEF gcs!Select
<1>6. CASE gcs!UseAgain
  BY <1>0, <1>1, <1>6 DEF gcs!UseAgain, gcs!At, gcs!Goto, GcsCallMove, Waiting
<1>7. CASE gcs!FindDevice
  <2>1. CASE gcs!Return
    BY <1>1, <2>1 DEF gcs!Return, GcsCallMove
  <2>2. ASSUME NEW m \in gcs!Advertised, DeviceName[m] = DeviceName[gcsCall.model],
               gcsCall' = [gcsCall EXCEPT !.pc = "cached", !.model = m]
        PROVE  GcsCallMove
    BY <1>0, <1>1, <1>7, <2>2
       DEF gcs!FindDevice, gcs!At, gcs!Advertised, GcsCallMove
  <2> QED BY <1>7, <2>1, <2>2 DEF gcs!FindDevice
<1>8. CASE gcs!StatDirectory
  BY <1>0, <1>1, <1>8 DEF gcs!StatDirectory, gcs!At, gcs!Goto, gcs!Return,
     GcsCallMove
<1> QED BY <1>2, <1>3, <1>4, <1>5, <1>6, <1>7, <1>8 DEF GcsCallStep

-----------------------------------------------------------------------------
(* Who changes the CDI files, the Prepare in progress and its call.        *)

(* The call that Serve starts for the first of the devices.                *)
FirstCall(k, c) ==
    /\ k.claim = c /\ ~k.hook
    /\ \/ /\ k.pc = "stub"
          /\ LoaderOf(alloc[c].spec.config) # NoLoader
          /\ k.model = LoaderOf(alloc[c].spec.config).model
       \/ /\ k.pc = "find"
          /\ \E j \in DOMAIN alloc[c].spec.requests :
                k.model = alloc[c].spec.requests[j].model

CallEnds == prep' = NoPrep /\ call' = NoCall /\ gcsCall' = gcs!NoCall

Starting(c, devices, edits) ==
    /\ st[c] = "allocated"
    /\ prep'.claim = c /\ prep'.left = devices /\ prep'.edits = edits
    /\ \/ FirstCall(call', c) /\ gcsCall' = gcs!NoCall
       \/ call' = NoCall /\ FirstCall(gcsCall', c)

(* Serve either fails the Prepare or starts the call of its first device.  *)
LEMMA ServeStarts ==
    ASSUME NEW c \in Claim, NEW devices \in Seq(Device), devices # <<>>,
           DevicesAsked(c, devices), st[c] = "allocated", NEW edits,
           Serve(c, devices, edits)
    PROVE  CallEnds \/ Starting(c, devices, edits)
<1> DEFINE d == Head(devices)
           loader == LoaderOf(alloc[c].spec.config)
           first == IF d.stub THEN "stub" ELSE "find"
           model == IF d.stub THEN loader.model ELSE d.model
<1>1. CASE PrepareFails
  BY <1>1 DEF PrepareFails, CallEnds
<1>2. CASE ~ PrepareFails
  <2>1. /\ d.stub => loader # NoLoader
        /\ prep' = [claim |-> c, left |-> devices, edits |-> edits]
        /\ \/ /\ call' = [NoCall EXCEPT !.pc = first, !.claim = c, !.model = model]
              /\ gcsCall' = gcs!NoCall
           \/ /\ call' = NoCall
              /\ gcsCall' = [gcs!NoCall EXCEPT !.pc = first, !.claim = c,
                                               !.model = model]
    BY <1>2 DEF Serve
  <2>2. ~ d.stub => \E j \in DOMAIN alloc[c].spec.requests :
                       model = alloc[c].spec.requests[j].model
    <3>1. d = devices[1] /\ 1 \in DOMAIN devices
      OBVIOUS
    <3> QED BY <3>1 DEF DevicesAsked
  <2>3. \/ first = "stub" /\ loader # NoLoader /\ model = loader.model
        \/ /\ first = "find"
           /\ \E j \in DOMAIN alloc[c].spec.requests :
                 model = alloc[c].spec.requests[j].model
    BY <2>1, <2>2
  <2> HIDE DEF d, first, model
  <2>4. ASSUME call' = [NoCall EXCEPT !.pc = first, !.claim = c, !.model = model]
        PROVE  FirstCall(call', c)
    <3>1. /\ call'.pc = first /\ call'.claim = c /\ call'.model = model
          /\ ~ call'.hook
      BY <2>4 DEF NoCall
    <3>2. CASE first = "stub" /\ loader # NoLoader /\ model = loader.model
      BY <3>1, <3>2 DEF FirstCall
    <3>3. CASE /\ first = "find"
               /\ \E j \in DOMAIN alloc[c].spec.requests :
                     model = alloc[c].spec.requests[j].model
      BY <3>1, <3>3 DEF FirstCall
    <3> QED BY <2>3, <3>2, <3>3
  <2>5. ASSUME gcsCall' = [gcs!NoCall EXCEPT !.pc = first, !.claim = c,
                                             !.model = model]
        PROVE  FirstCall(gcsCall', c)
    <3>1. /\ gcsCall'.pc = first /\ gcsCall'.claim = c /\ gcsCall'.model = model
          /\ ~ gcsCall'.hook
      BY <2>5 DEF gcs!NoCall
    <3>2. CASE first = "stub" /\ loader # NoLoader /\ model = loader.model
      BY <3>1, <3>2 DEF FirstCall
    <3>3. CASE /\ first = "find"
               /\ \E j \in DOMAIN alloc[c].spec.requests :
                     model = alloc[c].spec.requests[j].model
      BY <3>1, <3>3 DEF FirstCall
    <3> QED BY <2>3, <3>2, <3>3
  <2>6. /\ prep'.claim = c /\ prep'.left = devices /\ prep'.edits = edits
    BY <2>1
  <2> QED BY <2>1, <2>4, <2>5, <2>6 DEF Starting
<1> QED BY <1>1, <1>2

(* The steps of a claim, with what they leave alone.                       *)
Stays == /\ UNCHANGED prep /\ SameCall(call', call) /\ SameCall(gcsCall', gcsCall)

ClaimKind ==
    \/ Stays /\ UNCHANGED <<alloc, cdi, fresh>>
    \/ Crash
    \/ CallEnds /\ UNCHANGED <<alloc, cdi, fresh>>
    \/ /\ HfCallMove /\ call' # NoCall /\ call.pc # "none"
       /\ UNCHANGED <<prep, gcsCall, alloc, cdi, fresh>>
    \/ /\ GcsCallMove /\ gcsCall' # gcs!NoCall /\ gcsCall.pc # "none"
       /\ UNCHANGED <<prep, call, alloc, cdi, fresh>>
    \/ /\ \E c \in Claim, devices \in Seq(Device) :
             /\ devices # <<>> /\ Starting(c, devices, {})
       /\ UNCHANGED <<alloc, cdi, fresh>>
    \/ /\ \E devices \in Seq(Device) :
             /\ devices # <<>> /\ Starting(prep.claim, devices, Edited)
       /\ Served /\ UNCHANGED <<alloc, cdi, fresh>>
    \/ /\ Served
       /\ cdi' = [cdi EXCEPT ![prep.claim] = Edited]
       /\ prep'.claim = prep.claim /\ prep'.edits = {}
       /\ call' = NoCall /\ gcsCall' = gcs!NoCall
       /\ UNCHANGED <<alloc, fresh>>
    \/ /\ prep # NoPrep /\ prep.left = <<>>
       /\ fresh' = fresh \union {prep.claim} /\ CallEnds
       /\ UNCHANGED <<alloc, cdi>>
    \/ /\ \E c \in Claim : /\ cdi' = [cdi EXCEPT ![c] = {}]
                           /\ fresh' = fresh \ {c}
       /\ Stays /\ UNCHANGED alloc
    \/ /\ \E c \in Claim : /\ st[c] = "none"
                           /\ \E new : alloc' = [alloc EXCEPT ![c] = new]
       /\ Stays /\ UNCHANGED <<cdi, fresh>>

(* Each step of the node changes claims in one of these ways.              *)
LEMMA ClaimKinds == ASSUME ControlInv, Next PROVE ClaimKind
<1>0. /\ CallsOK /\ PrepOK /\ ClaimsOK
  BY DEF ControlInv
<1>00. UNCHANGED <<call, gcsCall, prep>> => Stays
  BY DEF Stays, SameCall
<1>1. CASE UNCHANGED <<call, gcsCall, prep, alloc, cdi, fresh>>
  BY <1>00, <1>1 DEF ClaimKind
<1>2. CASE Start \/ RunOnUpdate \/ Crash
  <2>1. \/ Crash \/ UNCHANGED <<call, gcsCall, prep, alloc, cdi, fresh>>
    BY <1>2 DEF Start, NewDriver, Scan, RunOnUpdate
  <2> QED BY <1>1, <2>1 DEF ClaimKind
<1>3. CASE Failure
  <2>1. UNCHANGED <<alloc, cdi, fresh>>
    BY <1>3 DEF Failure
  <2>2. \/ UNCHANGED <<call, gcsCall, prep>>
        \/ PrepareFails
        \/ SnapshotInfoFails /\ prep' = NoPrep /\ UNCHANGED gcsVars
    BY <1>3 DEF Failure, CreateClaimSpecFileFails, DownloadFails,
            DownloadAddFails, gcs!DownloadFails, gcs!DownloadAddFails
  <2>3. CASE SnapshotInfoFails /\ prep' = NoPrep /\ UNCHANGED gcsVars
    <3>1. call # NoCall /\ call' = NoCall /\ UNCHANGED gcsCall
      BY <2>3 DEF SnapshotInfoFails, Return, At, NoCall
    <3>2. gcsCall = gcs!NoCall
      BY <1>0, <3>1 DEF PrepOK
    <3> QED BY <2>1, <2>3, <3>1, <3>2 DEF ClaimKind, CallEnds
  <2> QED BY <1>1, <2>1, <2>2, <2>3 DEF ClaimKind, CallEnds, PrepareFails
<1>4. CASE /\ HfCallStep
           /\ prep' = IF call' = NoCall THEN NoPrep ELSE prep
           /\ UNCHANGED <<gcsVars, nodeVars>>
  <2>1. HfCallMove /\ call.pc # "none"
    BY <1>4, HfCallMoves, HfCallStepKeeps
  <2>2. call # NoCall
    BY <2>1 DEF NoCall
  <2>3. gcsCall = gcs!NoCall
    BY <1>0, <2>2 DEF PrepOK
  <2> QED BY <1>4, <2>1, <2>3 DEF ClaimKind, CallEnds
<1>5. CASE /\ GcsCallStep
           /\ prep' = IF gcsCall' = gcs!NoCall THEN NoPrep ELSE prep
           /\ UNCHANGED <<providerVars, nodeVars>>
  <2>0. UNCHANGED razed
    BY <1>5
  <2>1. GcsCallMove /\ gcsCall.pc # "none"
    BY <1>5, <2>0, GcsCallMoves, GcsCallStepKeeps
  <2>2. gcsCall # gcs!NoCall
    BY <2>1 DEF gcs!NoCall
  <2>3. call = NoCall
    BY <1>0, <2>2 DEF PrepOK
  <2> QED BY <1>5, <2>1, <2>3 DEF ClaimKind, CallEnds
<1>6. CASE NextDevice
  <2>1. /\ Served /\ Len(prep.left) > 1
        /\ Serve(prep.claim, Tail(prep.left), Edited)
        /\ UNCHANGED <<alloc, cdi, fresh>>
    BY <1>6 DEF NextDevice
  <2>2. prep.left \in Seq(Device)
    BY <1>0 DEF PrepOK
  <2>3. /\ Tail(prep.left) \in Seq(Device) /\ Tail(prep.left) # <<>>
        /\ \A i \in DOMAIN Tail(prep.left) :
              /\ i + 1 \in DOMAIN prep.left
              /\ Tail(prep.left)[i] = prep.left[i + 1]
    <3>1. prep.left # <<>> /\ Len(prep.left) \in Nat
      BY <2>1, <2>2
    <3>2. /\ Tail(prep.left) \in Seq(Device)
          /\ Len(Tail(prep.left)) = Len(prep.left) - 1
          /\ \A i \in 1..Len(Tail(prep.left)) : Tail(prep.left)[i] = prep.left[i + 1]
      BY <2>2, <3>1, HeadTailProperties
    <3>3. Len(Tail(prep.left)) # 0
      <4>1. Len(prep.left) > 1
        BY <2>1
      <4>2. \A n \in Nat : n > 1 => n - 1 # 0
        OBVIOUS
      <4> QED BY <3>1, <3>2, <4>1, <4>2
    <3>4. Tail(prep.left) # <<>>
      BY <3>2, <3>3, EmptySeq
    <3>5. DOMAIN Tail(prep.left) = 1..Len(Tail(prep.left))
      BY <3>2
    <3>6. DOMAIN prep.left = 1..Len(prep.left)
      BY <2>2
    <3>7. \A i \in 1..Len(Tail(prep.left)) : i + 1 \in 1..Len(prep.left)
      BY <3>1, <3>2
    <3> QED BY <3>2, <3>4, <3>5, <3>6, <3>7
  <2>4. prep # NoPrep
    BY <2>1 DEF NoPrep
  <2>5. /\ prep.claim \in Claim /\ st[prep.claim] = "allocated"
        /\ DevicesAsked(prep.claim, prep.left)
    BY <1>0, <2>4 DEF PrepOK
  <2>6. DevicesAsked(prep.claim, Tail(prep.left))
    BY <2>3, <2>5 DEF DevicesAsked
  <2>7. CallEnds \/ Starting(prep.claim, Tail(prep.left), Edited)
    BY <2>1, <2>3, <2>5, <2>6, ServeStarts
  <2> QED BY <2>1, <2>3, <2>7 DEF ClaimKind
<1>7. CASE CreateClaimSpecFile
  <2>1. \/ PrepareFails /\ UNCHANGED <<alloc, cdi, fresh>>
        \/ /\ Served
           /\ cdi' = [cdi EXCEPT ![prep.claim] = Edited]
           /\ prep' = [prep EXCEPT !.left = <<>>, !.edits = {}]
           /\ call' = NoCall /\ gcsCall' = gcs!NoCall
           /\ UNCHANGED <<alloc, fresh>>
    BY <1>7 DEF CreateClaimSpecFile
  <2>2. CASE PrepareFails /\ UNCHANGED <<alloc, cdi, fresh>>
    BY <2>2 DEF ClaimKind, CallEnds, PrepareFails
  <2>3. CASE /\ Served
             /\ cdi' = [cdi EXCEPT ![prep.claim] = Edited]
             /\ prep' = [prep EXCEPT !.left = <<>>, !.edits = {}]
             /\ call' = NoCall /\ gcsCall' = gcs!NoCall
             /\ UNCHANGED <<alloc, fresh>>
    <3>1. prep'.claim = prep.claim /\ prep'.edits = {}
      BY <1>0, <2>3 DEF PrepOK
    <3> QED BY <2>3, <3>1 DEF ClaimKind
  <2> QED BY <2>1, <2>2, <2>3
<1>8. CASE Prepared
  <2>1. /\ prep # NoPrep /\ prep.left = <<>>
        /\ fresh' = fresh \union {prep.claim} /\ prep' = NoPrep
        /\ UNCHANGED <<call, gcsCall, alloc, cdi>>
    BY <1>8 DEF Prepared
  <2>2. call = NoCall /\ gcsCall = gcs!NoCall
    BY <1>0, <2>1 DEF PrepOK
  <2> QED BY <2>1, <2>2 DEF ClaimKind, CallEnds
<1>9. ASSUME NEW g \in Fetcher, DownloadStep(g) PROVE ClaimKind
  <2>1. UNCHANGED <<alloc, cdi, fresh>>
    BY <1>9 DEF DownloadStep, Evict
  <2>2. \/ UNCHANGED <<call, gcsCall, prep>>
        \/ DownloadExit(g) /\ UNCHANGED <<gcsCall, prep>>
    BY <1>9 DEF DownloadStep, Evict, DownloadInfo, DownloadEnsureSpace,
       DownloadSpaceEnsured, DownloadSpaceRefused, DownloadMkdir, DownloadFile,
       DownloadAdd, DownloadSentinel
  <2>3. CASE DownloadExit(g) /\ UNCHANGED <<gcsCall, prep>>
    <3>1. call' = call \/ call' = [call EXCEPT !.ch = None]
      BY <2>3 DEF DownloadExit
    <3>2. SameCall(call', call)
      BY <1>0, <3>1 DEF CallsOK, SameCall
    <3> QED BY <2>1, <2>3, <3>2 DEF ClaimKind, Stays, SameCall
  <2> QED BY <1>1, <2>1, <2>2, <2>3
<1>10. ASSUME NEW g \in GcsFetcher, GcsDownloadStep(g) PROVE ClaimKind
  <2>1. UNCHANGED <<alloc, cdi, fresh>>
    BY <1>10 DEF GcsDownloadStep, Evict
  <2>2. \/ UNCHANGED <<call, gcsCall, prep>>
        \/ gcs!DownloadExit(g) /\ UNCHANGED <<call, prep>>
    BY <1>10 DEF GcsDownloadStep, Evict, gcs!DownloadEnsureSpace,
       gcs!DownloadSpaceEnsured, gcs!DownloadSpaceRefused, gcs!DownloadMkdir,
       gcs!DownloadAdd, gcs!DownloadSentinel
  <2>3. CASE gcs!DownloadExit(g) /\ UNCHANGED <<call, prep>>
    <3>1. gcsCall' = gcsCall \/ gcsCall' = [gcsCall EXCEPT !.ch = None]
      BY <2>3 DEF gcs!DownloadExit
    <3>2. SameCall(gcsCall', gcsCall)
      BY <1>0, <3>1 DEF CallsOK, SameCall
    <3> QED BY <2>1, <2>3, <3>2 DEF ClaimKind, Stays, SameCall
  <2> QED BY <1>1, <2>1, <2>2, <2>3
<1>11. ASSUME NEW m \in Model, Push(m) PROVE ClaimKind
  BY <1>1, <1>11 DEF Push
<1>12. ASSUME NEW c \in Claim, Prepare(c) PROVE ClaimKind
  <2>1. /\ st[c] = "allocated" /\ Serve(c, alloc[c].devices, {})
        /\ UNCHANGED <<alloc, cdi, fresh>>
    BY <1>12 DEF Prepare
  <2>2. /\ alloc[c].devices \in Seq(Device) /\ alloc[c].devices # <<>>
        /\ DevicesAsked(c, alloc[c].devices)
    BY <1>0, <2>1 DEF ClaimsOK
  <2>3. CallEnds \/ Starting(c, alloc[c].devices, {})
    BY <2>1, <2>2, ServeStarts
  <2> QED BY <2>1, <2>2, <2>3 DEF ClaimKind
<1>13. ASSUME NEW c \in Claim, StartContainer(c) \/ StopPod(c) PROVE ClaimKind
  BY <1>1, <1>13 DEF StartContainer, StopPod
<1>14. ASSUME NEW c \in Claim, Unprepare(c) PROVE ClaimKind
  <2>1. /\ cdi' = [cdi EXCEPT ![c] = {}] /\ fresh' = fresh \ {c}
        /\ UNCHANGED <<call, gcsCall, prep, alloc>>
    BY <1>14 DEF Unprepare, DeleteClaimSpecFile
  <2> QED BY <1>00, <2>1 DEF ClaimKind
<1>15. ASSUME NEW c \in Claim, NEW s \in ClaimSpec, Allocate(c, s)
       PROVE  ClaimKind
  <2>1. /\ st[c] = "none" /\ \E new : alloc' = [alloc EXCEPT ![c] = new]
        /\ UNCHANGED <<call, gcsCall, prep, cdi, fresh>>
    BY <1>15 DEF Allocate
  <2> QED BY <1>00, <2>1 DEF ClaimKind
<1>16. CASE CallStep
  BY <1>4, <1>5, <1>6, <1>7, <1>8, <1>16 DEF CallStep, HfCallStep, GcsCallStep
<1> QED BY <1>2, <1>3, <1>9, <1>10, <1>11, <1>12, <1>13, <1>14, <1>15, <1>16
        DEF Next

-----------------------------------------------------------------------------
(* No model without an id: OnlyNamedModels with the disk and the calls in  *)
(* it.  (A call for a cached device may look for the empty id; it finds    *)
(* none.)                                                                  *)
NamedDisk == /\ Empty \notin dirs \union gcsBuckets
             /\ \A x \in sentinel : x[1] # Empty
NamedCache == /\ Empty \notin models
              /\ \A g \in Fetcher : dl[g].pc # "none" => dl[g].model # Empty
              /\ \A g \in GcsFetcher :
                    gcsDl[g].pc # "none" => gcsDl[g].model # Empty
NamedClaims == /\ call.pc \notin {"none", "find"} => call.model # Empty
               /\ gcsCall.pc \notin {"none", "find"} => gcsCall.model # Empty
               /\ \A e \in prep.edits : e.model # Empty
               /\ \A c \in Claim : \A e \in cdi[c] : e.model # Empty
NamesOK == NamedDisk /\ NamedCache /\ NamedClaims

(* No directory and no sentinel of the empty id is ever made.              *)
LEMMA NamedDiskKept == ASSUME ControlInv, NamesOK, Next PROVE NamedDisk'
<1>0. NamedDisk /\ NamedCache
  BY DEF NamesOK
<1>1. CASE UNCHANGED <<rev, diskVars, gcsBuckets, gcsSentinel>>
  BY <1>0, <1>1 DEF NamedDisk
<1>2. ASSUME NEW g, NEW m \in Model, Evict(g, m) PROVE NamedDisk'
  <2>1. RemoveSnapshots(m) /\ gcs!RemoveBucket(m)
    BY <1>2 DEF Evict
  <2>2. dirs' \subseteq dirs /\ sentinel' \subseteq sentinel
    BY <2>1 DEF RemoveSnapshots
  <2>3. gcsBuckets' \subseteq gcsBuckets
    BY <2>1 DEF gcs!RemoveBucket
  <2> QED BY <1>0, <2>2, <2>3 DEF NamedDisk
<1>3. ASSUME NEW m \in Model, Push(m) PROVE NamedDisk'
  BY <1>0, <1>3 DEF Push, NamedDisk
<1>4. ASSUME NEW g \in Fetcher, UNCHANGED <<gcsBuckets, gcsSentinel>>,
             \/ DownloadMkdir(g) \/ DownloadSentinel(g)
             \/ \E f \in File : DownloadFile(g, f)
      PROVE  NamedDisk'
  BY <1>0, <1>4 DEF DownloadMkdir, DownloadSentinel, DownloadFile, In,
                    NamedDisk, NamedCache
<1>5. ASSUME NEW g \in GcsFetcher, UNCHANGED <<rev, diskVars>>,
             gcs!DownloadMkdir(g) \/ gcs!DownloadSentinel(g)
      PROVE  NamedDisk'
  <2>1. CASE gcs!DownloadMkdir(g)
    <3>1. gcsDl[g].model \in Model
      BY <2>1 DEF ControlInv, GcsDownloadsOK, gcs!DownloadMkdir, gcs!In
    <3>2. gcsDl[g].model # Empty /\ Org[gcsDl[g].model] # Empty
      BY <1>0, <2>1, <3>1, DiskAssumption
         DEF NamedCache, gcs!DownloadMkdir, gcs!In
    <3>3. gcsBuckets' = gcsBuckets \union {gcsDl[g].model, Org[gcsDl[g].model]}
      BY <2>1 DEF gcs!DownloadMkdir
    <3> QED BY <1>0, <1>5, <3>2, <3>3 DEF NamedDisk
  <2>2. CASE gcs!DownloadSentinel(g)
    BY <1>0, <1>5, <2>2 DEF gcs!DownloadSentinel, NamedDisk
  <2> QED BY <1>5, <2>1, <2>2
<1> QED BY DiskFrame, <1>1, <1>2, <1>3, <1>4, <1>5

(* No goroutine downloads, and no entry is made for, the empty id.         *)
LEMMA NamedCacheKept == ASSUME ControlInv, NamesOK, Next PROVE NamedCache'
<1>0. /\ NamedDisk /\ NamedCache /\ NamedClaims
      /\ None # Empty /\ gcsSentinel \subseteq gcsBuckets
      /\ gcsBuckets \subseteq Model
  BY PluginAssumption DEF NamesOK, ControlInv, DiskOK
<1>1. CASE UNCHANGED <<dl, gcsDl, models>>
  BY <1>0, <1>1 DEF NamedCache
<1>2. CASE Crash
  BY <1>0, <1>2 DEF Crash, RestartCacheManager, RestartProvider, NoDownload,
     gcs!RestartGCSProvider, gcs!NoDownload, NamedCache
<1>3. ASSUME NEW m \in Model, Scan(m) PROVE NamedCache'
  <2>1. models' = models \union {m} /\ UNCHANGED <<dl, gcsDl>>
    BY <1>3 DEF Scan, ScanModel
  <2>2. m \in Discoverable \/ m \in GcsDiscoverable
    BY <1>3 DEF Scan
  <2>3. m \in Discoverable => m \in dirs
    BY DEF Discoverable
  <2>4. m \in GcsDiscoverable => \E n \in gcsSentinel : m = Org[n]
    BY DEF GcsDiscoverable, gcs!Discoverable
  <2>5. m # Empty
    BY <1>0, <2>2, <2>3, <2>4, DiskAssumption DEF NamedDisk
  <2> QED BY <1>0, <2>1, <2>5 DEF NamedCache
<1>4. CASE DownloadModel /\ UNCHANGED <<gcsDl, models>>
  <2>1. call.model # Empty
    BY <1>0, <1>4 DEF DownloadModel, At, NamedClaims
  <2> QED BY <1>0, <1>4, <2>1, DownloadStarts DEF NamedCache
<1>5. CASE gcs!DownloadModel /\ UNCHANGED <<dl, models>>
  <2>1. gcsCall.model # Empty
    BY <1>0, <1>5 DEF gcs!DownloadModel, gcs!At, NamedClaims
  <2> QED BY <1>0, <1>5, <2>1, GcsDownloadStarts DEF NamedCache
<1>6. ASSUME NEW g \in Fetcher, GoroutineStep(g), UNCHANGED gcsDl
      PROVE  NamedCache'
  <2>1. GoroutineMove(g)
    BY <1>6, GoroutineMoves
  <2>2. models' \subseteq models \union {dl[g].model}
    BY <2>1 DEF GoroutineMove
  <2> QED BY <1>0, <1>6, <2>1, <2>2 DEF NamedCache, GoroutineMove
<1>7. ASSUME NEW g \in GcsFetcher, GcsGoroutineStep(g), UNCHANGED dl
      PROVE  NamedCache'
  <2>1. GcsGoroutineMove(g)
    BY <1>7, GcsGoroutineMoves
  <2>2. models' \subseteq models \union {gcsDl[g].model}
    BY <2>1 DEF GcsGoroutineMove
  <2> QED BY <1>0, <1>7, <2>1, <2>2 DEF NamedCache, GcsGoroutineMove
<1>8. ASSUME NEW g, NEW m \in Model, Evict(g, m) PROVE NamedCache'
  BY <1>0, <1>8, EvictTakes DEF NamedCache
<1>9. ASSUME NEW m \in Model, Push(m) PROVE NamedCache'
  BY <1>1, <1>9 DEF Push
<1> QED BY <1>1, <1>2, <1>3, <1>4, <1>5, <1>6, <1>7, <1>8, <1>9, DownloadKinds

(* An edit of a finished call has the model of the call.                   *)
LEMMA EditedModels ==
    ASSUME NEW e \in Edited, Served, e \notin prep.edits
    PROVE  \/ /\ call.pc = "done" /\ e.provider = "huggingface"
              /\ e.model = call.model /\ (e.hook => call.hook)
           \/ /\ gcsCall.pc = "done" /\ e.provider = "gcs"
              /\ e.model = gcsCall.model /\ (e.hook <=> gcsCall.hook)
BY DEF Edited, Served, At, gcs!At

(* The device of a finished call is still on the list of its Prepare.      *)
LEMMA ServedPrepares ==
    ASSUME ControlInv, Served
    PROVE  /\ prep # NoPrep /\ prep.left # <<>>
           /\ prep.claim \in Claim /\ st[prep.claim] = "allocated"
           /\ call.pc = "done" => call.claim = prep.claim
           /\ gcsCall.pc = "done" => gcsCall.claim = prep.claim
<1>1. call # NoCall \/ gcsCall # gcs!NoCall
  BY DEF Served, At, gcs!At, NoCall, gcs!NoCall
<1>2. prep.left # <<>>
  BY <1>1 DEF ControlInv, PrepOK
<1>3. prep # NoPrep
  BY <1>2 DEF NoPrep
<1> QED BY <1>2, <1>3 DEF ControlInv, PrepOK, CallsOK

(* No call past its lookup and no edit is for the empty id.                *)
LEMMA NamedClaimsKept == ASSUME ControlInv, NamesOK, Next PROVE NamedClaims'
<1>0. /\ NamedCache /\ NamedClaims /\ ClaimsOK
  BY DEF NamesOK, ControlInv
<1>1. Served => \A e \in Edited : e.model # Empty
  BY <1>0, EditedModels DEF NamedClaims
<1>2. ASSUME NEW c \in Claim, NEW k, st[c] = "allocated", FirstCall(k, c)
      PROVE  k.pc # "find" => k.model # Empty
  <2>1. alloc[c].spec \in ClaimSpec /\ webhook!Admitted(Review(alloc[c].spec))
    BY <1>0, <1>2 DEF ClaimsOK
  <2> QED BY <1>2, <2>1, LoaderNamesModel DEF FirstCall
<1>3. CASE Stays /\ UNCHANGED <<alloc, cdi, fresh>>
  BY <1>0, <1>3 DEF Stays, SameCall, NamedClaims
<1>4. CASE Crash
  BY <1>0, <1>4 DEF Crash, RestartProvider, gcs!RestartGCSProvider, NoCall,
     gcs!NoCall, NoPrep, NamedClaims
<1>5. CASE CallEnds /\ UNCHANGED <<alloc, cdi, fresh>>
  BY <1>0, <1>5 DEF CallEnds, NoCall, gcs!NoCall, NoPrep, NamedClaims
<1>6. CASE /\ HfCallMove /\ call' # NoCall
           /\ UNCHANGED <<prep, gcsCall, alloc, cdi, fresh>>
  BY <1>0, <1>6 DEF HfCallMove, Waiting, NamedClaims, NamedCache
<1>7. CASE /\ GcsCallMove /\ gcsCall' # gcs!NoCall
           /\ UNCHANGED <<prep, call, alloc, cdi, fresh>>
  BY <1>0, <1>7 DEF GcsCallMove, Waiting, NamedClaims, NamedCache
<1>8. ASSUME NEW c \in Claim, NEW devices, NEW edits,
             Starting(c, devices, edits), \A e \in edits : e.model # Empty,
             UNCHANGED <<alloc, cdi, fresh>>
      PROVE  NamedClaims'
  <2>1. CASE FirstCall(call', c) /\ gcsCall' = gcs!NoCall
    <3>1. call'.pc # "find" => call'.model # Empty
      BY <1>2, <1>8, <2>1 DEF Starting
    <3> QED BY <1>0, <1>8, <2>1, <3>1 DEF Starting, gcs!NoCall, NamedClaims
  <2>2. CASE call' = NoCall /\ FirstCall(gcsCall', c)
    <3>1. gcsCall'.pc # "find" => gcsCall'.model # Empty
      BY <1>2, <1>8, <2>2 DEF Starting
    <3> QED BY <1>0, <1>8, <2>2, <3>1 DEF Starting, NoCall, NamedClaims
  <2> QED BY <1>8, <2>1, <2>2 DEF Starting
<1>9. CASE /\ Served
           /\ cdi' = [cdi EXCEPT ![prep.claim] = Edited]
           /\ prep'.claim = prep.claim /\ prep'.edits = {}
           /\ call' = NoCall /\ gcsCall' = gcs!NoCall
  <2>1. \A c \in Claim : cdi'[c] = cdi[c] \/ cdi'[c] = Edited
    BY <1>0, <1>9 DEF ClaimsOK
  <2> QED BY <1>0, <1>1, <1>9, <2>1 DEF NamedClaims, NoCall, gcs!NoCall
<1>10. CASE CallEnds /\ UNCHANGED cdi
  BY <1>0, <1>10 DEF CallEnds, NoCall, gcs!NoCall, NoPrep, NamedClaims
<1>11. CASE /\ \E c \in Claim : cdi' = [cdi EXCEPT ![c] = {}]
            /\ Stays
  <2>1. \A c \in Claim : cdi'[c] = cdi[c] \/ cdi'[c] = {}
    BY <1>0, <1>11 DEF ClaimsOK
  <2> QED BY <1>0, <1>11, <2>1 DEF Stays, SameCall, NamedClaims
<1>12. CASE Stays /\ UNCHANGED cdi
  BY <1>0, <1>12 DEF Stays, SameCall, NamedClaims
<1>13. CASE /\ \E devices \in Seq(Device) :
                  devices # <<>> /\ Starting(prep.claim, devices, Edited)
            /\ Served /\ UNCHANGED <<alloc, cdi, fresh>>
  BY <1>1, <1>8, <1>13, ServedPrepares
<1>14. CASE /\ \E c \in Claim, devices \in Seq(Device) :
                  devices # <<>> /\ Starting(c, devices, {})
            /\ UNCHANGED <<alloc, cdi, fresh>>
  BY <1>8, <1>14
<1> QED BY ClaimKinds, <1>3, <1>4, <1>5, <1>6, <1>7, <1>9, <1>10, <1>11, <1>12,
           <1>13, <1>14 DEF ClaimKind

(* Nothing that earlier processes left has the empty id.                   *)
LEMMA NamesInit == Init => NamesOK
<1> SUFFICES ASSUME Init PROVE NamesOK
  OBVIOUS
<1>1. PICK left \in Before :
         /\ dirs = left.huggingface
         /\ sentinel = left.huggingface \X {FirstRev}
         /\ gcsBuckets = left.gcs \union {Org[m] : m \in left.gcs}
  BY DEF Init
<1>2. NamedDisk
  BY <1>1, DiskAssumption DEF NamedDisk
<1>3. /\ models = {} /\ dl = [g \in Fetcher |-> NoDownload]
      /\ gcsDl = [g \in GcsFetcher |-> gcs!NoDownload]
      /\ call = NoCall /\ gcsCall = gcs!NoCall /\ prep = NoPrep
      /\ cdi = [c \in Claim |-> {}]
  BY DEF Init, NewCacheManager, NewProvider, gcs!NewGCSProvider
<1>4. NamedCache
  BY <1>3 DEF NamedCache, NoDownload, gcs!NoDownload
<1>5. NamedClaims
  BY <1>3 DEF NamedClaims, NoCall, gcs!NoCall, NoPrep
<1> QED BY <1>2, <1>4, <1>5 DEF NamesOK

(* The webhook stands between the users and the providers: no model without*)
(* an id is downloaded, entered or mounted, whatever is in the claims.     *)
THEOREM OnlyNamed == Spec => []OnlyNamedModels
<1>1. NamesOK /\ ControlInv /\ [Next]_vars => NamesOK'
  <2>1. NamesOK /\ UNCHANGED vars => NamesOK'
    BY DEF NamesOK, NamedDisk, NamedCache, NamedClaims
  <2> QED BY <2>1, NamedDiskKept, NamedCacheKept, NamedClaimsKept DEF NamesOK
<1>2. NamesOK /\ ControlInv => OnlyNamedModels
  BY PluginAssumption DEF NamesOK, NamedCache, NamedClaims, ControlInv,
     DownloadsOK, GcsDownloadsOK, NoDownload, gcs!NoDownload, OnlyNamedModels
<1> QED BY <1>1, <1>2, NamesInit, ControlCorrect, PTL DEF Spec

-----------------------------------------------------------------------------
(* What a claim mounts from the directory of an entry is pinned by the     *)
(* claim, from the call that prepares it on; and what it mounts of GCS     *)
(* without waiting for a download is there.                                *)
CallPins ==
    /\ call.pc \in Waiting => path[call.model] \notin Provider
    /\ call.pc \in {"info", "done"} /\ path[call.model] = "huggingface"
          => call.claim \in inUse[call.model]
    /\ gcsCall.pc \in Waiting => path[gcsCall.model] \notin Provider
    /\ gcsCall.pc \in {"stat", "done"} /\ path[gcsCall.model] = "gcs"
          => gcsCall.claim \in inUse[gcsCall.model]
    /\ gcsCall.pc = "done" /\ ~gcsCall.hook
          => gcsCall.model \in gcsBuckets \union razed

EditPinned(c, e) ==
    /\ path[e.model] = e.provider => c \in inUse[e.model]
    /\ e.provider = "gcs" /\ ~e.hook => e.model \in gcsBuckets \union razed

FreshPinned == \A c \in fresh : \A e \in cdi[c] : EditPinned(c, e)
PrepPinned ==
    prep # NoPrep =>
       /\ \A e \in prep.edits : EditPinned(prep.claim, e)
       /\ prep.left = <<>> => \A e \in cdi[prep.claim] : EditPinned(prep.claim, e)

PinsOK == CallPins /\ FreshPinned /\ PrepPinned

(* Only a crash takes pins away: what an eviction takes and what a download*)
(* enters has none, and Unprepare passes no names.                         *)
LEMMA PinsGrow ==
    ASSUME ControlInv, Next
    PROVE  Crash \/ \A m \in Model : inUse[m] \subseteq inUse'[m]
<1>0. /\ inUse \in [Model -> SUBSET Claim]
      /\ \A m \in Model : m \notin models => inUse[m] = {}
  BY DEF ControlInv, CacheInv, CacheTypeOK, EntriesOfModels
<1>1. CASE UNCHANGED inUse
  BY <1>1
<1>2. ASSUME NEW m, NEW c, UseModel(m, c) \/ gcs!UseModel(m, c)
      PROVE  \A n \in Model : inUse[n] \subseteq inUse'[n]
  BY <1>0, <1>2 DEF UseModel, gcs!UseModel
<1>3. ASSUME NEW m, NEW s, NEW where, m \notin models, Insert(m, s, where)
      PROVE  \A n \in Model : inUse[n] \subseteq inUse'[n]
  BY <1>0, <1>3
<1>4. ASSUME NEW m, AddModel(m, ModelSize) \/ gcs!AddModel(m, ModelSize)
      PROVE  \A n \in Model : inUse[n] \subseteq inUse'[n]
  BY <1>3, <1>4 DEF AddModel, gcs!AddModel
<1>5. CASE Start \/ RunOnUpdate
  BY <1>1, <1>3, <1>5
     DEF Start, NewDriver, SetOnUpdate, RunOnUpdate, Scan, ScanModel
<1>6. CASE Failure
  BY <1>1, <1>6 DEF Failure, CreateClaimSpecFileFails, SnapshotInfoFails,
     DownloadFails, DownloadAddFails, gcs!DownloadFails, gcs!DownloadAddFails
<1>7. CASE CallStep
  <2>1. CASE HfCallStep
    BY <1>1, <1>2, <2>1 DEF HfCallStep, StubUse, DownloadModel, Select,
       UseAgain, FindDevice, CachedUse, SnapshotInfo
  <2>2. CASE GcsCallStep
    BY <1>1, <1>2, <2>2 DEF GcsCallStep, gcs!StubUse, gcs!DownloadModel,
       gcs!Select, gcs!UseAgain, gcs!FindDevice, gcs!CachedUse,
       gcs!StatDirectory
  <2>3. CASE NextDevice \/ CreateClaimSpecFile \/ Prepared
    BY <1>1, <2>3 DEF NextDevice, CreateClaimSpecFile, Prepared
  <2> QED BY <1>7, <2>1, <2>2, <2>3 DEF CallStep, HfCallStep, GcsCallStep
<1>8. ASSUME NEW g \in Fetcher, DownloadStep(g)
      PROVE  \A n \in Model : inUse[n] \subseteq inUse'[n]
  <2>1. CASE UNCHANGED inUse
    BY <2>1
  <2>2. CASE DownloadAdd(g)
    BY <1>4, <2>2 DEF DownloadAdd
  <2> QED BY <1>8, <2>1, <2>2 DEF DownloadStep, Evict, EvictLRU, DownloadInfo,
     DownloadEnsureSpace, EnsureSpace, DownloadSpaceEnsured, SpaceEnsured,
     DownloadSpaceRefused, SpaceRefused, DownloadMkdir, DownloadFile,
     DownloadSentinel, DownloadExit
<1>9. ASSUME NEW g \in GcsFetcher, GcsDownloadStep(g)
      PROVE  \A n \in Model : inUse[n] \subseteq inUse'[n]
  <2>1. CASE UNCHANGED inUse
    BY <2>1
  <2>2. CASE gcs!DownloadAdd(g)
    BY <1>4, <2>2 DEF gcs!DownloadAdd
  <2> QED BY <1>9, <2>1, <2>2 DEF GcsDownloadStep, Evict, EvictLRU,
     gcs!DownloadEnsureSpace, gcs!EnsureSpace, gcs!DownloadSpaceEnsured,
     gcs!SpaceEnsured, gcs!DownloadSpaceRefused, gcs!SpaceRefused,
     gcs!DownloadMkdir, gcs!DownloadSentinel, gcs!DownloadExit
<1>10. ASSUME NEW m \in Model, Push(m) PROVE UNCHANGED inUse
  BY <1>10 DEF Push
<1>11. ASSUME NEW c \in Claim,
              \/ Prepare(c) \/ StartContainer(c) \/ StopPod(c)
              \/ \E s \in ClaimSpec : Allocate(c, s)
       PROVE  UNCHANGED inUse
  BY <1>11 DEF Prepare, StartContainer, StopPod, Allocate
<1>12. ASSUME NEW c \in Claim, Unprepare(c)
       PROVE  \A n \in Model : inUse[n] \subseteq inUse'[n]
  <2>1. Releases({}) = {} /\ gcs!Releases({}) = {}
    BY DEF Releases, gcs!Releases
  <2> QED BY <1>12, <2>1 DEF Unprepare, UnprepareClaims
<1> QED BY <1>1, <1>5, <1>6, <1>7, <1>8, <1>9, <1>10, <1>11, <1>12 DEF Next

(* Only the scan enters a directory of a provider in the cache.            *)
LEMMA ScanFindsPaths ==
    ASSUME ControlInv, Next, NEW n \in Model, path'[n] \in Provider
    PROVE  path'[n] = path[n] \/ \E m \in Model : Scan(m)
<1>0. /\ path \in [Model -> Provider \union {"none", "joined"}]
      /\ "none" \notin Provider /\ "joined" \notin Provider
  BY DEF ControlInv, CacheInv, CacheTypeOK, Provider
<1>1. CASE UNCHANGED path
  BY <1>1
<1>2. CASE Crash
  BY <1>0, <1>2 DEF Crash, RestartCacheManager
<1>3. ASSUME NEW g \in Fetcher, GoroutineStep(g) PROVE path'[n] = path[n]
  BY <1>0, <1>3, GoroutineMoves DEF GoroutineMove
<1>4. ASSUME NEW g \in GcsFetcher, GcsGoroutineStep(g) PROVE path'[n] = path[n]
  BY <1>0, <1>4, GcsGoroutineMoves DEF GcsGoroutineMove
<1>5. ASSUME NEW g, NEW m \in Model, Evict(g, m) PROVE path'[n] = path[n]
  BY <1>0, <1>5, EvictTakes
<1>6. ASSUME NEW m \in Model, Push(m) PROVE path'[n] = path[n]
  BY <1>6 DEF Push
<1> QED BY DownloadKinds, <1>1, <1>2, <1>3, <1>4, <1>5, <1>6

(* An eviction takes the directory of an idle entry of its provider.       *)
LEMMA EvictSpares ==
    ASSUME NEW g, NEW m \in Model, Evict(g, m)
    PROVE  /\ inUse[m] = {}
           /\ path[m] # "huggingface" => UNCHANGED disk
           /\ \A n \in gcsBuckets \union razed :
                 n # m \/ path[m] # "gcs" => n \in gcsBuckets' \union razed'
<1>1. inUse[m] = {}
  BY DEF Evict, EvictLRU, LeastRecent, Idle
<1>2. path[m] # "huggingface" => UNCHANGED disk
  BY DEF Evict, RemoveSnapshots
<1>3. path[m] # "gcs" => UNCHANGED gcsBuckets
  BY DEF Evict, gcs!RemoveBucket
<1>4. razed' = razed \union (gcsBuckets \ (gcsBuckets' \union {m}))
  BY DEF Evict
<1> QED BY <1>1, <1>2, <1>3, <1>4

(* A GCS directory goes only with its own idle entry, or is razed with     *)
(* <org>.                                                                  *)
LEMMA BucketsStay ==
    ASSUME ControlInv, Next, NEW n \in gcsBuckets \union razed
    PROVE  \/ n \in gcsBuckets' \union razed'
           \/ path[n] = "gcs" /\ inUse[n] = {}
<1>1. CASE UNCHANGED <<gcsBuckets, razed>>
  BY <1>1
<1>2. CASE Crash
  BY <1>2 DEF Crash
<1>3. ASSUME NEW g \in GcsFetcher, GcsGoroutineStep(g), UNCHANGED razed
      PROVE  n \in gcsBuckets' \union razed'
  BY <1>3, GcsGoroutineMoves DEF GcsGoroutineMove
<1>4. ASSUME NEW g, NEW m \in Model, Evict(g, m)
      PROVE  \/ n \in gcsBuckets' \union razed'
             \/ path[n] = "gcs" /\ inUse[n] = {}
  BY <1>4, EvictSpares
<1>5. ASSUME NEW m \in Model, Scan(m) \/ Push(m) PROVE UNCHANGED <<gcsBuckets, razed>>
  BY <1>5 DEF Scan, Push
<1> QED BY DownloadKinds, <1>1, <1>2, <1>3, <1>4, <1>5

(* So a pin that covers a directory of a provider goes on doing so, except *)
(* in a crash and during the scan at the start.                            *)
Running == ~Crash /\ \A m \in Model : ~Scan(m)

(* A pin that covers a directory covers it after the step, too.            *)
LEMMA PinStays ==
    ASSUME ControlInv, Next, Running, NEW m \in Model, NEW p \in Provider,
           NEW c, path[m] = p => c \in inUse[m]
    PROVE  path'[m] = p => c \in inUse'[m]
BY PinsGrow, ScanFindsPaths DEF Running

(* The same of what a CDI file mounts.                                     *)
LEMMA EditStays ==
    ASSUME ControlInv, Next, Running, NEW c, NEW e \in Edits, EditPinned(c, e)
    PROVE  EditPinned(c, e)'
<1>1. e.model \in Model /\ e.provider \in Provider
  BY DEF Edits
<1>2. path'[e.model] = e.provider => c \in inUse'[e.model]
  BY <1>1, PinStays DEF EditPinned
<1>3. ASSUME e.provider = "gcs", ~e.hook
      PROVE  e.model \in gcsBuckets' \union razed'
  BY <1>3, BucketsStay DEF EditPinned
<1> QED BY <1>2, <1>3 DEF EditPinned

(* The edit of a call that has finished is pinned by its claim.            *)
LEMMA EditedPinned ==
    ASSUME ControlInv, PinsOK, Served, NEW e \in Edited
    PROVE  EditPinned(prep.claim, e)
<1>1. /\ prep # NoPrep
      /\ call.pc = "done" => call.claim = prep.claim
      /\ gcsCall.pc = "done" => gcsCall.claim = prep.claim
  BY ServedPrepares
<1>2. CASE e \in prep.edits
  BY <1>1, <1>2 DEF PinsOK, PrepPinned
<1>3. CASE e \notin prep.edits
  BY <1>1, <1>3, EditedModels DEF PinsOK, CallPins, EditPinned
<1> QED BY <1>2, <1>3

(* With no claim prepared and no call there is nothing to be pinned.       *)
LEMMA NothingPinned ==
    ASSUME fresh' = {}, prep' = NoPrep, call' = NoCall, gcsCall' = gcs!NoCall
    PROVE  PinsOK'
BY DEF PinsOK, CallPins, FreshPinned, PrepPinned, NoCall, gcs!NoCall, Waiting

(* A call passes the pin of its UseModel on, and a download that it waits  *)
(* for is of no directory the scan found.                                  *)
LEMMA CallPinsKept ==
    ASSUME ControlInv, PinsOK, Next, Running PROVE CallPins'
<1>0. /\ CallPins /\ CallsOK
      /\ path \in [Model -> Provider \union {"none", "joined"}]
      /\ \A m \in Model : m \notin models => path[m] = "none"
      /\ "huggingface" \in Provider /\ "gcs" \in Provider /\ "none" \notin Provider
  BY DEF PinsOK, ControlInv, CacheInv, CacheTypeOK, EntriesOfModels, Provider
<1>1. /\ call.pc # "none" => call.model \in Model
      /\ gcsCall.pc # "none" => gcsCall.model \in Model
  BY <1>0 DEF CallsOK
<1>2. \A m \in Model : path[m] \notin Provider => path'[m] \notin Provider
  BY ScanFindsPaths DEF Running
<1>3. /\ call.pc \in {"info", "done"} /\ path'[call.model] = "huggingface"
            => call.claim \in inUse'[call.model]
      /\ gcsCall.pc \in {"stat", "done"} /\ path'[gcsCall.model] = "gcs"
            => gcsCall.claim \in inUse'[gcsCall.model]
  BY <1>0, <1>1, PinStays DEF CallPins
<1>4. gcsCall.pc = "done" /\ ~gcsCall.hook
            => gcsCall.model \in gcsBuckets' \union razed'
  <2> SUFFICES ASSUME gcsCall.pc = "done", ~gcsCall.hook,
                      gcsCall.model \notin gcsBuckets' \union razed'
               PROVE  FALSE
    OBVIOUS
  <2>1. gcsCall.model \in gcsBuckets \union razed
    BY <1>0 DEF CallPins
  <2>2. path[gcsCall.model] = "gcs" /\ inUse[gcsCall.model] = {}
    BY <2>1, BucketsStay
  <2> QED BY <1>0, <2>2 DEF CallPins
<1> DEFINE HfPins == /\ call.pc \in Waiting => path[call.model] \notin Provider
                     /\ call.pc \in {"info", "done"} /\ path[call.model] = "huggingface"
                           => call.claim \in inUse[call.model]
           GcsPins == /\ gcsCall.pc \in Waiting => path[gcsCall.model] \notin Provider
                      /\ gcsCall.pc \in {"stat", "done"} /\ path[gcsCall.model] = "gcs"
                            => gcsCall.claim \in inUse[gcsCall.model]
                      /\ gcsCall.pc = "done" /\ ~gcsCall.hook
                            => gcsCall.model \in gcsBuckets \union razed
<1>5. ASSUME SameCall(call', call) PROVE HfPins'
  BY <1>0, <1>1, <1>2, <1>3, <1>5 DEF SameCall, CallPins, Waiting
<1>6. ASSUME SameCall(gcsCall', gcsCall) PROVE GcsPins'
  BY <1>0, <1>1, <1>2, <1>3, <1>4, <1>6 DEF SameCall, CallPins, Waiting
<1>7. ASSUME call'.pc \in {"none", "stub", "find", "cached"} PROVE HfPins'
  BY <1>7 DEF Waiting
<1>8. ASSUME gcsCall'.pc \in {"none", "stub", "find", "cached"} PROVE GcsPins'
  BY <1>8 DEF Waiting
<1>9. ASSUME HfCallMove, call' # NoCall, call.pc # "none" PROVE HfPins'
  <2>1. CASE call.pc = "find" /\ call'.pc = "cached"
    BY <1>7, <2>1
  <2>2. CASE /\ call'.claim = call.claim /\ call'.model = call.model
             /\ \/ call'.pc = "info" /\ call.pc \in Waiting
                \/ /\ call'.pc \in Waiting
                   /\ \/ call.pc \in Waiting
                      \/ call.pc = "stub" /\ call.model \notin models
    <3>1. path[call.model] \notin Provider
      BY <1>0, <1>1, <1>9, <2>2 DEF CallPins
    <3>2. path'[call'.model] \notin Provider
      BY <1>1, <1>2, <1>9, <2>2, <3>1
    <3> QED BY <1>0, <3>2
  <2>3. CASE /\ call'.claim = call.claim /\ call'.model = call.model
             /\ \/ call'.pc = "info" /\ call.claim \in inUse'[call.model]
                \/ call'.pc = "done" /\ call.pc = "info"
    BY <1>3, <2>3 DEF Waiting
  <2> QED BY <1>9, <2>1, <2>2, <2>3 DEF HfCallMove
<1>10. ASSUME GcsCallMove, gcsCall' # gcs!NoCall, gcsCall.pc # "none" PROVE GcsPins'
  <2>1. CASE gcsCall.pc = "find" /\ gcsCall'.pc = "cached"
    BY <1>8, <2>1
  <2>2. CASE /\ gcsCall'.claim = gcsCall.claim /\ gcsCall'.model = gcsCall.model
             /\ \/ gcsCall'.pc = "stat" /\ gcsCall.pc \in Waiting
                \/ gcsCall'.pc = "done" /\ gcsCall.pc \in Waiting /\ gcsCall'.hook
                \/ /\ gcsCall'.pc \in Waiting
                   /\ \/ gcsCall.pc \in Waiting
                      \/ gcsCall.pc = "stub" /\ gcsCall.model \notin models
    <3>1. path[gcsCall.model] \notin Provider
      BY <1>0, <1>1, <1>10, <2>2 DEF CallPins
    <3>2. path'[gcsCall'.model] \notin Provider
      BY <1>1, <1>2, <1>10, <2>2, <3>1
    <3>3. gcsCall'.pc = "done" => gcsCall'.hook
      BY <2>2 DEF Waiting
    <3> QED BY <1>0, <3>2, <3>3
  <2>3. CASE /\ gcsCall'.claim = gcsCall.claim /\ gcsCall'.model = gcsCall.model
             /\ \/ gcsCall'.pc = "stat" /\ gcsCall.claim \in inUse'[gcsCall.model]
                \/ /\ gcsCall'.pc = "done" /\ gcsCall.pc = "stat"
                   /\ gcsCall.model \in gcsBuckets
    <3>1. UNCHANGED gcsBuckets
      BY <1>10 DEF GcsCallMove
    <3> QED BY <1>3, <2>3, <3>1 DEF Waiting
  <2> QED BY <1>10, <2>1, <2>2, <2>3 DEF GcsCallMove
<1>11. ASSUME NEW c, NEW devices, NEW edits, Starting(c, devices, edits)
       PROVE  HfPins' /\ GcsPins'
  <2>1. /\ call'.pc \in {"none", "stub", "find", "cached"}
        /\ gcsCall'.pc \in {"none", "stub", "find", "cached"}
    BY <1>11 DEF Starting, FirstCall, NoCall, gcs!NoCall
  <2> QED BY <1>7, <1>8, <2>1
<1>12. ASSUME call' = NoCall, gcsCall' = gcs!NoCall PROVE HfPins' /\ GcsPins'
  <2>1. /\ call'.pc \in {"none", "stub", "find", "cached"}
        /\ gcsCall'.pc \in {"none", "stub", "find", "cached"}
    BY <1>12 DEF NoCall, gcs!NoCall
  <2> QED BY <1>7, <1>8, <2>1
<1>13. UNCHANGED call => SameCall(call', call)
  BY DEF SameCall
<1>14. UNCHANGED gcsCall => SameCall(gcsCall', gcsCall)
  BY DEF SameCall
<1>15. HfPins' /\ GcsPins'
  <2> HIDE DEF HfPins, GcsPins
  <2> QED BY ClaimKinds, <1>5, <1>6, <1>9, <1>10, <1>11, <1>12, <1>13, <1>14
             DEF ClaimKind, Stays, CallEnds, Running
<1> QED BY <1>15 DEF CallPins

(* A claim takes its edits with their pins from its Prepare to its end.    *)
LEMMA EditsPinsKept ==
    ASSUME ControlInv, PinsOK, Next, Running
    PROVE  FreshPinned' /\ PrepPinned'
<1>0. /\ FreshPinned /\ PrepPinned /\ ClaimsOK /\ PrepOK
      /\ cdi \in [Claim -> SUBSET Edits] /\ fresh \subseteq Claim
  BY DEF PinsOK, ControlInv, ClaimsOK
<1>1. \A c \in fresh : \A e \in cdi[c] : EditPinned(c, e)'
  <2> TAKE c \in fresh
  <2> TAKE e \in cdi[c]
  <2>1. e \in Edits
    BY <1>0
  <2> QED BY <1>0, <2>1, EditStays DEF FreshPinned
<1>2. prep # NoPrep => prep.claim \in Claim
  BY <1>0 DEF PrepOK
<1>3. ASSUME NEW c, c = prep.claim, prep # NoPrep
      PROVE  /\ c \in Claim
             /\ \A e \in prep.edits : EditPinned(c, e)'
             /\ prep.left = <<>> => \A e \in cdi[c] : EditPinned(c, e)'
  <2>1. /\ c \in Claim /\ prep.edits \subseteq Edits /\ cdi[c] \subseteq Edits
    BY <1>0, <1>2, <1>3 DEF PrepOK
  <2>2. ASSUME NEW e \in Edits, EditPinned(c, e) PROVE EditPinned(c, e)'
    BY <2>2, EditStays
  <2>3. /\ \A e \in prep.edits : EditPinned(c, e)
        /\ prep.left = <<>> => \A e \in cdi[c] : EditPinned(c, e)
    BY <1>0, <1>3 DEF PrepPinned
  <2> QED BY <2>1, <2>2, <2>3
<1>4. ASSUME Served, NEW c, c = prep.claim
      PROVE  \A e \in Edited : EditPinned(c, e)'
  <2>1. Edited \subseteq Edits
    BY <1>4, EditedType
  <2>2. \A e \in Edited : EditPinned(c, e)
    BY <1>4, EditedPinned
  <2>3. ASSUME NEW e \in Edits, EditPinned(c, e) PROVE EditPinned(c, e)'
    BY <2>3, EditStays
  <2> QED BY <2>1, <2>2, <2>3
<1>5. Served => prep # NoPrep /\ prep.claim \in Claim
  BY ServedPrepares
<1>6. ASSUME UNCHANGED <<cdi, fresh>> PROVE FreshPinned'
  BY <1>1, <1>6 DEF FreshPinned
<1>7. ASSUME UNCHANGED <<cdi, prep>> PROVE PrepPinned'
  BY <1>3, <1>7 DEF PrepPinned
<1>8. ASSUME prep' = NoPrep PROVE PrepPinned'
  BY <1>8 DEF PrepPinned
<1>9. ASSUME NEW c, NEW devices, NEW edits, Starting(c, devices, edits),
             devices # <<>>, \A e \in edits : EditPinned(c, e)'
      PROVE  PrepPinned'
  BY <1>9 DEF Starting, PrepPinned
<1>10. CASE /\ Served
            /\ cdi' = [cdi EXCEPT ![prep.claim] = Edited]
            /\ prep'.claim = prep.claim /\ prep'.edits = {}
            /\ UNCHANGED fresh
  <2>1. PICK c \in Claim : c = prep.claim
    BY <1>5, <1>10
  <2>2. cdi'[c] = Edited /\ \A d \in Claim : d # c => cdi'[d] = cdi[d]
    BY <1>0, <1>10, <2>1
  <2>3. \A e \in Edited : EditPinned(c, e)'
    BY <1>4, <1>10, <2>1
  <2>4. FreshPinned'
    BY <1>0, <1>1, <1>10, <2>2, <2>3 DEF FreshPinned
  <2>5. PrepPinned'
    BY <1>10, <2>1, <2>2, <2>3 DEF PrepPinned
  <2> QED BY <2>4, <2>5
<1>11. CASE /\ prep # NoPrep /\ prep.left = <<>>
            /\ fresh' = fresh \union {prep.claim} /\ CallEnds
            /\ UNCHANGED cdi
  <2>1. PICK c \in Claim : c = prep.claim
    BY <1>2, <1>11
  <2>2. \A e \in cdi[c] : EditPinned(c, e)'
    BY <1>3, <1>11, <2>1
  <2>3. FreshPinned'
    BY <1>1, <1>11, <2>1, <2>2 DEF FreshPinned
  <2> QED BY <1>8, <1>11, <2>3 DEF CallEnds
<1>12. ASSUME NEW c \in Claim, cdi' = [cdi EXCEPT ![c] = {}],
              fresh' = fresh \ {c}, Stays
       PROVE  FreshPinned' /\ PrepPinned'
  <2>1. \A d \in Claim : cdi'[d] \subseteq cdi[d]
    BY <1>0, <1>12
  <2>2. FreshPinned'
    BY <1>0, <1>1, <1>12, <2>1 DEF FreshPinned
  <2>3. UNCHANGED prep
    BY <1>12 DEF Stays
  <2>4. PrepPinned'
    BY <1>2, <1>3, <2>1, <2>3 DEF PrepPinned
  <2> QED BY <2>2, <2>4
<1>13. CASE /\ \E c \in Claim, devices \in Seq(Device) :
                  devices # <<>> /\ Starting(c, devices, {})
            /\ UNCHANGED <<alloc, cdi, fresh>>
  BY <1>6, <1>9, <1>13
<1>14. CASE /\ \E devices \in Seq(Device) :
                  devices # <<>> /\ Starting(prep.claim, devices, Edited)
            /\ Served /\ UNCHANGED <<alloc, cdi, fresh>>
  <2>1. PICK c \in Claim : c = prep.claim
    BY <1>5, <1>14
  <2>2. PICK devices \in Seq(Device) :
           devices # <<>> /\ Starting(c, devices, Edited)
    BY <1>14, <2>1
  <2>3. \A e \in Edited : EditPinned(c, e)'
    BY <1>4, <1>14, <2>1
  <2>4. PICK edits : edits = Edited
    OBVIOUS
  <2>5. PrepPinned'
    BY <1>9, <2>2, <2>3, <2>4
  <2> QED BY <1>6, <1>14, <2>5
<1>15. CASE Stays /\ UNCHANGED <<cdi, fresh>>
  BY <1>6, <1>7, <1>15 DEF Stays
<1>16. CASE CallEnds /\ UNCHANGED <<cdi, fresh>>
  BY <1>6, <1>8, <1>16 DEF CallEnds
<1>17. CASE UNCHANGED <<prep, cdi, fresh>>
  BY <1>6, <1>7, <1>17
<1> QED BY ClaimKinds, <1>10, <1>11, <1>12, <1>13, <1>14, <1>15, <1>16, <1>17
           DEF ClaimKind, Running

(* A crash forgets the pins and the claims; the scan is over before there  *)
(* are any.                                                                *)
LEMMA PinsKept == ASSUME ControlInv, PinsOK, Next PROVE PinsOK'
<1>1. CASE Crash
  BY <1>1, NothingPinned DEF Crash, RestartProvider, gcs!RestartGCSProvider
<1>2. ASSUME NEW m \in Model, Scan(m) PROVE PinsOK'
  <2>1. fresh = {} /\ prep = NoPrep /\ call = NoCall /\ gcsCall = gcs!NoCall
    BY <1>2 DEF Scan, ControlInv, DownOK
  <2>2. UNCHANGED <<fresh, prep, call, gcsCall>>
    BY <1>2 DEF Scan
  <2> QED BY <2>1, <2>2, NothingPinned
<1>3. CASE Running
  BY <1>3, CallPinsKept, EditsPinsKept DEF PinsOK
<1> QED BY <1>1, <1>2, <1>3 DEF Running

(* What is mounted, or about to be, is pinned where the scan found it.     *)
THEOREM PinsCorrect == Spec => []PinsOK
<1>1. Init => PinsOK
  <2> SUFFICES ASSUME Init PROVE PinsOK
    OBVIOUS
  <2>1. fresh = {} /\ prep = NoPrep /\ call = NoCall /\ gcsCall = gcs!NoCall
    BY DEF Init, NewProvider, gcs!NewGCSProvider
  <2> QED BY <2>1 DEF PinsOK, CallPins, FreshPinned, PrepPinned, NoCall,
             gcs!NoCall, Waiting
<1>2. PinsOK /\ UNCHANGED vars => PinsOK'
  BY DEF PinsOK, CallPins, FreshPinned, PrepPinned, EditPinned
<1>3. PinsOK /\ ControlInv /\ [Next]_vars => PinsOK'
  BY <1>2, PinsKept
<1> QED BY <1>1, <1>3, ControlCorrect, PTL DEF Spec

(* What the CDI file of a claim mounts without waiting for a download is   *)
(* there, from Prepare until the claim ends, unless an eviction took the   *)
(* <org> directory around it.                                              *)
THEOREM MountIsKept == Spec => []PreparedKeepsMount
<1>1. PinsOK => PreparedKeepsMount
  BY DEF PinsOK, FreshPinned, EditPinned, PreparedKeepsMount
<1> QED BY <1>1, PinsCorrect, PTL

(* A container prepared by the running process keeps its model: an         *)
(* eviction in the background never takes files from under it.             *)
THEOREM FilesAreKept == Spec => RunningKeepsFiles
<1>1. ASSUME ControlInv, PinsOK, Next, NEW c \in fresh, NEW e \in cdi[c],
             e.provider = "huggingface", Complete(e.model, e.sha)
      PROVE  Complete(e.model, e.sha)'
  <2>1. disk \subseteq disk' => Complete(e.model, e.sha)'
    BY <1>1 DEF Complete
  <2>2. CASE UNCHANGED disk
    BY <2>1, <2>2
  <2>3. CASE Crash
    BY <2>1, <2>3 DEF Crash
  <2>4. ASSUME NEW g \in Fetcher, GoroutineStep(g) PROVE Complete(e.model, e.sha)'
    BY <1>1, <2>1, <2>4, GoroutineMoves DEF GoroutineMove
  <2>5. ASSUME NEW g, NEW m \in Model, Evict(g, m) PROVE Complete(e.model, e.sha)'
    <3>1. CASE e.model = m
      <4>1. path[m] = "huggingface" => c \in inUse[m]
        BY <1>1, <3>1 DEF PinsOK, FreshPinned, EditPinned
      <4>2. UNCHANGED disk
        BY <2>5, <4>1, EvictSpares
      <4> QED BY <2>1, <4>2
    <3>2. CASE e.model # m
      <4>1. \A n, r, f : n # m /\ <<n, r, f>> \in disk => <<n, r, f>> \in disk'
        BY <1>1, <2>5, EvictTakes
      <4> QED BY <1>1, <3>2, <4>1 DEF Complete
    <3> QED BY <3>1, <3>2
  <2>6. ASSUME NEW m \in Model, Scan(m) \/ Push(m) PROVE UNCHANGED disk
    BY <2>6 DEF Scan, Push
  <2> QED BY <1>1, DownloadKinds, <2>2, <2>3, <2>4, <2>5, <2>6
<1>2. ASSUME UNCHANGED vars, NEW c, NEW e, Complete(e.model, e.sha)
      PROVE  Complete(e.model, e.sha)'
  BY <1>2 DEF Complete
<1>3. ControlInv /\ PinsOK /\ [Next]_vars =>
         [\A c \in fresh : \A e \in cdi[c] :
             /\ st[c] = "running" /\ c \in fresh'
             /\ e.provider = "huggingface" /\ Complete(e.model, e.sha)
             => Complete(e.model, e.sha)']_vars
  BY <1>1, <1>2
<1> QED BY <1>3, ControlCorrect, PinsCorrect, PTL DEF Spec, RunningKeepsFiles

-----------------------------------------------------------------------------
(* A claim is prepared for what it asked: a call that downloads, or may do *)
(* so, is for a model of its requests; one for a cached device is for a    *)
(* model of the device name of one of them.                                *)
AskedFor(c, m) == \E i \in DOMAIN alloc[c].spec.requests :
                     m = alloc[c].spec.requests[i].model
LikeAsked(c, m) == \E i \in DOMAIN alloc[c].spec.requests :
                     DeviceName[m] = DeviceName[alloc[c].spec.requests[i].model]

RightCall(k) == k.pc # "none" =>
                   /\ k.pc \in {"find", "cached"} => ~k.hook
                   /\ k.hook \/ k.pc \in {"stub", "find"} \union Waiting
                         => AskedFor(k.claim, k.model)
                   /\ LikeAsked(k.claim, k.model)
RightEdit(c, e) == /\ e.hook => AskedFor(c, e.model)
                   /\ LikeAsked(c, e.model)

AskedOK == /\ RightCall(call) /\ RightCall(gcsCall)
           /\ \A e \in prep.edits : RightEdit(prep.claim, e)
           /\ \A c \in Claim : \A e \in cdi[c] : RightEdit(c, e)

(* The hypothesis: a claim that is admitted has no loader for a model that *)
(* none of its requests is for (README.md:97 has one of each).             *)
LoadersAsked ==
    \A s \in ClaimSpec : webhook!Admitted(Review(s)) =>
       \A i \in DOMAIN s.config :
          s.config[i].driver = DriverName /\ s.config[i].params.form = "strict"
             => \E j \in DOMAIN s.requests :
                   s.config[i].params.model = s.requests[j].model

(* What was asked stays so: claims keep their allocation.                  *)
LEMMA AskedStays ==
    ASSUME NEW c, alloc'[c] = alloc[c], NEW m
    PROVE  /\ AskedFor(c, m) => AskedFor(c, m)'
           /\ LikeAsked(c, m) => LikeAsked(c, m)'
BY DEF AskedFor, LikeAsked

(* A model that was asked for has the device name of one that was.         *)
LEMMA AskedIsLike == ASSUME NEW c, NEW m, AskedFor(c, m) PROVE LikeAsked(c, m)
BY DEF AskedFor, LikeAsked

(* The steps of a call.                                                    *)
LEMMA RightHfMove ==
    ASSUME HfCallMove, call' # NoCall, call.pc # "none", RightCall(call)
    PROVE  RightCall(call')
<1>1. CASE call.pc = "find" /\ call'.pc = "cached"
  <2>1. /\ call'.claim = call.claim /\ ~ call'.hook
        /\ DeviceName[call'.model] = DeviceName[call.model]
    BY <1>1 DEF HfCallMove, RightCall, Waiting
  <2>2. LikeAsked(call.claim, call.model)
    BY <1>1 DEF RightCall
  <2>3. LikeAsked(call.claim, call'.model)
    BY <2>1, <2>2 DEF LikeAsked
  <2> QED BY <1>1, <2>1, <2>3 DEF RightCall, Waiting
<1>2. CASE /\ call'.claim = call.claim /\ call'.model = call.model
           /\ ~ (call.pc = "find" /\ call'.pc = "cached")
  BY <1>2 DEF HfCallMove, RightCall, Waiting
<1> QED BY <1>1, <1>2 DEF HfCallMove

(* The same of a call of the GCS provider.                                 *)
LEMMA RightGcsMove ==
    ASSUME GcsCallMove, gcsCall' # gcs!NoCall, gcsCall.pc # "none",
           RightCall(gcsCall)
    PROVE  RightCall(gcsCall')
<1>1. CASE gcsCall.pc = "find" /\ gcsCall'.pc = "cached"
  <2>1. /\ gcsCall'.claim = gcsCall.claim /\ ~ gcsCall'.hook
        /\ DeviceName[gcsCall'.model] = DeviceName[gcsCall.model]
    BY <1>1 DEF GcsCallMove, RightCall, Waiting
  <2>2. LikeAsked(gcsCall.claim, gcsCall.model)
    BY <1>1 DEF RightCall
  <2>3. LikeAsked(gcsCall.claim, gcsCall'.model)
    BY <2>1, <2>2 DEF LikeAsked
  <2> QED BY <1>1, <2>1, <2>3 DEF RightCall, Waiting
<1>2. CASE /\ gcsCall'.claim = gcsCall.claim /\ gcsCall'.model = gcsCall.model
           /\ ~ (gcsCall.pc = "find" /\ gcsCall'.pc = "cached")
  BY <1>2 DEF GcsCallMove, RightCall, Waiting
<1> QED BY <1>1, <1>2 DEF GcsCallMove

(* The first call for a device.                                            *)
LEMMA RightFirst ==
    ASSUME LoadersAsked, ControlInv, NEW c \in Claim, st[c] = "allocated",
           NEW k, FirstCall(k, c)
    PROVE  RightCall(k)
<1>1. AskedFor(c, k.model)
  <2>1. CASE k.pc = "find"
    BY <2>1 DEF FirstCall, AskedFor
  <2>2. CASE k.pc # "find"
    <3>1. alloc[c].spec \in ClaimSpec /\ webhook!Admitted(Review(alloc[c].spec))
      BY DEF ControlInv, ClaimsOK
    <3>2. /\ k.model = LoaderOf(alloc[c].spec.config).model
          /\ LoaderOf(alloc[c].spec.config) # NoLoader
      BY <2>2 DEF FirstCall
    <3>3. PICK i \in DOMAIN alloc[c].spec.config :
             /\ alloc[c].spec.config[i].driver = DriverName
             /\ alloc[c].spec.config[i].params.form = "strict"
             /\ LoaderOf(alloc[c].spec.config) = alloc[c].spec.config[i].params
      BY <3>1, <3>2, LoaderNamesModel
    <3>4. \E j \in DOMAIN alloc[c].spec.requests :
             alloc[c].spec.config[i].params.model = alloc[c].spec.requests[j].model
      BY <3>1, <3>3 DEF LoadersAsked
    <3> QED BY <3>2, <3>3, <3>4 DEF AskedFor
  <2> QED BY <2>1, <2>2
<1>2. LikeAsked(c, k.model)
  BY <1>1, AskedIsLike
<1>3. k.claim = c /\ ~k.hook /\ k.pc \in {"stub", "find"}
  BY DEF FirstCall
<1> QED BY <1>1, <1>2, <1>3 DEF RightCall

(* The edit of a call that has finished.                                   *)
LEMMA RightEdited ==
    ASSUME ControlInv, AskedOK, Served, NEW e \in Edited
    PROVE  RightEdit(prep.claim, e)
<1>1. /\ call.pc = "done" => call.claim = prep.claim
      /\ gcsCall.pc = "done" => gcsCall.claim = prep.claim
  BY ServedPrepares
<1>2. CASE e \in prep.edits
  BY <1>2 DEF AskedOK
<1>3. CASE e \notin prep.edits
  BY <1>1, <1>3, EditedModels DEF AskedOK, RightCall, RightEdit
<1> QED BY <1>2, <1>3

(* Every step keeps calls, edits and CDI files to what was asked.          *)
LEMMA AskedKept == ASSUME LoadersAsked, ControlInv, AskedOK, Next PROVE AskedOK'
<1>0. /\ AskedOK /\ CallsOK /\ PrepOK /\ ClaimsOK
      /\ cdi \in [Claim -> SUBSET Edits]
      /\ alloc \in [Claim -> [spec : ClaimSpec \union {None}, devices : Seq(Device)]]
  BY DEF ControlInv, ClaimsOK
<1>1. Served => prep.claim \in Claim /\ \A e \in Edited : RightEdit(prep.claim, e)
  BY <1>0, ServedPrepares, RightEdited
<1> DEFINE Calls == RightCall(call') /\ RightCall(gcsCall')
           Edits2 == /\ \A e \in prep'.edits : RightEdit(prep'.claim, e)
                     /\ \A c \in Claim : \A e \in cdi'[c] : RightEdit(c, e)
<1>2. ASSUME UNCHANGED alloc, Calls, Edits2 PROVE AskedOK'
  BY <1>2 DEF AskedOK, RightCall, RightEdit, AskedFor, LikeAsked
<1>3. RightCall(NoCall) /\ RightCall(gcs!NoCall)
  BY DEF RightCall, NoCall, gcs!NoCall
<1>4. Stays => Calls
  BY <1>0 DEF Stays, SameCall, AskedOK, RightCall
<1>5. UNCHANGED <<prep, cdi>> => Edits2
  BY <1>0 DEF AskedOK
<1>6. CallEnds => Calls
  BY <1>3 DEF CallEnds
<1>7. prep'.edits = {} /\ UNCHANGED cdi => Edits2
  BY <1>0 DEF AskedOK
<1>8. CASE Stays /\ UNCHANGED <<alloc, cdi, fresh>>
  BY <1>2, <1>4, <1>5, <1>8 DEF Stays
<1>9. CASE Crash
  <2>1. UNCHANGED <<alloc, cdi>> /\ CallEnds
    BY <1>9 DEF Crash, RestartProvider, gcs!RestartGCSProvider, CallEnds
  <2>2. prep'.edits = {}
    BY <2>1 DEF CallEnds, NoPrep
  <2> QED BY <1>2, <1>6, <1>7, <2>1, <2>2
<1>10. CASE CallEnds /\ UNCHANGED <<alloc, cdi>>
  <2>1. prep'.edits = {}
    BY <1>10 DEF CallEnds, NoPrep
  <2> QED BY <1>2, <1>6, <1>7, <1>10, <2>1
<1>11. CASE /\ HfCallMove /\ call' # NoCall /\ call.pc # "none"
            /\ UNCHANGED <<prep, gcsCall, alloc, cdi, fresh>>
  <2>1. Calls
    BY <1>0, <1>11, RightHfMove DEF AskedOK
  <2> QED BY <1>2, <1>5, <1>11, <2>1
<1>12. CASE /\ GcsCallMove /\ gcsCall' # gcs!NoCall /\ gcsCall.pc # "none"
            /\ UNCHANGED <<prep, call, alloc, cdi, fresh>>
  <2>1. Calls
    BY <1>0, <1>12, RightGcsMove DEF AskedOK
  <2> QED BY <1>2, <1>5, <1>12, <2>1
<1>13. ASSUME NEW c \in Claim, NEW devices, NEW edits,
              Starting(c, devices, edits), \A e \in edits : RightEdit(c, e),
              UNCHANGED <<alloc, cdi, fresh>>
       PROVE  AskedOK'
  <2>1. Calls
    BY <1>3, <1>13, RightFirst DEF Starting
  <2>2. Edits2
    BY <1>0, <1>13 DEF Starting, AskedOK
  <2> QED BY <1>2, <1>13, <2>1, <2>2
<1>14. CASE /\ \E c \in Claim, devices \in Seq(Device) :
                  devices # <<>> /\ Starting(c, devices, {})
            /\ UNCHANGED <<alloc, cdi, fresh>>
  BY <1>13, <1>14
<1>15. CASE /\ \E devices \in Seq(Device) :
                  devices # <<>> /\ Starting(prep.claim, devices, Edited)
            /\ Served /\ UNCHANGED <<alloc, cdi, fresh>>
  BY <1>1, <1>13, <1>15
<1>16. CASE /\ Served
            /\ cdi' = [cdi EXCEPT ![prep.claim] = Edited]
            /\ prep'.edits = {}
            /\ call' = NoCall /\ gcsCall' = gcs!NoCall
            /\ UNCHANGED alloc
  <2>1. \A c \in Claim : \/ cdi'[c] = cdi[c]
                         \/ c = prep.claim /\ cdi'[c] = Edited
    BY <1>0, <1>16
  <2>2. Edits2
    BY <1>0, <1>1, <1>16, <2>1 DEF AskedOK
  <2> QED BY <1>2, <1>3, <1>16, <2>2
<1>17. CASE /\ \E c \in Claim : cdi' = [cdi EXCEPT ![c] = {}]
            /\ Stays /\ UNCHANGED alloc
  <2>1. \A c \in Claim : cdi'[c] \subseteq cdi[c]
    BY <1>0, <1>17
  <2>2. Edits2
    BY <1>0, <1>17, <2>1 DEF AskedOK, Stays
  <2> QED BY <1>2, <1>4, <1>17, <2>2
<1>18. ASSUME NEW c \in Claim, st[c] = "none", NEW new,
              alloc' = [alloc EXCEPT ![c] = new], Stays, UNCHANGED cdi
       PROVE  AskedOK'
  <2>1. cdi[c] = {} /\ \A d \in Claim : d # c => alloc'[d] = alloc[d]
    BY <1>0, <1>18 DEF ClaimsOK
  <2>2. prep # NoPrep => prep.claim # c /\ prep.claim \in Claim
    BY <1>0, <1>18 DEF PrepOK
  <2>3. /\ call.pc # "none" => call.claim = prep.claim /\ prep # NoPrep
        /\ gcsCall.pc # "none" => gcsCall.claim = prep.claim /\ prep # NoPrep
    <3>1. call # NoCall \/ gcsCall # gcs!NoCall => prep # NoPrep
      BY <1>0 DEF PrepOK, NoPrep
    <3> QED BY <1>0, <3>1 DEF CallsOK, NoCall, gcs!NoCall
  <2>5. ASSUME NEW d, alloc'[d] = alloc[d], NEW e, RightEdit(d, e)
        PROVE  RightEdit(d, e)'
    BY <2>5, AskedStays DEF RightEdit
  <2>6. Calls
    BY <1>4, <1>18
  <2>7. /\ call'.pc # "none" => alloc'[call'.claim] = alloc[call'.claim]
        /\ gcsCall'.pc # "none" => alloc'[gcsCall'.claim] = alloc[gcsCall'.claim]
    BY <1>18, <2>1, <2>2, <2>3 DEF Stays, SameCall
  <2>8. RightCall(call)'
    BY <2>6, <2>7 DEF RightCall, AskedFor, LikeAsked
  <2>9. RightCall(gcsCall)'
    BY <2>6, <2>7 DEF RightCall, AskedFor, LikeAsked
  <2>10. (\A d \in Claim : \A e \in cdi[d] : RightEdit(d, e))'
    <3> SUFFICES ASSUME NEW d \in Claim, NEW e \in cdi[d] PROVE RightEdit(d, e)'
      BY <1>18
    <3>1. alloc'[d] = alloc[d] /\ RightEdit(d, e)
      BY <1>0, <2>1 DEF AskedOK
    <3> QED BY <2>5, <3>1
  <2>11. (\A e \in prep.edits : RightEdit(prep.claim, e))'
    <3>1. UNCHANGED prep
      BY <1>18 DEF Stays
    <3>2. CASE prep = NoPrep
      BY <3>1, <3>2 DEF NoPrep
    <3>3. CASE prep # NoPrep
      <4>1. PICK d \in Claim : d = prep.claim
        BY <2>2, <3>3
      <4>2. alloc'[d] = alloc[d] /\ \A e \in prep.edits : RightEdit(d, e)
        BY <1>0, <2>1, <2>2, <3>3, <4>1 DEF AskedOK
      <4>3. \A e \in prep.edits : RightEdit(d, e)'
        BY <2>5, <4>2
      <4> QED BY <3>1, <4>1, <4>3 DEF RightEdit, AskedFor, LikeAsked
    <3> QED BY <3>2, <3>3
  <2> QED BY <2>8, <2>9, <2>10, <2>11 DEF AskedOK
<1> QED BY ClaimKinds, <1>8, <1>9, <1>10, <1>11, <1>12, <1>14, <1>15, <1>16,
           <1>17, <1>18 DEF ClaimKind

(* Where no admitted claim has a loader that its requests do not ask for,  *)
(* a claim is given the models it asks for, although devices are looked up *)
(* by name in a list that changes after the allocation, and although one   *)
(* ModelLoader serves all devices of a claim.                              *)
THEOREM PreparesAsked == LoadersAsked => (Spec => []PreparesWhatWasAsked)
<1> SUFFICES ASSUME LoadersAsked PROVE Spec => []PreparesWhatWasAsked
  OBVIOUS
<1>1. Init => AskedOK
  <2> SUFFICES ASSUME Init PROVE AskedOK
    OBVIOUS
  <2>1. call = NoCall /\ gcsCall = gcs!NoCall /\ prep = NoPrep
        /\ cdi = [c \in Claim |-> {}]
    BY DEF Init, NewProvider, gcs!NewGCSProvider
  <2> QED BY <2>1 DEF AskedOK, RightCall, NoCall, gcs!NoCall, NoPrep
<1>2. AskedOK /\ UNCHANGED vars => AskedOK'
  BY DEF AskedOK, RightCall, RightEdit, AskedFor, LikeAsked
<1>3. AskedOK /\ ControlInv /\ [Next]_vars => AskedOK'
  BY <1>2, AskedKept
<1>4. AskedOK => PreparesWhatWasAsked
  BY DEF AskedOK, RightEdit, AskedFor, LikeAsked, PreparesWhatWasAsked
<1> QED BY <1>1, <1>3, <1>4, ControlCorrect, PTL DEF Spec
=============================================================================
