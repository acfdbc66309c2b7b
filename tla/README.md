# dra-drivers: TLA+ models and proofs

The repository holds two Kubernetes DRA (Dynamic Resource Allocation) drivers:

- **dra-driver-model-cache**: a kubelet plugin that downloads AI models to a
  node, keeps them in a bounded cache, advertises them as devices of a
  ResourceSlice and mounts them into the pods whose claims ask for them; and an
  admission webhook for its claims.
- **dra-driver-image-configurator**: a controller that rewrites container
  images of a pod as the claims of the pod say, and holds the pod back with a
  binding condition until it has done so.

The modules here model the parts of both that have state, TLC checks them on
small instances, and TLAPS proves most of their safety properties for every
instance. Paths below are relative to `src/`.

## 1. Inventory

### Components of dra-driver-model-cache

| Component | State | Operations | Correct when |
|---|---|---|---|
| Cache manager, `internal/cache/manager.go` | map of model id to (path, size, users, last use), total size, one mutex, a callback | `Scan`, `UseModel`, `ReleaseModel`, `EnsureSpace`/`evictLRU`, `AddModel`, `SetOnUpdate`, `GetModel`, `GetCachedModels` | a model a claim holds is not evicted; the oldest idle one is; the total is the sum of the entries; it stays near `maxSize`; `EnsureSpace` ends |
| Hugging Face provider, `internal/provider/huggingface` | `ongoingDownloads` (a channel per model) under `p.mu`; directories, snapshots and `.complete` files on disk | `PrepareClaims`, `UnprepareClaims`, `downloadModel` and its goroutine, `Devices`, `DiscoverModels` | one download per model; `.complete` and the cache entry say no more than what is on disk; a claim is prepared with a hook or with its model |
| GCS provider, `internal/provider/gcs` | the same shape; one directory `gcs/<id>` per model, inside that of `<org>` | the same, and a `Stat` of the directory before the claim is prepared | the same; and the two providers do not take each other's models |
| Kubelet plugin, `cmd/model-cache-kubeletplugin` (`driver.go`, `state.go`, `cdi.go`, `main.go`) | mutex of `DeviceState`, CDI files, the published slice | start-up, `Prepare` of each device of a claim, `Unprepare`, republication | the slice says what is cached; a claim gets the models it asks for; containers start only with their model; pins end with their claim |
| Health check, shutdown, `health.go` | none | a `NodePrepareResources` with no claims | answers |
| Webhook, `cmd/model-cache-webhook` | none | validates claim parameters | no model without an id comes to the providers |
| Checkpoint, profiles, configuration, API types | none that is used | decoding | |

### Components of dra-driver-image-configurator

| Component | State | Operations | Correct when |
|---|---|---|---|
| Pod controller, `internal/controller/pod_controller.go` | work queue, informer caches of pods and claims; the objects are in the API server | `Reconcile`: `collectPendingBindingResults`, the config checks, `patchImages`, `setBindingCondition` | a pod is bound only with the images its current allocations configure; conditions are only on allocated devices; a configured pod proceeds |
| `main.go` | one static device with the binding condition | publishes a slice, starts the manager | |

### How they interact

- Claims pass the webhook when they are created and reach the plugin through
  the kubelet: `Prepare` and `Unprepare` are serialised by the mutex of
  `DeviceState`, and pick the provider of each device by the device's name.
- Both providers keep their models in the one cache manager, which knows them
  by id only, and on disks of their own.
- `PrepareClaims` pins models in the cache manager, or starts a background
  goroutine which calls `EnsureSpace` and, a whole download later, `AddModel`.
- `AddModel` and `evictLRU` start a goroutine for the callback, which reads
  `Devices()` and publishes the ResourceSlice; the scheduler allocates devices
  of whatever slice it sees.
- The CDI file that `Prepare` writes names a snapshot directory and, while a
  download is in progress, a `createContainer` hook that waits for the file
  `.complete` which the goroutine writes last.
- The image configurator and the scheduler share pods and claims in the API
  server: optimistic concurrency by resourceVersion, reads through informers.

### What is hard

- *Two critical sections for one decision*: `EnsureSpace` then `AddModel`;
  `GetModel` under `p.mu`, then the channel without it; `Devices()` then
  `UseModel`; `Info()` then each `Download`, then `Info()` again.
- *Callbacks out of order*: each publication reads and writes at its own time.
- *Failures in the middle*: of a download, of a publication, of an update.
- *Restart*: the disk, the CDI files and the containers stay, users, order of
  use and downloads in progress are lost.
- *Lagging reads*: informers, which can still show a pod or a claim from before
  an allocation was undone and made of another subrequest; resource slices; a device that is looked up by
  its name long after the scheduler chose it.
- *Names that meet*: an id that both providers have, an id that is the
  directory of another, two ids with one device name.
- *Things that must happen*: the hook waits for a goroutine that may have
  failed; the scheduler waits for a condition.

`PROJECT.json` lists these hazards line by line with the properties that
cover them.

## 2. Modules

```
PinnedStore            what the cache promises
     ^ refined by
CacheManager           manager.go, state and operations
     ^ extended by                         ^ extended by both
CacheClients           every caller     HuggingFaceProvider  GCSProvider  Webhook
     ^ extended by                         ^ extended by        ^ instance   ^ instance
SlicePublisher         driver.go        ModelCachePlugin      the node
PodReconciler          the image configurator, on its own
```

The proofs extend the modules they are about, and each other:

```
CacheClients_proofs    CacheClients: types, sum, order, overshoot, refinement
     ^
SlicePublisher_proofs  SlicePublisher
CacheManager_proofs    the operations of the cache manager, for its callers
     ^
ModelCachePlugin_proofs   the node: the control invariant, one download
     ^
PluginDownloads_proofs    what the downloads leave on the disk
     ^
PluginClaims_proofs       names, pins and mounts of claims
     ^
PluginNominal_proofs      the slice and the hook, on instances without faults
PodReconciler_proofs      PodReconciler
```

Each `MC...` module gives the definitions its configurations need.

### CacheManager

`models` is the key set of the map; `path`, `size`, `inUse` are the fields of
the entries; `older` is the order of `LastUsed`, as pairs, since the code only
compares the times. `Touch` is `LastUsed = time.Now()`: the clock is taken to
increase from one call to the next, which the mutex orders (time.Now is
monotonic within a process; two equal readings are not modelled). One action
stands for one method under the mutex, except `EnsureSpace`, whose iterations
delete directories that others see: there `holder` is the mutex, and one action
is one iteration, with its victim (`EvictLRU`), or the return (`SpaceEnsured`,
`SpaceRefused`). `Notify` is `go cm.onUpdate()`: it counts goroutines that are
started and have not run. `path` keeps one thing about directories that
matters: `Scan` records the directory it walked, `AddModel` records
`root/modelID`, where no provider puts a file.

### CacheClients

The closed system of the manager and of everything that calls it, whatever the
provider: the scan before the plugin is up, claims that use and release, and
goroutines that call `EnsureSpace` (`Download`), are granted or refused, and
call `AddModel` (`Add`) or fail in between (`Abandon`). The callback only
consumes its token here.

### PinnedStore

The promise to the callers: an item somebody has pinned is never dropped, and
the one dropped was touched before every other unpinned one. No sizes, mutex,
directories or callbacks. `KeepsPins` in CacheClients is the refinement.

### HuggingFaceProvider

`call` is the program counter and the locals of the one `PrepareClaims` in
progress, `dl[g]` those of background goroutine `g`, `ongoing` the map of
channels. The disk is `dirs` (what `isModelInCache` looks for), `disk` (files
of a commit) and `sentinel` (`.complete`). `rev` is what the hub answers to
`Info()`; `Push` changes it. One step is one region between two points where
another goroutine can act: the provider's and the manager's critical sections,
each request to the hub, each write to the disk, and the `select` on the
channel after `p.mu` was released. `close(ch)` is `call.ch' = None`.

### GCSProvider

The same shape as the Hugging Face provider, with its own `ongoing`, `dl` and
`call`. It downloads nothing: its goroutine makes the directory, enters the
model and writes the sentinel. The disk is `buckets` (the ids whose directory
exists; `MkdirAll` makes that of `<org>` too) and `sentinel`. `Org` maps an id
to its first component. The walk after a restart meets `gcs/<org>` first and
takes it for the model (`Discoverable`), and evicting that entry takes every
model of the organisation along (`RemoveBucket`). A claim that does not wait for
a download needs the directory to be there (`StatDirectory`).

### Webhook

A predicate, `Admitted`, on an AdmissionReview: the resource and version, whether
the object decodes, and its opaque configurations. Of the parameters only what
the decoder makes of them matters: nothing, no object, an object with an error
(a field that is not known, which the strict decoder reports and returns the
object all the same), or an object; and whether its fields are empty.

### ModelCachePlugin

The process with one or both providers (`Enabled`) and what surrounds it: users
who create claims (`ClaimSpec`) as far as the webhook admits them, the scheduler
(`Allocate`, from the published slice or the stub devices), the kubelet
(`Prepare`, `Prepared`, `Unprepare`), the CDI file, the runtime
(`StartContainer` with its mounts and hooks), pods that stop, `Crash`, `Scan` and
`NewDriver` of the next process, and failures of each request and each write.
A claim has a sequence of requests, each for one device, and of configurations.
`prep` is `DeviceState.Prepare` in progress: `LoaderOf` is its search for a
ModelLoader (the first configuration that decodes, else the object of the last), `Serve` takes one device to its provider's `call`, `NextDevice`
collects the edits and goes on, and an error of any device ends the Prepare and
undoes nothing. `cdi[c]` is the set of edits of the claim's file: the provider,
the model, the snapshot and whether there is a hook.

`Init` has whatever earlier processes may have left on the disk (`Before`), so
that a run can start with models that `Scan` finds, without a crash before.
`DeviceName` maps ids to the names that lower-casing and `-` for `/` make of
them; `Published` is the refusal of a slice with two devices of one name.

### SlicePublisher

CacheClients with `NewDriver` in steps (the claims are served from the start of
the kubelet helper; read the devices; publish; register the callback) and with
each callback split at its two effects, the read of `Devices()` and
`PublishResources`, which replaces the pool. A history variable, `disturbed`,
records the three ways the last read of the devices can fail to have the last
word.

### PodReconciler

`pod` and `claim` are the API server's objects with their versions, `podCache`
and `claimCache` the informers, `queue` the work queue (a set, as it merges
equal requests), `worker` the single worker with what it read: the versions,
the ImageConfigs, and whether the copy of the pod has their images already.
A claim carries the ImageConfigs of its allocation: `Allocate` chooses one of
the claim's alternatives (`ConfigsOf`: which subrequest is satisfied decides
which configurations come with the allocation), `Timeout` takes it back, and the
next `Allocate` may choose another. `Reconcile` is the part of the handler that
only reads, and fixes the configurations it read (`Configs`, from the
informer) for `patchImages`, as the code passes them on. `patchImages` and each
`setBindingCondition` are one update each, which conflicts when the version has
moved on; `patchImages` makes none when the copy needed none (line 254). The
scheduler (external: modelled from how the code relies on it) nominates,
allocates, binds when every condition is set, or times out and deallocates the
claims no other pod uses. Only pods are watched, so only `SyncPod` queues.

A history variable, `misled`, has the pods whose last verification found the
configured images in a copy while the pod had others: the one way in which a
pod with its own claims can be bound with other images.

## 3. Runs

| Run | Module | Properties | What it shows |
|---|---|---|---|
| cache_safety | MCCacheClients | TypeOK, Accounting, LastUsedTotal, BoundedOvershoot, KeepsPins, EnsureSpaceReturns | the manager under every interleaving of three models, two claims and two goroutines, a scan that may exceed the limit included |
| cache_overshoot | MCCacheClients | SizeWithinMax, violated | two downloads share one grant |
| plugin_faults | MCModelCachePlugin | SentinelMeansComplete, OneDownload, AddedMeansComplete, RunningKeepsFiles | the node with one failure anywhere, one crash and one push to a repository |
| plugin_nominal | MCModelCachePlugin | SliceMeansComplete, StartsOnlyWhenComplete, ClaimsServed | both providers, an id for each: the slice lists complete models only, the hook works, and every claim is served, those of the GCS provider unless a step of it failed |
| plugin_providers | MCModelCachePlugin | TypeOK, OneDownload, AddedMeansComplete, PreparedKeepsMount, OnlyNamedModels, PreparesWhatWasAsked | both providers with ids, names and directories that meet, after a restart: claims get what they ask for and their mounts stay |
| plugin_gate | MCModelCachePlugin | StartsOnlyWhenComplete, violated | one failed download opens the hook's gate for another claim |
| plugin_unprepare | MCModelCachePlugin | UnprepareReleases, violated | pins outlive their claims |
| publisher_races | MCSlicePublisher | PublisherTypeOK, UndisturbedSliceIsCurrent | a quiet slice is stale only in the three ways named |
| publisher_stale | MCSlicePublisher | SliceIsCurrent, violated | a change during start-up is not published |
| reconciler | MCPodReconciler | TypeOK, BoundUnlessMisled, ConditionNeedsAllocation, PodsProceed | stale reads, conflicts, one crash anywhere, one binding timeout and an allocation for another subrequest: only an old copy that is taken for verified lets a pod through with another image, and only for a container with a choice of images; a well configured pod is bound |
| reconciler_fallback | MCPodReconciler | BoundPodsPatched, violated | an old copy with the image of the new allocation is taken for verified |
| reconciler_shared | MCPodReconciler | BoundPodsPatched, violated | a claim shared by two pods |

### Bounds and why they are enough

- **Cache**: `MaxSize` 2 and three models of size 1, or scanned with size 2:
  a full cache with an idle and a pinned model and a third that wants in, an
  eviction that frees too little, one that frees more than is needed, and a
  scan already over the limit. Two goroutines share one grant; the theorem
  covers any number. `MaxSpawned` bounds callbacks that have not run:
  a download starts only with fewer pending.
- **Plugin**: two repositories of two files (a partial snapshot exists), two
  claims (they meet on one model or evict each other's), two goroutines,
  a cache that the scan can fill with one directory. `MaxFailures`,
  `MaxCrashes` and `MaxPushes` are 1 in plugin_faults: each combination of one
  of each. Models, claims, goroutines and files are symmetric; symmetry is used
  only here and in plugin_providers, which have no liveness property.
- **Nominal**: one model for each provider and two claims, on the same one or
  on one each, so that a claim meets its model absent, in download and cached;
  room for both, since a cached device whose model was evicted is never prepared.
  Failures are those of the GCS provider and of CDI files.
- **Providers**: `org/model`, whose directory is in that of `org`; `org-model`,
  which has its device name; an empty id. The disk has either `org-model` and
  `org/model` of GCS, which the walk enters as `org`, or `org-model` of GCS and
  `org/model` of Hugging Face, which fills the cache, of one unit. In the first
  case a download of `org/model` puts a second id beside the allocated
  `org-model` of the same name, and a second download of it, by the other
  provider, evicts what the scan found and then what the first one made.
  A claim can ask for either model of GCS, for the
  shared id of Hugging Face, or for both providers' in one claim, with one
  loader after a configuration of another driver and one without parameters;
  two more claims are there for the webhook to refuse. No failures: all steps of
  both providers fail in the other two runs. Claims are symmetric, and so are
  the GCS goroutines.
- **Publisher**: two callbacks in flight and two pending are what it takes for
  two changes to be published in the wrong order; one goroutine makes both.
- **Reconciler**: one pod with two claims for two containers (a crash or a
  conflict between the two conditions); one claim chooses between two images of
  one container, the other between an image, no configuration, and one for a
  container the pod does not have. The original image is one of the two, so
  that an image can come back, and the other container has one image whatever
  is allocated. One timeout is what it takes for a second allocation, one
  crash comes at any step. What two pods can do to each other is a claim they
  share, which is reconciler_shared. Every update moves a version, and each of
  the finitely many phases moves once per timeout, so versions need no bound.

`CHECK_DEADLOCK FALSE` is there where the system stops: all claims are done and
the bounds are used up, or all pods are bound or deleted.

### Fairness

- `EnsureSpaceStep` is weakly fair: the goroutine that holds the mutex waits
  for nothing.
- In ModelCachePlugin the steps of a process that has started, of its
  goroutines, of a `PrepareClaims` in progress and of callbacks are weakly fair
  (the Go scheduler); so are `Prepare` (the kubelet retries until the claim is
  prepared) and `StartContainer` (the hook polls, the kubelet retries).
  Creating and stopping pods, failures, crashes and pushes are not.
- In PodReconciler the worker and the informers are weakly fair.
  `Drop \/ Reconcile` is strongly fair for each pod: the work queue is first in
  first out, so a request that stays queued is taken, although the worker is
  busy with others in between. The scheduler goes on with a nominated pod, but
  need not nominate again.

## 4. Proofs

The theorems hold for any sets of models, files, claims, goroutines and pods
and any limits, under the assumptions on the constants that the modules state
and the runs evaluate: `CacheAssumption`, `ClientAssumption`,
`ProviderAssumption`, `PluginAssumption` (names that are not models, goroutines
that are distinct), `DiskAssumption` (what earlier processes left is finite and
has no empty id), `ClaimAssumption` (the shape of claims) and
`ReconcilerAssumption`. Where a property needs more than that, the theorem says
so as a hypothesis.

### The cache manager and its clients (CacheClients_proofs)

- **TypeCorrect**: `[]TypeOK`.
- **EntriesAndBoot** (lemma): a model without entry has no users (`EntryInv`),
  and until the scan is over nobody holds the mutex or a grant, and the total is
  what the scan found (`BootInv`). These are the strengthenings that the rest needs:
  `inUse` is total in the model, so `Put` of the refinement would otherwise not
  find the pins empty, and the overshoot bound would not hold at the first
  download.
- **OrderTotal**: `[]LastUsedTotal`. Every operation either puts one model last
  (`TouchKeepsTotal`) or removes one (`RemoveKeepsTotal`), and both keep a
  strict total order.
- **AccountingCorrect**: `[]Accounting`. A sum over a set is a recursion over
  data, so the sum is stated as the number of units charged: `Charged` has one
  element for each unit of size of each entry, and is finite. A new entry adds
  `size[m]` of them (`InsertAccounts`), an eviction takes as many
  (`RemoveAccounts`), and a second `AddModel` of one model adds none.
- **OvershootBounded**: `[]BoundedOvershoot`. The bound is inductive with
  `BootInv`: it counts what is charged plus one `ModelSize` for each goroutine
  that was granted room and has not used it. A grant is given when the total
  plus the request fits, and at most all other goroutines hold one
  (`GrantStep`); `AddModel` turns a grant into a charge (`AddStep`); all other
  steps only lower the sum (`QuietStep`). The products are kept out of the
  steps by three small lemmas.
- **ImplementsPinnedStore**: `Spec => KeepsPins`, step by step: `Scan` and a
  first `AddModel` are `Put`, `UseModel` is `Pin`, `ReleaseModel` of an entry
  is `Unpin`, an eviction is `Drop`, all else stutters. `Drop` needs
  LastUsedTotal: the code looks for a minimum, the promise is that every other
  idle model is later.

### The published slice (SlicePublisher_proofs)

- **PublisherKeepsClients**: `PublisherSpec => Spec`. Each step of the finer
  module is a step of CacheClients or changes nothing of it, so every theorem
  above holds of it.
- **UndisturbedIsCurrent**: `[]UndisturbedSliceIsCurrent`. The invariant says
  where the current devices can be: until the first slice is published in
  what start-up has read, unless something changed since, which is
  `disturbed`; from then on in the slice, or in a callback that has not read
  yet, or in the last read, unless disturbed.

### The pod controller (PodReconciler_proofs)

- **TypeCorrect**, and **ConditionOnAllocatedClaims**:
  `[]ConditionNeedsAllocation`. The invariant compares versions: a copy in the
  informer is never newer than its object and equal to it if the version is the
  same, and a version that the worker holds is that of an allocated claim. So an
  update that the API server accepts was decided upon what is there.
- **CopiesAndConditions** (lemma) is the comparison of versions itself: the claims'
  half of it (`CopiesOfClaims`) is also what the next theorem rests on.
- **BoundOrMisled**: `OwnConfigured => (Spec => []BoundUnlessMisled)`. The
  hypothesis is that each claim with ImageConfigs is gated and no other pod
  uses it; section 5 shows what happens otherwise. The
  invariant (`PatchInv`): the informer has the configuration of each claim whose
  condition is set; the worker has read the configuration of each claim whose
  condition is set or that it can still set, since a claim allocated anew has
  another version; when it sets conditions the pod has the images it read and
  owes (`Owed`: all, or if the pod is misled those that all alternatives agree
  on); and so a condition on a claim of its own means that the pod has the
  images owed for that claim's *present* allocation. A bound pod keeps its
  conditions (`BoundHasConditions`), so that is what it runs with. That even a
  misled pod has the images without an alternative is `SoleVerified`: such
  an image is never replaced (`ImagesStay`), so if a copy shows it, it is there.
- **BoundOnlyPatched**: hence, if all alternatives of the pods' claims agree on each
  container's image, `BoundPodsPatched` holds without exception.

### The node (ModelCachePlugin_proofs, PluginDownloads_proofs, PluginClaims_proofs, PluginNominal_proofs)

`CacheManager_proofs` has, for each operation of the cache manager, that it keeps
the types and that entries and users are those of known models (`CacheInv`);
both providers cite it.

- **ControlCorrect**: `[]ControlInv`, what the parts of the node know of each
  other. Of the goroutines: the channel in `ongoingDownloads` is that of the
  goroutine with this model, and only one that is in `EnsureSpace` holds the
  cache manager's mutex. Of the disk: it is finite, and a GCS sentinel is in a
  directory that is there. Of the calls: at most one is in progress, exactly
  while the Prepare in progress has devices left, and for its claim. Of the claims:
  one that exists was admitted by the webhook and has devices, of which the
  cached ones are of models it asked for, and so are those left of a Prepare.
  While the process is down, none of this has begun. The parts are not
  inductive alone: a call that ends must find its Prepare, a Prepare its claim,
  and a download the channel it closes.
- **TypeCorrect** and **OneDownloadAtATime** follow from it.
- **SentinelIsLast** and **AddedIsComplete**: `[]SentinelMeansComplete`,
  `[]AddedMeansComplete`, from `DownloadInv`: commits only go forward and no
  sentinel or goroutine is ahead of the hub; a goroutine whose commit is still
  the hub's has on the disk what it has ticked off; and a model that is
  being downloaded is not one that the scan found, so its `Path` is no
  provider's directory and no eviction removes what the goroutine writes.
- **OnlyNamed**: `[]OnlyNamedModels`. From the webhook's check (`Admitted`) to the
  disk: nothing that is looked for, downloaded, entered, listed or mounted has
  the empty id (`NamesOK`). A call for a cached device may look for it and
  finds nothing, which is why the invariant starts after the lookup.
- **PinsCorrect**: `[]PinsOK`. A claim in a call past `UseModel`, in a Prepare,
  or prepared since the start holds the pin of each model it mounts whose
  `Path` is a provider's directory; one that waits for a download waits for a
  model that has no such `Path`. Pins only grow until a crash.
- **MountIsKept** and **FilesAreKept**: `[]PreparedKeepsMount` and the action
  property `RunningKeepsFiles`. An eviction takes an idle entry and removes its
  `Path`; by `PinsOK` no claim prepared by this process mounts it.
- **PreparesAsked**: `LoadersAsked => (Spec => []PreparesWhatWasAsked)`. The
  invariant follows a model from the requests of a claim through the
  allocation, the lookup by device name, the call and the edits to the CDI file.
  The hypothesis is that an admitted claim has no loader for a model
  that none of its requests is for: a stub device is downloaded for
  the one loader of the claim whatever the request meant, and neither the
  webhook nor the driver compares the two. The claims of plugin_providers
  satisfy it.
- **ListedIsComplete**: `Undivided => (Spec => []SliceMeansComplete)`.
  `Undivided` is what README.md of the driver leaves unsaid: nothing was left on
  the disk, the process does not crash, a repository has one commit, and no id
  is downloaded from both providers. Any operation may fail. The invariant
  (`SliceInv`): no entry has the `Path` of a provider's directory, so the disk
  only grows (`DiskGrows`); each goroutine, directory and call that may download
  is of a model of its own provider, which goes back through the stub device to
  the requests of the claim (`StubsOK`); and an entry of a Hugging Face
  model is of one whose files are all there (`OwnModels`). So what `Devices()`
  lists is complete, and stays so after the slice was published.
- **StartedIsComplete**: `Undivided /\ Roomy => (Spec => StartsOnlyWhenComplete)`.
  `Roomy` adds that no step of the Hugging Face provider fails and all models
  fit: after a failed or refused download, the next claim can pass without a
  hook (plugin_gate). The invariant (`HookInv`): the total is `ModelSize` for each
  entry and a model that is being downloaded has none, so `EnsureSpace` never
  refuses; a download that ends has the model on the disk; a call looks at the
  channel of the goroutine that downloads its model; hence a call without a
  hook, and its edit in the CDI file, is of a model that is there. With a hook
  the container waits for the sentinel, and SentinelIsLast applies.
  The constants of plugin_nominal satisfy both hypotheses, with any number of
  failures of the GCS provider and of CDI files.

### Only model-checked

- `EnsureSpaceReturns`, `ClaimsServed` and `PodsProceed`: liveness under
  fairness, which the prover does not do.
- Nothing else of the passing runs: each invariant and each action property of
  theirs is stated by a theorem.

## 5. Where code and documents disagree

1. **The cache exceeds its maximum** (cache_overshoot). `EnsureSpace` reserves
   nothing. With N downloads at a time the excess is N - 1 models; this is the
   bound that is proved.
2. **The hook is skipped after a failed download** (plugin_gate). Claim 1
   starts the download; claim 2 finds the channel, releases `p.mu`, and the
   download fails and closes the channel before the `select`; `downloadModel`
   returns nil, `UseModel` fails and is only logged, the CDI file has no hook.
3. **Unprepare releases nothing** (plugin_unprepare). `DeviceState.Unprepare`
   gives the providers nil results, so no pin ends before the plugin restarts,
   and the cache fills with models that cannot be evicted.
4. **The slice can stay stale** (publisher_stale), most plainly when a model is
   added or evicted between the read of the devices in `NewDriver` and the
   registration of the callback.
5. **A fallback can be bound with the image of the first choice**
   (reconciler_fallback). The pod is patched for the first allocation; binding
   times out before the condition is set; the claim is allocated for another
   subrequest, whose image is the one the pod had at first. The pod informer
   still has the copy from before the patch: `patchImages` finds nothing to do
   (line 254), makes no update that could conflict, and the condition is set on
   the claim, which is read fresh. The window is that of the informer's lag
   behind a write of the controller's own and a binding timeout, so it is
   small; that it is the only one for pods with claims of their own is what
   BoundOrMisled proves.
6. **A shared claim lets the second pod pass unpatched** (reconciler_shared):
   the condition that the first pod's reconciliation set makes
   `collectPendingBindingResults` skip the claim for the second.

Two more have no run of their own; they are what a changed constant shows:

7. **Half a download is listed after a restart**: plugin_nominal with
   `MaxCrashes = 1` violates SliceMeansComplete. The scan takes a directory with
   any bytes in it for a cached model (provider.go:109) and does not look for
   `.complete`, so after a crash in the middle of a download the model appears
   in the slice, against README.md:211 of the driver: "the cached version of the
   model does not appear in the ResourceSlice until it is fully downloaded".
8. **ImageConfigs outside the claim with the condition**, as in
   `demo/scenario-2`: BoundUnlessMisled is violated when `c1` has the
   configurations (`GpuOrCpu`) and only `c2`, which has none, is gated. The update
   of the condition is refused if its claim has moved on, but the images come
   from another claim, which is read before it. If a timeout and a second
   allocation reach the cache between the two reads, the pod is patched for the
   first allocation and released by the second. The claim informer applies
   events in order, so this needs the cache to catch up just then; in the model
   it is the claims' copies that are of different ages.

## 6. Not modelled, and why

- The text of names: `DeviceName` and `Org` are functions on ids. Names that are
  not DNS labels (ids with `.` or `_`), which the API server refuses, and ids of
  three components are left out; hub ids hold no `--`, so the directory names of
  the Hugging Face provider are one to one.
- The contents and real sizes of models: a download is charged 1 MiB by the
  code, whatever it is; the sentinel that is all a GCS directory holds counts
  for nothing. 64-bit overflow of the total is out of range.
- Configurations that a DeviceClass adds before those of the claim; a
  `provider` in the ModelLoader other than the device's, which the code never
  reads, makes no difference in the model either.
- The time-out of the `createContainer` hook: one that times out is a
  container that does not start and is tried again.
- `CreateCommonSpecFile`, `GetClaimDevices`, `GetSnapshotPath` and the checkpoint
  types, which nothing calls.
- Health check (it answers from an empty `NodePrepareResources` and keeps no
  state), the no-op driver (fixed answers, no state), serving HTTP, flags,
  logging, profiles and the configuration file. An orderly shutdown and a fatal
  background error end the process as `Crash` does: downloads are not awaited.
- A second `NodePrepareResources` for a claim that is already prepared, which the
  kubelet makes after a restart of its own: `Prepare` is for allocated claims
  only. So what is said of hooks, mounts and pins is said of the first
  successful Prepare of a claim.
- `Scan` fails between two models only (its error is logged and the
  plugin goes on with what it has, `NewDriver`); a walk that fails
  inside the directory of a model, which the size then misses, is not modelled.
- In PodReconciler, init containers (treated by the code as containers); a device
  status other than the one condition; errors of the API server other than
  conflicts, which retry in the same way.
- Results and requests of a claim: it has one condition, since `main.go`
  publishes one device and the code finds conditions by driver, pool and device;
  and which claims have that device (`Gated`) is fixed, so a
  subrequest that is itself for the driver's device, beside one that is not, is
  left out. ImageConfigs without `requests`, which the code skips, are not in
  `ConfigsOf`; one that does not decode, is empty or names no image is like one
  for an unknown container: all are terminal errors.
- The pod informer has only nominated pods (`main.go:50-56`), so a copy whose phase
  is pending is one that is not found.
- `Devices()` reads the keys of the map under the mutex and looks for the
  directories after it; the model reads both at once. An eviction in between
  ends in the same place as one before the read, and its callback republishes.
- `Config.PrepareClaims` looks for a device in `Devices()` and the provider does
  so again: one lookup, since both fail in the same way.
- What `Reconcile` reads one after the other (the pod, each claim) is one step,
  and each copy lags on its own: a copy that was read before the informer caught
  up is a copy that is behind. Claims of one informer are never seen with
  the later read older than the earlier one; the model allows that too, which
  can only make the properties that pass harder.

## 7. Plan

In order of what the system depends on most:

1. (done) CacheManager, CacheClients, PinnedStore; safety, liveness, overshoot;
   proofs of all safety.
2. (done) HuggingFaceProvider, ModelCachePlugin, SlicePublisher, PodReconciler
   with their runs.
3. (done) GCSProvider beside the first one on one cache manager, claims with
   several devices and configurations, device names, the webhook; run
   plugin_providers, and plugin_nominal with both.
4. (done) Proofs of all safety properties of the passing runs.
5. (done) ImageConfigs by allocation in PodReconciler, with what that breaks
   (reconciler_fallback) and what remains (BoundOrMisled).
6. A Prepare that is repeated for a prepared claim.
7. Liveness of the reconciler with a binding timeout and a lagging claim
   informer, where the claim is not watched.
