# A TLA+ verification of route-controller

`route-controller` is a Kubernetes controller. It watches Knative `Route`s that
carry the annotation `features.knative.dev/gateway-api: enabled` and keeps, for
each of them, objects of the Gateway API: one `Gateway` per visibility, one
`HTTPRoute`, and placeholder `Service`s. It reports in the Route's status
whether the HTTPRoute is admitted. It shares the Route with Knative serving's
own controller, which assigns `Status.Traffic`.

This directory holds the TLA+ model of that controller, the TLC runs that check
it and the proofs TLAPS checks. Paths below are relative to the repository.

## The system

| Component | Source | State | Operations |
|---|---|---|---|
| Route reconciler | `pkg/reconciler/route/route.go`, `reconcile_resources.go` | none of its own; the locals of a run | `ReconcileKind`, `FinalizeKind`, `reconcilePlaceholderServices`, `reconcileGateway`, `reconcileHTTPRoute`, `IsHTTPRouteReady` |
| Desired objects | `pkg/reconciler/route/resources/*.go` | none | `VisibilityToDomain`, `MakeGateway`, `MakeHTTPRoute`, `MakePlaceholderService`, names |
| Gateway configuration | `pkg/reconciler/route/config/gateway.go` | a map by visibility | parse with defaults, three lookups |
| Configuration store | `pkg/reconciler/route/config/store.go`, `vendor/knative.dev/pkg/configmap/store.go` | one atomic value per ConfigMap | `OnConfigChanged`, `Load` |
| Wiring | `pkg/reconciler/route/controller.go` | handlers | Route events enqueue the Route, owned objects their owner, a configuration change every Route |
| Generated reconciler | `vendor/knative.dev/serving/.../v1/route/reconciler.go`, `vendor/knative.dev/pkg/reconciler` | none | `Reconcile`, finalizers, pre- and post-processing, `updateStatus` with retries |
| Work queue, workers | `vendor/knative.dev/pkg/controller`, client-go `util/workqueue` | two lanes, two channels, a consumer queue, two workers | enqueue, produce, consume, process, requeue on error, `GlobalResync`, shutdown |
| Informers, listers | `pkg/client/gatewayapi/informers`, `listers`, client-go `tools/cache` | reflector version, DeltaFIFO, indexer | list, watch, relist, resync, pop and notify; list and get |
| Clients | `pkg/client/gatewayapi/clientset` | none | nine methods for each of seven kinds |
| Fake clientset | `clientset/versioned/fake`, client-go `testing` | the object tracker | the same methods, as recorded actions |
| Factory, injection | `informers/externalversions/factory.go`, `pkg/client/gatewayapi/injection` | one informer for a type; the context | `InformerFor`, `withClient`, `withInformer`, `Get` |
| Leader election | generated reconciler, `vendor/knative.dev/pkg/leaderelection` | buckets | promote, demote, skip keys |
| Entry point | `cmd/controller/main.go`, `vendor/knative.dev/pkg/injection/sharedmain` | how far startup is | inject, construct, watch ConfigMaps, start informers, run |
| Manifests | `config/` | | |

External actors: users edit and delete Routes; serving's Route controller, with
the patch of `README.md:72-95`, assigns the traffic; a Gateway implementation
writes admissions into `HTTPRoute.Status.Gateways`; the garbage collector
removes objects whose owner is gone.

Informer events and configuration callbacks put Routes into the work queue; a
worker reads the listers and the frozen configuration, calls the API server,
and its writes come back as events. Nothing else is shared: the listers, the
configuration and the API server can each change between any two steps of a run.

What makes this hard, and what each part owes:

* **Stale listers.** Create or update is decided on the cache and judged by the
  API server. Conflicts, `AlreadyExists` and `NotFound` must end in a retry
  (`ChildrenInSync`), and a retry needs its key back (`NoLostWakeup`).
* **Two writers of one status.** This controller and serving both replace the
  whole status (`FirstWriteKeepsTraffic`).
* **Order of dependent writes.** Gateways, then the HTTPRoute that names them,
  then the status that reports it (`RefsResolve`, `HostsBoundWhenWritten`,
  `ReadinessIsCurrent`).
* **Partial failure.** Calls fail, take effect without an answer, exceed the
  ten second deadline; the process dies between two calls.
* **Deletion without owner references.** Gateways live in another namespace and
  are deleted by `FinalizeKind` alone (`FinalizeLeavesOnlyMissed`,
  `FollowsLifecycle`).
* **Random order.** Go maps order hostnames and Gateways, so the same Route may
  produce a different HTTPRoute on each run.
* **Two derivations of the same hostnames.** `reconcileGateway` and
  `makeHTTPRouteSpec` each compute them (`HostnamesAreListeners`).
* **A queue made of five.** A key passes through a lane, a producer's hands, a
  channel and the consumer queue, and may be in several of them
  (`IsWorkQueue`, `OneWorkerPerKey`); at shutdown they must all run dry
  (`ReturnsWhenDrained`, `ShutdownCompletes`).
* **Configuration in pieces.** A run loads ConfigMaps one after the other while
  they change, and without the lead its key is dropped (`RunsUseTheStore`,
  `EditsReachRoutes`).
* **Caches that relist.** Watches expire, a list may come from a watch cache
  that is behind, changes wait in the FIFO, and handlers hear of them after the
  cache has moved on (`NeverBackwards`, `CacheCatchesUp`,
  `HandlersTrailTheCache`).
* **Verdicts on what others write.** The Gateway implementation fills, and
  empties, the status that readiness is read from, one Gateway after the other
  (`ReadinessIsCurrent`, `ReadyMeansAdmitted`), and writes while the controller
  does (`NoWriteIsUndone`).
* **A fake server in the unit tests** that checks less than the real one
  (`FakeStandsIn`).

`PROJECT.json` lists every hazard at its line.

## The modules

| Module | Models |
|---|---|
| `Resources` | the pure functions: configuration lookups, hostnames, desired objects, comparison, admission verdict |
| `RouteReconciler` | the controller of one replica and the actors around it |
| `RouteLifecycle` | abstract: what the controller promises of a Route, its finalizer, its Gateways and its HTTPRoute |
| `RouteReconciler_proofs` | `RouteReconciler`: its type invariant, no lost wakeup; finalization and the traffic in status writes, from what old versions of a Route tell |
| `RouteLifecycle_proofs` | `RouteReconciler`: references to Gateways, the refinement of `RouteLifecycle`, readiness and children of a Route at rest, listeners of the hostnames |
| `ResourcesCheck` | the derivation of hostnames as a machine that adds one traffic target per step, against reference definitions |
| `ResourcesCheck_proofs` | what the loops over the traffic compute for traffic of any length |
| `GatewayAPI` | the typed clients of the seven kinds, as the requests they make, and an API server that answers them |
| `GatewayAPI_proofs` | lemmas on the server's log: what it stores at a version, lists, watches and writes |
| `GatewayClients` | programs that use a client, run on the server and on the fake clientset at once |
| `GatewayClients_proofs` | its invariants and action properties, for every kind |
| `GatewayInformers` | a shared informer and the lister of each kind |
| `GatewayInformers_proofs` | the invariant of the informer, and what listers and handlers see |
| `WorkQueue` | abstract: what a work queue promises |
| `TwoLaneQueue` | the two-lane queue, its goroutines and the workers, which implement `WorkQueue` |
| `TwoLaneQueue_proofs` | its type invariant, mutual exclusion, shutdown, and the refinement of `WorkQueue` |
| `Startup` | the process from `main` to running workers, with injection, the configuration store and the elector |
| `Startup_proofs` | its type invariant, synced caches, runs that use the stored configuration |
| `MC...` | values of the constants for TLC |

`RouteReconciler` extends `Resources`; `GatewayClients` and `GatewayInformers`
extend `GatewayAPI`. `RouteReconciler` takes from the other machines what they
are shown to do: its `queue` is the `pending` of `WorkQueue`, its `cache` and
`feed` are an informer that catches up in order, its `config` is a store whose
mixtures are repaired by another run.

### Resources

A hostname is a triple of Route, tag and suffix: what the templates print is
irrelevant, that two visibilities and two tags give different names is not. The
three local suffixes are those of `ingress.ExpandedHosts`. A configuration is a
record: a domain and the ConfigMap's Gateway data. `InvalidDomain` stands for a
domain for which `DomainNameFromTemplate` returns an error. A label map is nil,
without the visibility label, or cluster-local, the one value the webhook of
serving admits.

The status of an HTTPRoute is `<< >>` while `Status.Gateways` is nil, as in an
object the controller made, and `<< entries >>` afterwards. A list whose entries
have all been dropped is not nil again: the field has no `omitempty` and the CRD
requires it, so it is stored and decoded as `[]`, and `IsHTTPRouteReady` is true
of it.

`Differs` is the comparison of a stored object with a desired one. The Gateway
listeners, the HTTPRoute rules and the Service port have fields that the code
leaves empty and the API server fills (`config/100-gateway-api.yaml`; the port's
protocol for Services). With `ApiDefaults = TRUE`, the deployment's case, the
comparison therefore always fails and every run updates; with `FALSE` objects are
stored as written and the other branch of the code is exercised. A write that
changes nothing makes no new version, as in the API server.

### RouteReconciler

| Variable | Code |
|---|---|
| `api` | the objects in the API server, by key (kind and name) |
| `cache`, `feed` | the lister's copy, and the newer versions its watch has yet to deliver. A write that carries the resourceVersion of the lister's copy conflicts exactly when `feed` is not empty |
| `config` | what `Store.Load` returns |
| `events`, `queue` | Routes an informer callback is about to enqueue; keys in the work queue, whichever the lane |
| `pc`, `run` | the worker that processes a Route: the stage, and its locals (`original`, `resource`, the frozen configuration, loop variables, whether the held copy is out of date, attempts) |
| `proc` | whether the process runs, crashed or panicked |
| `budget` | what is left of the bounds on edits, faults and resyncs |
| `seen`, `missed` | history: what the last run without error worked on; Gateways `FinalizeKind`'s listing did not show. No action reads them |

| Action | Code |
|---|---|
| `Start` | `processNextWorkItem` takes a key; `Reconcile` freezes the configuration, reads the lister and chooses between `ReconcileKind` and `FinalizeKind` |
| `SetFinalizer` | `setFinalizerIfFinalizer`, the merge patch, then `PreProcessReconcile` |
| `ReconcilePlaceholderServices` | the function, with its return after the first write |
| `CollectHostnames` | the fold of `VisibilityToDomain` over the traffic, its errors; `Panic` is its nil map |
| `ReconcileGateway` | one turn of the loop over visibilities, in any order |
| `ReconcileHTTPRoute` | the function, `IsHTTPRouteReady` on what it returns and the status change that follows |
| `PostProcess` | `PostProcessReconcile` and the comparison with the original status |
| `UpdateStatus`, `Refetch` | the attempts of `updateStatus` |
| `DeleteGateway`, `ClearFinalizer` | the loop of `FinalizeKind`, `clearFinalizer` |
| `Deliver`, `Enqueue`, `Resync`, `ConfigChange` | informers, handlers, `GlobalResync` |
| `Crash`, `Restart` | the end of a process; a new one lists every object |
| `EditRoute`, `DeleteRoute`, `ServingSync`, `Admit`, `Reject`, `Prune`, `CollectGarbage` | the external actors |

Abstractions, and why they lose nothing the properties tell apart:

* A lister read and the API call that follows it are one step. A step between
  the two could only deliver the object read; then the call is refused for its
  outdated resourceVersion or name, and that outcome is also reached by reading
  before a version is delivered that is already in `feed`.
* Every call may be answered, fail without effect, or take effect and lose its
  answer; the code treats the last two alike. The deadline of `ReconcileKind`
  is the same outcome.
* Events of one watch are delivered in order, those of different watches in any
  order. A callback may be late (`events`).
* The rate limiter's delay is any delay: a key in `queue` may wait for ever
  where no fairness is assumed.
* One incarnation per name: a Route that is gone is not created again. Nobody
  else deletes or edits Gateways, HTTPRoute specs or Services. Both are in the
  plan.
* Errors of the tag template are left out.

### RouteLifecycle

For each Route: `phase` (live, deleting, gone), whether it is `held` by the
finalizer, its `gateways`, whether it is `bound` to an HTTPRoute, and the
Gateways its last finalization `overlooked`. Children are made only while the
Route is held (`Build`, `Bind`), Gateways go only once it is no longer live
(`TearDown`), and `Release` needs `gateways \subseteq overlooked`.
`RouteReconciler` implements it with the mapping at the end of that module
(`FollowsLifecycle`); `missed` is mapped to `overlooked`. Two allowances of the
specification are what the code does: a run that began before the deletion may
still build, and a finalization that works from an outdated copy may tear down
after the Route is gone.

### GatewayAPI and GatewayClients

The files of the seven kinds under `typed/`, `fake/`, `informers/` and
`listers/` were generated from one template; compared after renaming they
differ in names only, and in the missing namespace of `GatewayClass`. Each has
a definition of its own (`Gateways`, `FakeGateways`, `GatewayInformer`,
`GatewayLister`, ...) that applies the common text (`Send`, `Invoke`,
`Tweaked`, `NamespacedLister`) to the names of its kind.

A call is a record of a method and its arguments, a request what
`rest.Request` builds: verb, resource, namespace, name, subresource, body,
selector. `Serve` is the API server as the generated code and the CRDs of
`config/` assume it: a log with one entry per change, whose position is the
`resourceVersion`; a PUT must carry the stored version and writes everything
but the status, or under `/status` the status alone; a write that changes
nothing makes no version.

In `GatewayClients` each step is one call, which goes to the server through
`NetworkingV1alpha1` and to the object tracker through
`FakeNetworkingV1alpha1`. `tracker` follows `ObjectReaction`; `parted` becomes
true with the first call on which the two must differ (`OnlyOneKnows`), and the
tracker is then left out. These calls are a PUT with an outdated copy, a write
that reaches for the part its path excludes, and the `DeleteCollection` of a
collection that is not empty: `FakeStandsIn` says that on no others the two
differ. Deleting what does not exist is among those others: both answer
`NotFound`, though the interface of the tracker promises no error
(`fixture.go:60-62`). Objects handed to `NewSimpleClientset` are not part of
`FakeStandsIn`; Gateways among them are not found.

### GatewayInformers

| Variable | Code |
|---|---|
| `log`, `kind`, `selector` | the server's changes; the kind and the filter of `tweakListOptions` |
| `reflector` | `lastSyncResourceVersion`, whether it is unavailable, whether `ListAndWatch` lists or watches |
| `fifo` | `DeltaFIFO`: `queue`, `items` (here `deltas`), `populated`, `initialPopulationCount` |
| `items`, `index` | `threadSafeMap` with the namespace index |
| `pending` | `processorListener`: notifications distributed and not yet delivered, by key |
| `notified` | the object the handlers were last told of |
| `first`, `ghosts` | history: the first list; keys that `Replace` missed |

`ListObjects` is a list of `ListAndWatch` with `syncWith`, `ListExpired` its
retry as a quorum read, `WatchEvent` and `Bookmark` the cases of
`watchHandler`, `WatchExpired` the end of a watch, `Resync` the periodic
resync, `Pop` a `Pop` with `HandleDeltas`, which runs under the FIFO's lock: it
changes the indexer and puts notifications into `pending`. `Notify` is the
listener's goroutine, which calls a handler at any later time. The code keeps
one ring buffer; the model keeps the order of the notifications of each object
and allows any order between objects, which includes the code's and is all
that the properties and the handlers, which enqueue keys, depend on.

### TwoLaneQueue and WorkQueue

| Variable | Code |
|---|---|
| `lane`, `consumerQueue` | three `workqueue.Type`: `queue`, `dirty`, `processing`, `shuttingDown` |
| `producer` | the two goroutines of `process` |
| `consumer` | `runConsumer`: which select it is in, which channels it has not seen closed |
| `retries` | keys in the fast lane's `waitingLoop` |
| `worker` | the goroutines of `RunContext`, in `processNextWorkItem` |
| `main` | `RunContext`: running, shutting down, polling `Len`, waiting, returned |

A send on an unbuffered channel and its receive are one step, `Receive`. A
worker's key is done in a second step after its outcome, so a key can fail, be
added again and still be in process.

`WorkQueue` has `pending`, `running` and `open`. The mapping makes `pending`
every key in a dirty set or in a producer's hands, `running` what the consumer
queue has in process.

### Startup

`main` follows `MainWithConfig`: clients, factories, informers, `NewController`,
`cmw.Start`, `StartInformers`, the wait for their sync, `StartAll`. `factory`,
`context`, `handlers` and `lister` are instances of informers, by kind: that
the informer that is started, the one the handlers are on and the one the
lister reads are the same rests on `InformerFor`, and the properties on that.
`configMaps`, `watcher`, `stored` and `callback` are the ConfigMaps, what the
watcher's handler saw, the store, and the `onAfterStore` callback that is
still to run. `run.loaded` is what `Load` has read so far.

`leader` has the lease (`elected`), the bucket, and the goroutines that
`OnStartedLeading` runs in: those still to set the bucket (`starting`) and those
still to enqueue the lister's keys (`enqueuing`). `Demote`, which is
`OnStoppedLeading`, comes at any point of them, so a late `Promote` can set the
bucket after its term is over; the next election or demotion settles it.

Deleting a ConfigMap has no effect once it was read (`deleteConfigMapEvent`)
and is left out. A fatal first version and a missing ConfigMap end the process
(`fatal`); `panic` stands for a failed type assertion of `Load` and for an
informer that `Get` does not find, and is never reached (`TypeOK`).

## What the runs check

TLC does not check for deadlock: with nothing to do and its budgets spent each
of these machines really stops; what must not stop is stated as liveness.

| Run | Instance | Shows |
|---|---|---|
| `faults` | one fault; either two Gateways, without the fault also an invalid domain; or one Gateway, one edit or deletion, the lister of Routes one version behind, without admissions two | through a failed call, a lost answer or a crash at any point: `ReadinessIsCurrent`, `ChildrenInSync`, `RefsResolve`, `HostsBoundWhenWritten`, `FinalizeLeavesOnlyMissed`; the refinement `FollowsLifecycle` |
| `edits` | no API defaults, two configurations, two traffic blocks, cluster-local or nil labels, one edit, one resync | `NoLostWakeup` and `FirstWriteKeepsTraffic` when annotation, labels, traffic, deletion or configuration change, and through panics; `ReadinessIsCurrent` when unchanged Gateways are left out of the HTTPRoute; `TypeOK` |
| `live` | fairness, one edit or deletion, one fault | `EventuallyReady`; `DeletionCompletes` through failed calls, lost answers, the finalizer patch's among them, crashes and a lister one version behind |
| `hosts` | up to six targets, two domains, one of them that of the local names, both visibilities | `HostnamesAreListeners`; `HostnamesFit`: which Routes the API server refuses |
| `clients` | three changes; either each kind, one caller and an object in each of two namespaces; or two callers and one object, of `Gateway` and of `GatewayClass` | `FakeStandsIn`, `OneNamespacePerCall`; `NoWriteIsUndone`: of two callers with copies the other has outdated, no PUT that is accepted undoes what its caller did not see |
| `informers` | each kind with and without a selector, two changes and one expiry; a third change and a resync for `HTTPRoute` and `GatewayClass` | `NeverBackwards`, `HandlersTrailTheCache`, `ListersAgree`, `SyncedShowsFirstList`; under fairness `CacheCatchesUp`, of the cache and of what the handlers know |
| `queue` | two keys on both lanes, two workers, any number of failures | the refinement `IsWorkQueue`; `OneWorkerPerKey`, `ReturnsWhenDrained` |
| `lanes` | one worker, a key for each lane, fairness | `FastIsServed`, `SlowIsServed`, `ShutdownCompletes` |
| `startup` | one Route, four ConfigMaps, two edits, two terms as leader, fairness | `RunsUseTheStore`, `RunsSeeSyncedCaches`, `EditsReachRoutes`, `StartupEnds` |

Some runs join two instances that ask the same questions: a condition on the
states TLC goes on from (`OneOrTheOther`, `Narrowed` in the MC modules), which
cuts behaviours off and adds none.

Bounds of the `RouteReconciler` runs. There is one Route; Routes share no object
unless their Gateway names collide, which is planned, and the theorems hold for
any number of them. `MaxAttempts` is two in `faults` instead of `DefaultRetry`'s
five: the first attempt and the attempts after a refetch are the two cases the
code distinguishes. In `edits` and `live` it is one, which leaves room for a
resync or a fault next to an edit; a conflict there always fails the run and
requeues the key, the way five conflicts do. `MaxLag` bounds the undelivered
versions of one object to one, or of a Route to two in `faults`; a version more
is one more conflict of the same kind. One edit or fault is what the state space
affords next to all interleavings of eight actors; it is placed at every point
of every run, and the interesting cases need only one: an edit, deletion or
configuration change during a run, a call that fails between two others. What
`faults` does not combine: with two Gateways, the fault with an admission or with
an invalid domain; with one, all three of the fault, the edit and an admission,
or an admission with a lister two versions behind.

Bounds of the others. Six targets pass the limit of 16 hostnames for either
visibility. In `clients` two objects in two namespaces are created, changed and
deleted within three changes; for the properties that compare the answers to one
call at a time one caller suffices. A copy becomes outdated by another's write,
since every answered call refreshes the caller's own; so a second part has two
callers, and three changes are a creation, the other's write and the write from
the outdated copy. In `informers` three changes delete and recreate an object
while its first version is in the FIFO, and one expiry puts a relist at any point
of that; the definitions of six kinds differ in names alone, so one of them and
the one without namespaces go that deep, and two changes show that none is wired
to another's client, scope or index. In `queue` the number of enqueues and
failures is unbounded; two keys and two workers give every collision of a key
with itself and with another. In `lanes` one worker makes the lanes compete, and
a key that fails moves from the slow lane to the fast one. In `startup` two edits
mix a run's load, and two terms let the lead go and come back during one.

### Statements the code does not keep

Each of these runs checks a sentence of the repository and ends with a
counterexample; `PROJECT.json` quotes the sentence.

| Run | Property | What happens |
|---|---|---|
| `v_panic` | `NeverPanics` | `VisibilityToDomain` writes into the nil label map of a Route without labels |
| `v_services` | `ServicesInSync` | the loop returns after the first Service it writes, and the first one always differs |
| `v_admitted` | `ReadyMeansAdmitted` | `IsHTTPRouteReady` looks only at the Gateways that have a status entry: one of two is enough, and so is a list that was emptied, which is not nil |

More sentences are at odds with the code; no run checks them, but the model does
what the code does, and the properties that hold are worded around it:

* `shared_types.go:209-210` of the Gateway API says that an empty list means that
  the route has not been admitted; `IsHTTPRouteReady` takes an emptied list, which
  is not nil, for ready. The model does too, and `ReadinessIsCurrent` is about the
  verdict of the code.
* `gateway_types.go:135-138` wants listeners of a Gateway to have a unique
  hostname, port and protocol; two revisions behind one tag repeat them.
* `UnionMaps` appends where its comment says that latter maps win
  (`reconcile_resources.go:217-218`). What the code does is what
  `HostsAlwaysComplete` proves, and `HostnamesAreListeners` depends on it.
* `reconciler.go:278-280` of the generated reconciler does not want to overwrite
  a prior status with a stale one; the retry at line 339 does. Hence
  `FirstWriteKeepsTraffic` and not every write.
* `route.go:63-65` finalizes what a cache lists; a Gateway that the informer had
  not delivered survives the Route. Hence `FinalizeLeavesOnlyMissed`, and
  `overlooked` in `RouteLifecycle`.
* `PostProcessReconcile` sets `ObservedGeneration` for a generation whose
  traffic serving may not have assigned yet, so a Route can look ready for its
  last spec too early.
* `two_lane_queue.go:141-142` says that `Get` returns the fast lane's key if it
  has any; once in its second select `runConsumer` may take the slow lane's.
  `FastIsServed` holds all the same.
* `shared_informer.go:80-86` lets a cache agree with the server in the end;
  `DeltaFIFO.Replace` (`delta_fifo.go:572-597`) looks for deletions among the
  indexer's keys only, and an object that waits in the FIFO during the relist
  that lacks it stays in the cache until somebody changes it. Hence `ghosts` in
  `CacheCatchesUp`.
* The fake clientset puts Gateways it is given under the resource `gatewaies`,
  where no client looks, though it "will respond with the provided objects"
  (`clientset_generated.go:32`), its `Delete` of a missing object is an error
  (`fixture.go:60-62` says not), and its `DeleteCollection` deletes nothing.
  Hence what `FakeStandsIn` leaves out.

### Fairness

`RouteReconciler`: weak fairness of `Start` and of each worker (threads run; the
rate limiter's delays are finite), of `Deliver` and `Enqueue` (client-go keeps
its watches and listeners going), of `Restart` (the kubelet restarts the
container), and of the external controllers: serving's, the admissions and
pruning of the Gateway implementation, the garbage collector. Edits, rejections,
faults, resyncs and configuration changes are never forced.

`EventuallyReady` assumes that the traffic serving assigned eventually stays.
Without that assumption, with two attempts, there is a fair cycle: serving
assigns the traffic, a status write of this controller, computed before and
retried after a conflict, undoes it, and serving assigns it again. Nothing in the
code breaks the cycle but timing.

`TwoLaneQueue`: weak fairness of each goroutine and of a due retry, since Go
schedules every goroutine, timers fire, and a reconcile ends (its context has a
deadline). Strong fairness of receiving from each lane: the select picks at
random among the channels that are ready, so a lane that is ready again and
again is picked at some time. `SlowIsServed` assumes that the fast lane falls
silent: before that the slow lane has only the turns in which the first select
finds nothing.

`GatewayInformers`: weak fairness of listing, of watch events, of `Pop` and of
`Notify`: the reflector, the processor and its listeners run in loops, and the
server answers. Expiries,
resyncs and changes are not forced.

`Startup`: weak fairness of the main goroutine, the watcher's handler, the
informers, `Promote`, `PromoteFunc` and the worker. Being elected, losing the lead, edits and
new Routes are not forced, and `EditsReachRoutes` says what holds while this
process leads.

## What is proved

Thirty-three theorems, each for every value of the constants: every invariant,
action property and refinement that a passing run checks, and what these rest
on. The assumptions on the constants are named `ASSUME`s, which TLC evaluates in
the runs.

| Module | Theorem | Statement |
|---|---|---|
| `RouteReconciler_proofs` | `TypeCorrect` | `Spec => []TypeOK` |
| | `WakeupsNotLost` | `Spec => []NoLostWakeup` |
| | `FinalizationsAreComplete` | `Spec => []FinalizeLeavesOnlyMissed` |
| | `FirstWritesKeepTraffic` | `Spec => FirstWriteKeepsTraffic` |
| `RouteLifecycle_proofs` | `ReferencesResolve` | `Spec => []RefsResolve` |
| | `LifecycleIsKept` | `Spec => FollowsLifecycle` |
| | `ReadinessAlwaysCurrent` | `Spec => []ReadinessIsCurrent` |
| | `ChildrenAlwaysInSync` | `Spec => []ChildrenInSync` |
| | `HostsAreBound` | `Spec => HostsBoundWhenWritten` |
| `ResourcesCheck_proofs` | `ListenersOfEveryTraffic` | for traffic of any length, what `VisibilityHosts` is |
| | `HostnamesOfEveryTraffic` | the same of each member of `HostLists` |
| | `HostnamesAreOfListeners` | both have the same names |
| | `HostsAlwaysComplete` | `Spec => []HostsComplete` |
| | `HostnamesAlwaysListeners` | `Spec => []HostnamesAreListeners` |
| | `HostnamesAlwaysFit` | `Spec => []HostnamesFit` |
| `GatewayClients_proofs` | `ClientsInv` | `Spec => []CInv`, the inductive invariant |
| | `ClientsTypeOK` | `Spec => []TypeOK` |
| | `FakeAlwaysStandsIn` | `Spec => []FakeStandsIn` |
| | `CallsStayInOneNamespace` | `Spec => OneNamespacePerCall` |
| | `NoWriteIsEverUndone` | `Spec => NoWriteIsUndone` |
| `GatewayInformers_proofs` | `InformersInv` | `Spec => []IInv`, the inductive invariant |
| | `InformersTypeOK` | `Spec => []TypeOK` |
| | `HandlersAlwaysTrailTheCache` | `Spec => []HandlersTrailTheCache` |
| | `SyncedAlwaysShowsFirstList` | `Spec => []SyncedShowsFirstList` |
| | `CacheNeverGoesBackwards` | `Spec => NeverBackwards` |
| | `ListersAlwaysAgree` | `Spec => []ListersAgree` |
| `TwoLaneQueue_proofs` | `TypeCorrect` | `Spec => []TypeOK` |
| | `WorkersApart` | `Spec => []OneWorkerPerKey` |
| | `Drained` | `Spec => []ReturnsWhenDrained` |
| | `LanesAreAWorkQueue` | `Spec => IsWorkQueue` |
| `Startup_proofs` | `TypeCorrect` | `Spec => []TypeOK` |
| | `SettledRoutesAreCurrent` | `Spec => []RunsUseTheStore` |
| | `CachesAreSynced` | `Spec => []RunsSeeSyncedCaches` |

### RouteReconciler

Assumptions: a traffic block is a sequence of targets, whose tags are among
`Tags`; there is at least one attempt and one undelivered version; no two Routes
get Gateways of one name (`NamesAssumption`, which the names of `a-b/c` and
`a/b-c` break when the configured namespace is shared); `Absent` is no Route.
The five theorems of `RouteLifecycle_proofs` also have the hypothesis
`ObjectsArePresent`: `Absent` is no object the controller makes. TLC cannot
evaluate it, for it ranges over everything; in the runs `Absent` is a model
value. `ChildrenAlwaysInSync` and `HostsAreBound` have the hypothesis
`ApiDefaults`, the deployment's case. Without it `reconcileGateway` does not
return a Gateway that it left unchanged, the HTTPRoute does not name it, and
neither statement holds: the run `edits` has that case and checks
`ReadinessIsCurrent` there.

`NoLostWakeup` speaks of idle Routes only and is not inductive: when a run
returns, what it worked on must be known. The invariant `IInv` adds

* `RunInv`: a run exists only while the process is up, its original is a Route,
  and unless its key is in `queue` or `events` again, it works on the lister's
  current copy and the configuration in force;
* `WatchInv`: the last undelivered version of a Route, or the lister's copy if
  there is none, is the stored object, and nothing is undelivered while the
  process is down. It shows that the finalizer patch writes a Route and not a
  hole, and that a restart starts from the stored objects;
* `TypeOK`.

A worker's step either goes on with the same original and configuration or
returns (`Progress`); one lemma per action shows this, and `ProgressKeepsInv`
draws the consequence once for all of them.

`LifeInv` adds, for each Route, what makes decisions on an old copy safe:

* `VersionsInv` and `GoneInv`: an earlier version, cached or on its way, tells
  of the stored one that a deletion stands and a finalizer stays until the end
  (`Behind`), and after the end no version with a finalizer is left to come.
  Without it a run could hold a Route it has only seen;
* `StageInv`: a run that makes children has a Route that is held, one that
  deletes has a Route whose deletion was asked for;
* `GatewaysInv`: no Gateway without the finalizer, and during a finalization
  only Gateways still to be deleted or missed by the listing;
* `TrafficInv`: a first attempt that would not conflict carries the traffic that
  is stored.

`ChildInv` adds that every Gateway, stored, cached or on its way, has the name
made for its owner (`OwnersInv`, hence a finalization deletes only Gateways of
its Route), that the Gateways a run collected exist (`LoopInv`), and that those
an HTTPRoute names are the Route's and exist while it is not being deleted
(`RefsInv`). Each write is one of four kinds (`Chapter`): a version of the
Route, of a Gateway, of the HTTPRoute, of a Service. Each kind is shown to keep
`OwnersInv` and `RefsInv` and to be a step of `RouteLifecycle`; each action is
then shown to write what a `Chapter` allows.

`ServedInv` is about what a run leaves behind. `Served` says that the Gateways
are what `MakeGateway` gives for a Route and a configuration, and that the
HTTPRoute names just them, lists what `makeHTTPRouteSpec` lists and has the
readiness of the status; or that the watch still has a version of the HTTPRoute
to show, which will wake the Route.

* `CollectInv`: in the loop over visibilities, the Gateways already visited are
  as made and are those collected;
* `InputInv`: a run whose Route nobody is about to process again works on the
  traffic, labels and annotation that the lister shows;
* `LateInv`: between `reconcileHTTPRoute` and the end of such a run, the children
  serve the run's copy;
* `RestInv`: they serve the stored Route when it is idle and its watch silent;
* `HTTPRouteWatch`: the watch of an HTTPRoute ends with the stored object, so an
  admission after the run comes back as an event.

`RestInv` alone is not inductive, since the run that establishes it works on
copies: the other parts tell when these are good enough. One lemma per action
preserves them; `BystandersServe` does so for the actions that touch nothing of
the Route in question.

For `HostsBoundWhenWritten`, `CollectInv` says which Gateways exist when
`reconcileHTTPRoute` writes, and a lemma of `ResourcesCheck_proofs`, instantiated
as `Walk`, that every hostname is a listener of one of them.

### Resources

The folds over the traffic are opened to what they are in the community modules:
a recursive function on sets of positions (`FoldsUpTo`). That such a function
exists, what it is on the first `m` positions (`FoldTurns`), and what the
accumulated value says of the first `m` targets (`Accumulated`, `Listing`,
`Counted`) each goes by induction on the number of targets. The prover cannot
instantiate the library's induction theorems, but can use that the natural
numbers are well founded: of the numbers for which a statement fails, take the
least (`LeastPosition`). A name occurs in a concatenation as often as in both
parts (`CountsAdd`), which with `Counted` gives `HostnamesAreListeners`.

### GatewayClients and GatewayInformers

Assumptions: finitely many names and namespaces, none of them empty; the empty
contents are contents; `Absent` is no object; the bounds are natural numbers, and
there is a first version.

`GatewayAPI_proofs` is about the log. It is `WellFormed` when each entry holds the
object under its key, with the entry's position for its version. Then what is
stored at a version (`At`) is what the key's last entry up to it left, which
later entries do not change; the lemmas `...Served` say what each method answers
and which entries it appends.

`CInv` of the clients: the log is well formed (`ServerInv`); a caller's copy is a
version that the server stored (`HeldInv`), so a PUT that is accepted by its
resourceVersion comes from the very object it replaces (`NoWriteIsUndone`); as
long as the two have not parted, the tracker holds the objects of the log without
their versions, and all answers so far agreed (`TrackerInv`).

`IInv` of the informer:

* `Queued`: a key is queued once, and just when it has deltas;
* `DeltasFit`: deltas are of versions the reflector has seen, a `Sync` comes first
  and carries the cached object, and no delta but a deletion is older than the
  cached object. This is what makes `NeverBackwards` true in spite of lists from
  a watch cache that is behind;
* `CacheInv`: items and index are one set of objects, and the notifications on
  their way are a `Trail`: each starts from the object its predecessor left, the
  first from what the handlers were told, and the last ends with the cached
  object. A pop puts the trail of its deltas behind the one there is
  (`TrailConcat`), a call of a handler takes its first step (`TrailTail`);
* `PopulatedInv`, `FirstInv`: an object of the first list is in the cache, among
  the first `initial` keys of the queue, or has changed since.

### TwoLaneQueue

Assumptions: the keys of the lanes are among `Keys`, `None` is none of them,
and there is a worker. The invariant says of each of the three queues that it
lists, without repetition, the dirty keys that are not in process (`QueueInv`);
of a lane that it has in process just what its producer is about to mark done,
and that a closed one is empty for good; of the consumer queue that its keys in
process are those of the busy workers, one for each (`WorkersInv`), and that the
last worker to exit leaves it empty (`ExitInv`). For the refinement, a key that
a producer has taken off its lane is still pending (`OnTheWay`), so moves from
lane to channel to consumer queue are stutters.

### Startup

Assumptions: the bounds are natural numbers and `NoRoute` is no Route. The
invariant follows the order of startup: contexts and listers have the one
informer of their kind once injection is over (`InjectInv`), a ConfigMap that
was handled is in the store (`StoreInv`), controllers run after all informers
have synced (`SyncInv`). `RunsUseTheStore` also needs what is true in the middle
of a load: the pieces read so far are those in the store unless a callback that
will enqueue the Route is still to run.

### Only model-checked

Liveness under fairness is beyond the prover: `EventuallyReady`,
`DeletionCompletes`, `CacheCatchesUp`, `FastIsServed`, `SlowIsServed`,
`ShutdownCompletes`, `EditsReachRoutes`, `StartupEnds`. That the `FALSE` case of
`ApiDefaults` keeps children as they should be is neither true nor stated. The
three statements the code does not keep are refuted by TLC.

## Mutations

Definitions marked `Mutation:` are variants a plausible mistake would produce: a
missing handler, a dropped requeue, an error that is logged and ignored, a
stale resourceVersion that is not noticed. They are not part of the
specification. For each property of a passing run `PROJECT.json` names one that
violates it under the run's own configuration.

## Not modelled

* Two replicas that write at once, while a lease passes from one to the other;
  `Startup` has one process that gains and loses the lead, as deployed.
* UIDs and new incarnations of a name; drift of Gateways caused by others;
  Routes whose Gateway names collide.
* The watches of the object tracker; the `filtered` informers and fake injection
  packages, which the controller does not link; `Start` and `WaitForCacheSync` of
  the informer factory, which `StartInformers` replaces; pages of a list.
* YAML and template errors, deep copies, registration of types in schemes,
  clients' rate limits, metrics, logs, events: no state the properties depend on.

## Plan

Done: all modules above; theorems for every invariant, action property and
refinement that the passing runs check.

1. Proofs: the lemma that a step of the two-lane queue, of the informer and of
   the store each is what `RouteReconciler` takes from it (`queue`, `cache` and
   `feed`, `config`), as refinement mappings.
2. Two Routes with colliding Gateway names; incarnations with UIDs; Gateways
   changed by others, with the periodic resync.
3. `Replicas`: two processes with leader election around the same reconciler.
