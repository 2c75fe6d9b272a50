# Verification of Naavik

Naavik is a Kubernetes control-plane program: it watches *TrafficConfig* and
*Dependency* resources in its own cluster, and Deployments, Services and Argo
Rollouts in every cluster for which it finds a secret, and writes Istio
VirtualServices and EnvoyFilters into the clusters of a service's clients.

This directory holds TLA+ models of its core, TLC configurations that check
them on small instances, and TLAPS proofs. Definitions are translated from the
Go source; `PROJECT.json` names, for every definition, the lines it stands for.

## 1. The system

### Components

| component | source | state | operations | module |
|---|---|---|---|---|
| controller framework | `internal/controller/controller.go`, `event_status.go` | a client-go workqueue, workers, a status channel and a status goroutine per run, retry counters | informer notification, worker loop, `handleStatus`, child events, retry, shutdown | `Controller` |
| rollouts cache | `internal/cache/cluster_rollouts_cache.go` | `sync.Map` of plain maps | `Add`, `Delete`, `Get*` | `RolloutsCache` |
| remote clusters | `internal/handler/remotecluster/`, `cache/remote_cluster_cache.go`, `cache/controllers_cache.go` | clusters by ID, registered controllers by name | secret added/updated/deleted, start, register, deregister, stop | `RemoteClusters` |
| workload handlers and caches | `internal/handler/k8shandler/deployment_handler.go`, `rollouts_handler.go`, `cache/cluster_deployments_cache.go`, `identity_cluster_cache.go` | identity+env → workload, identity → clusters | Added, Updated, Deleted | `WorkloadCaches` |
| dependencies and traffic configs | `internal/handler/dependency/`, `handler/trafficconfig/`, `cache/trafficconfig_cache.go`, `identity_dependency_cache.go`, `pkg/clients/clientset/istio/virtual_service.go` | traffic configs by identity and env, dependents by identity, the virtual services in the clusters | Added, Updated, Deleted of both resources, the two triggers, get/update/create/delete in each cluster | `TrafficConfigs` |
| envoy filters | `handler/trafficconfig/rate_limiting_*.go`, `clientset/istio/envoy_filter.go` | the filters in the clusters | which are requested, list, create, update, delete; what is in one: labels, ports, buckets, matchers | `EnvoyFilters`, `RateLimits` |
| virtual service rules | `handler/trafficconfig/virtual_service.go` | none (pure) | rules, weights, overrides and timeouts from a traffic config | `VirtualServiceRules` |
| bootstrap, lease, warm-up | `internal/bootstrap/`, `internal/leasechecker/`, `cmd/options/` | read-only flag, start time | start, `IsCacheWarmedUp` | warm-up in `TrafficConfigs` and `EnvoyFilters`, restarts in `EnvoyFilters` |
| services | `handler/k8shandler/service_handler.go`, `controller/k8s/service_controller.go`, `cache/cluster_services_cache.go` | services by cluster, namespace and name | Added, Updated, Deleted, each one locked call; the controller of a cluster that goes and comes back | `Services` |
| typed controllers | `internal/controller/k8s`, `controller/admiral`, ... | none | forward calls of the framework | not modelled, but their failure to start is in `RemoteClusters` |
| REST server, command line, logging | `internal/server`, `cmd`, `pkg/logger` | none of their own | views of caches, flags | not modelled |

### How they interact

1. An *informer* notification becomes an `InformerCacheObj` in the controller's
   workqueue. A *worker* takes it, creates a status channel, starts a status
   goroutine and calls the delegator's handler. The handler sends statuses; the
   status goroutine triggers `OnStatus`, asks for retries and marks the item done.
2. The *secret handler* puts clusters in the RemoteCluster cache and starts a
   service, a deployment and a rollouts controller for each, and stops them.
3. The *workload handlers* of each cluster keep what lives where, and trigger
   the traffic-config handler for the identity of a new workload.
4. The *Dependency handler* records the clients of each identity, and triggers
   the traffic-config handler for destinations that are new in an update.
5. The *traffic-config handler* looks up the clients and their clusters in the
   caches and writes virtual services and envoy filters there. It runs in the
   goroutine of whichever controller triggered it.

### What is hard, and what makes each part correct

* **Controller framework.** Worker, handler, status goroutine, delaying queue and
  shutdown interleave. Correct means: one run at a time per event, a reader for
  every blocked send, no more retries than granted, no item forgotten, the
  backlog handled before a worker leaves, and a shutdown that ends.
* **Rollouts cache.** `Delete` loads outside the lock. Correct means: callers
  cannot tell it from a cache with atomic operations.
* **Remote clusters.** Starting and stopping are asynchronous; deregistering,
  closing and clearing the cache are separate steps of a goroutine. Correct means:
  cache, registration and running controllers agree once things are quiet, no
  channel is closed twice, and a removed secret leaves nothing running.
* **Workload caches.** Two workers change the same identity, and entries are
  removed by key. Correct means: nothing lingers once it is gone, what exists is
  known, and the resync repairs the rest.
* **Services.** A cluster that is removed and added again has two controllers for a
  while, of which the old one still works off its queue; nobody empties the cache in
  between. Correct means: once all is handled the cache says what the cluster has.
* **Traffic configs.** Three kinds of workers get and write the same objects from
  caches that change in between; calls fail and are not repeated. Correct means:
  a handled revision reaches every client's cluster, nothing is written where no
  client is, and older revisions do not replace newer ones.
* **Envoy filters.** The same three kinds of workers compare what exists with what
  the caches say now, then create, update and delete one by one; failures are
  neither reported nor repeated; after a restart they compare with caches that are
  just being filled. Correct means: a service stays throttled while its filters are
  rewritten, and a deleted traffic config leaves none.
* **Rate limits.** The labels and the ports of a filter are looked up one after the
  other in caches that change; keys are made of names that may hold the separator;
  amounts change their width. Correct means: a call draws on the buckets of the
  quotas it is meant for and of no others, and the filter is for one workload.
* **Virtual service rules.** Rules are built in the order of Go maps and matched in
  their order; timeouts change their unit and type four times. Correct means: each
  request meets the route meant for it, the weights add up, the timeout is the one
  that was asked for, and building again changes nothing.

The complete list of hazards, each at its line and with the properties that
cover it (or the reason why none does), is under `hazards` in `PROJECT.json`.

## 2. Modules

```
EventLifecycle      what the framework promises about one event
  ^ refined by
Controller          queue, workers, status goroutines  <- ControllerProofs, MCController
AtomicCache         a cache with atomic operations
  ^ refined by
RolloutsCache       sync.Map, maps and the late lock   <- RolloutsCacheProofs, MCClusterCaches
RemoteClusters      secrets, caches, start and stop    <- RemoteClustersProofs, MCRemoteClusters
WorkloadCaches      workload handlers of a cluster     <- WorkloadCachesProofs
Services            service handlers of a cluster
ClusterCaches       the last two together              <- ClusterCachesProofs, MCClusterCaches
RevisionRollout     who may write which revision
  ^ refined by
TrafficConfigs      handlers, triggers, cluster APIs   <- TrafficConfigsProofs, MCTrafficConfigs
EnvoyFilters        filters of one traffic config      <- EnvoyFiltersProofs, MCEnvoyFilters
RateLimits          what is in a filter
VirtualServiceRules rules of one virtual service
Translation         the last two together              <- TranslationProofs, MCTranslation
```

The modules meet at few points, and each states what it takes from the other:
`RemoteClusters!WorkersDone` stands for the shutdown that `Controller` details;
`WorkloadCaches` and `TrafficConfigs` use a handler run of `Controller` as a
sequence of steps of one worker, in the order of its notifications
(`FirstRunsInOrder`), and `TrafficConfigs` takes the caches of `WorkloadCaches` as
one set of clusters per identity. `EnvoyFilters` is the first half of the handler of
`TrafficConfigs` and `VirtualServiceRules` what the second half writes.

`Translation` composes `RateLimits` and `VirtualServiceRules`: one handling of a
traffic config builds the filter first and the rules after it, in the same
goroutine, so that a crash in the first leaves the second undone.
`ClusterCaches` composes `WorkloadCaches` and `Services`, which a cluster's
controllers run side by side. They share neither a cache nor a queue; a step of one
commutes with every step of the other, so the composition lets one of the two
change at a time and loses no state of either. Every `MC` module only names small
values for the constants of its module. `MCTranslation` adds the initial states in
which the rules, the quotas or the workloads vary, and `MCClusterCaches` an instance
of `RolloutsCache`, which again shares nothing with the others and moves only while
they rest, and they only while it rests: what happens inside the calls that
`WorkloadCaches` takes as single steps.

Operators named `...Forgotten`, `...KeepsOld`, `...WithoutSignal` and the like,
announced by "Mutant of", are faulty variants of the operator that follows them.
They are in no `Next`. Each property has one that breaks it.

### Controller

`queue`, `dirty`, `processing`, `delayed`, `shuttingDown` and `drain` are the
fields of client-go's `Type` and of its delaying wrapper; `Add`, `Done`, `Get`,
`ShutDownWithDrain`, `Recheck` are its methods, with the condition variable's
`Signal` and `Broadcast` as moves of the control point `pc` from `wait` to
`woken`. They are external code: only the calls of `controller.go` matter.
`Notify` is the informer's handler, `SyncSucceeds` and `SyncFails` are
`WaitForCacheSync`, `Get` is the head of the worker loop with the new channel and
the `go` of `handleStatus`. `Send`, `CreateChildEvent`, `ChildSendClose`,
`SendFinal`, `Close` are what any handler may do with its channel; a handler is
any sequence of these that ends with a final status and the close, as
`SendClose` and `SkipClose` do. `OnCreateChild`, `OnSkipOrCompleted`, `OnRetry`,
`OnMaxRetryReached`, `StatusDone` are the cases of the range loop of
`handleStatus`. The item marked done for a child is not in the queue, and its
`Done` only wakes the waiters when nothing is processed (`DoneChild`).

Two notifications of one object are two events, because the queue holds
pointers: the framework does not serialise the events of an object by itself,
only a single worker does.

Left out: children ask for no retry (no handler's child does), a run has at most
one child, texts and logging. Statuses that only reach `OnStatus` are one value,
`Completed`. A handler could also send a retry that is not its last status
(`event_status.go:107-116`), which a run here does not: every handler of the
repository sends one status and closes, and `ChanInv`, on which the proof about
retries rests, says that the one that asks for a retry is the last.

### RolloutsCache

`rolloutcache` maps a cluster to a map object and `heap` gives each object its
content, so that a `Delete` can hold an object that was dropped. `DeleteLoads`
is the part before the lock, `DeleteFindsNothing` and `DeleteLocked` the two
ways it goes on, `Add` runs under the lock entirely. Objects are garbage
collected: one that nothing refers to may be allocated again. `wasAbsent` is a
history variable for the abstract specification: a `Delete` may leave its key in
place only if the key was absent at some time during the call.

### RemoteClusters

`SecretAdded`, `SecretUpdated`, `SecretDisabled` and `SecretDeleted` are the handlers of
`clusters_secret_handler.go` with a secret whose sync is or becomes enabled, stays
enabled, becomes disabled, or that goes; one that comes with sync disabled is skipped
(`SecretIgnored`), and deleted like any other. A deletion that the watch missed comes
as a tombstone, which the cast drops (`SecretDeletedTombstone`): the cluster stays
(`missed` is the history of it). They work cluster by cluster (`SkipCached`, `Resolve`,
`ResolveFails`, `StartCluster`, `StopCluster`); `Resolve` and `StartCluster` are
two steps, because the configuration is resolved between the look at the cache
and the write to it. `Stop` is the loop over the registered controllers with its
test by substring (`Matching`), and each record of `stoppers` is one goroutine
it starts: `DeRegister`, `CloseStopCh`, `DeleteCluster`. `Register` is the call
at `controller.go:130` in the goroutine of the started controller.

`calm` is a history variable: every change of secrets came when nothing was in
progress. The properties that need it say so; without it they are false (see
*Findings*), which is why they are not stated for all behaviours.

A start may not bring every kind of controller: a client that cannot be built, or
a controller that fails, is logged and the others go on. `StartCluster` chooses
which come, at most `MaxFailures` starts are incomplete, and `missing` (history)
has what did not come. Nothing retries it as long as the cluster is cached.

Left out: `CurrentContext` is the cluster ID; a secret's data do not change; the
secret controller has one worker in the runs, as configured.

### WorkloadCaches

One cluster is enough, as every key includes the cluster. A notification carries
the old and the new object, as the informer's does; `Added`, `Updated` and
`Deleted` turn it into the sequence of cache calls the handler makes, and each
call is one step, so that the deployment and the rollouts worker interleave at
every call. `Admitted` is the handlers' early return (ignored, not mesh enabled,
without identity). `DeletionMissed` is a deletion the watch did not see: the
informer hands over a tombstone, the cast fails and the handler returns.

`orphans` and `everHad` are history variables that say which entries the
handlers never look at again and which identities were ever shared.

### Services

A cluster's service controllers are numbered; the last is the current one.
`NewServiceController` lists what is there, in any order, and
`StopServiceController` ends its informer but not its queue. `Added`, `Updated`,
`Deleted` and `DeletedTombstone` take the head of one queue and make one call of
the cache, `Add` or `Delete`, whose nested maps are functions. Each controller has
one worker, the default. A tombstone fails the cast in the handler, which returns.
Closing the stop channel and the end of the informer are one step: in the code the old
informer may still notify for a moment after the new one has started. `overtaken` has
the effect of that already, as what the old controller still has in its queue is
handled after the new one has started, too.

`missed` (services that no controller saw go) and `overtaken` (services that a
replaced controller was the last to handle) are history.

### TrafficConfigs

`job` is what each worker does, with `phase` as its program counter:
`trigger`/`dependents`/`rest` for `TriggerTrafficConfigHandlerForIdentity`,
`lookup`/`clusters` for the lookups of `HandleVirtualServiceForTrafficConfig`,
`apply`/`write` for the loop over clusters. `vs` is what the API servers have:
the revision in the virtual service of each identity and cluster. Every call of
an API is a step that may fail (`MaxFailures`), and a failed get is taken for an
absent object, as in the code. Instead of a resource version the record holds
whether what was read is still current (`seen` is `present` or `outdated`) and
whether the object carries a version at all (`versioned`).

`owed` (clusters an undisturbed handler must have reached) and `refused` (where
only the resource version of another cluster was in the way) are history fields.

A revision may have no routes (`routeless`): then no virtual service can be built, and
the handler returns after its look-ups, before the first write (`LookingUp`). What the
cast of a deletion drops is `TrafficConfigDeletedTombstone`. The identity that
triggered is compared with the clients as its workload writes it, and clients are in
lower case: an identity in `MixedCase` is never its own client (`LookUpClients`).

Left out: one traffic config and one environment per identity; the options'
filters of identities and clusters; envoy filters (in `EnvoyFilters`; they change
nothing that virtual services depend on); the rules (in `VirtualServiceRules`); the dependents a
Dependency adds are added in one step. A notification appears when its handler
starts: the worker is alone and handles them in order. Read-only mode is never
met: the state checker of the code has left it before the controllers start.

`RevisionRollout` says what is left when clients, the caches of them, resource
versions and failing calls are not looked at: the owner of a traffic config, the
worker of its controller, holds the revision it was told last while it writes, every
other worker the one that was in the cache when it began, and only the owner
removes. A revision is written where the service has to reach a client. The
refinement mapping has `current` for `told`, the cache for `known`, the phases of
`Handling` for holding, and the clusters that dependents ever had for `reach`.

### EnvoyFilters

`job` is what each worker does: `add`/`trigger`/`unlink` are the calls of the
workload handlers, `build` is the loop that requests filters and lists those
that exist, `write` the three loops of `ApplyEnvoyFilters`. `filters` is what the
cluster's API server has: for each environment and proxy version the revision a
filter was made from. `seen` says of each requested filter whether it was read
when it was requested and is still as it was; this replaces resource versions.
The API server refuses to create what exists, to create an object that has a
resource version, and to update without the current one. `CallFails` is any
call that fails; the deletion of a filter goes by name. For a deleted traffic
config nothing is requested, so that all that exists is deleted; the code does
it without the comparison.

`Restart` ends the process at any point: caches and handlers are forgotten, the
filters stay, workloads stop and the traffic config may be deleted meanwhile;
`TrafficConfigListed` is the Added that the informer sends for it afterwards.
Warm-up is a span of time (`IsCacheWarmedUp`): `WarmUp` may come at any time, whether
the informers have delivered everything or not. `TrafficConfigDeletedTombstone` is a
deletion that the watch missed: the revision stays in the cache and its filters stay.

`steady` (the environments of a handler's revision that had a workload in the caches
from its start on), `known`, `job.alone` (no call failed, no other handler changed a
filter) and `excused` are history.

Left out: clusters after the first (they are handled one after the other and
share nothing); a cluster that is removed meanwhile, which is skipped; what is
inside a filter (in `RateLimits`); more than one traffic config per identity; workloads
that move to another identity (for this one a deletion). Disabled and ignored
notifications change nothing.

### RateLimits

`GetDeploymentLabels`, `GetRolloutLabels`, `CreateRoutePatches`,
`GetDeploymentPorts` and `GetRolloutPorts` are `createRateLimitingFilters` for one
environment, with a step for each look at a cache; `WorkloadChanges` is what the
workload handlers do between them. `Descriptor` and `RateLimit` are what a quota
becomes, `ConfigPatches` the patches. Names, paths and header values are sequences
of words: the separator of keys is a word of its own that names may contain, and
`*` and `.*` are words that `PathRegex` replaces. The code escapes nothing else: words
in `Operators`, such as a dot, are operators of the regular expression, and what a
pattern with one of them matches is left open (`Unescaped`). Amounts wrap at `Wrap`,
which stands for 2^32. `ArgoRolloutsEnabled` is asked for the labels, as in the code,
but not for the ports. A traffic config without a quota group ends the process
(`CreateRoutePatches`), and nothing of `Translation` happens after that. `Produces` and `Drawn` are Envoy's: which rate limits apply to a
call, and on which buckets it draws.

Left out: the order of quotas, as the proxy gives it no meaning; durations other than parsable and not; the fixed parts of
patches (names, filter types, status codes).

### VirtualServiceRules

`Build`, `AddRoute` and `AddAllowAllRule` are one run of
`buildVirtualServiceForMeshDependents`, route by route; `vs` is what was written
last, so that a second run for the same traffic config can be compared with it.
Without routes `Build` ends at once, with an error. Routes may be without
environments, and then have an empty host. The operators before them are the helpers of
`virtual_service.go`. A Go map is a
function, and where a range over one decides the order of rules,
`AppDialRules` is the set of all orders (`SetToSeqs`). The order of destinations
within a rule does not matter and is that of the route. `Requests` and `Matches`
are Istio's: a rule matches by the prefix of the path, the rules at the end also
by the host, and the first that matches serves.

Timeouts are records of seconds and nanoseconds, as in the API: `RouteTimeout` is
the value of a route, `FinalRouteTimeout` the cut at a millisecond and
`AllowAllTimeout` the maximum by whole seconds. Destinations are a function of the
places of their selectors, so that their weights can be added up in any order.

Left out: rewrites, rule names, labels; a traffic config without edge service, and an
environment whose name is empty. Targets or groups that are nil are empty. Route names, and the names in weights, are unique, as the code's own
comment at `virtual_service.go:468` takes for granted. Weights are percentages: the
conversion to `int32` keeps them.

## 3. Runs

All runs state their bounds as constants; `CHECK_DEADLOCK FALSE` is given where
the system may stop: a controller that was shut down, a process that crashed, or
a model whose bounds are used up.

| run | question | instance |
|---|---|---|
| `controller_two_workers` | queue safety, and refinement of `EventLifecycle` | 2 events, 2 workers, 1 retry, channel of 1, 1 extra status per run, shutdown any time; 3.1 M states |
| `controller_live` | is everything processed, does a shutdown end? | 2 events, 1 worker (the default concurrency), 1 retry |
| `controller_stop_two_workers` | does a shutdown end with two workers? (violated) | 1 event, 2 workers |
| `remote_clusters` | do cache, registration and controllers agree? does a resync repair? | 2 secrets sharing a cluster, 2 kinds, 3 changes, 1 tombstone, 5 starts, 1 incomplete start; 50,000 states |
| `remote_clusters_late_register` | does everything stop with the secret? (violated) | 1 secret, 1 cluster, 1 kind |
| `cluster_caches` | what lingers, what is known, what does a resync repair? refinement of `AtomicCache` | workloads: 2 deployments, 1 rollout, 2 identities, 2 environments, 5 specs, 3 changes; services: 3 in 2 namespaces, 3 changes, 2 controllers, queues of 2; rollouts cache: 3 threads, 1 cluster, 2 identities, 2 environments, 3 map objects; 0.6 M states |
| `traffic_configs` | what an undisturbed handler achieves, what none may do | service and client, 2 clusters, 2 revisions, 2 workloads, 1 Dependency, 1 fault (something that goes, a tombstone, a failed call or a revision without routes), the client's identity with capital letters; 1.8 M states; also the refinement of `RevisionRollout` |
| `envoy_filters` | what a handler leaves, when a filter may go | 2 environments, 1 proxy version, 2 workers, 2 revisions, 2 workloads, 1 trigger, 1 failed call, 1 restart; 2.5 M states |
| `translation` | on which buckets does a call draw, and which rule serves it for how long? | quotas: one group of each kind or two of one, 8 lists of quotas, names with separators, a path with a dot; 3 workloads, 2 changes; none, one or two routes for no, one or two environments, and 784 sets with other timeouts; 1.2 M states |
| `translation_other_environment` | does a request take routes of its environment only? (violated) | 1 route, 2 environments |
| `traffic_configs_stale_cache` | is the cache at least as new as what was handled? (violated) | as `traffic_configs` without faults |
| `traffic_configs_new_cluster` | does a handled revision reach all clusters? (violated) | the same |

Why the bounds are enough. *Controller:* with two events and two workers a retry
can meet a second worker, a new notification and a shutdown; one retry and none
left are the two cases of the comparison with `MaxRetryCount`; a channel of one
makes sends block earlier than the real one of five, and a run with an extra
status fills it. *RolloutsCache:* three threads and three objects let a `Delete` hold a dropped object
while the cluster has a new one and another `Delete` a third; two identities and
environments tell an empty entry from an empty map. Clusters share only the objects
that are free, so that one cluster is enough; with two clusters, two threads and four
objects it was checked as well. Nothing is bounded in depth, and the theorem covers
every size. It shares nothing with the caches it is checked beside, and each moves
while the other rests, which adds its states to theirs instead of multiplying them.
*RemoteClusters:* two secrets that share a cluster are the only way in which
secrets interact; three events allow add, add, delete, or one secret that comes, goes
(as a tombstone, too) and comes back, each in any order with resyncs in between; five
starts are more than three events and the repairs of lost entries cause. One
incomplete start leaves a kind out while the other runs.
*WorkloadCaches:* three workloads let two of one kind share a key and two kinds
share an identity, and three changes let each appear and one of them move.
*Services:* two names of one namespace and one of another tell an empty namespace
from an empty cache; two controllers are an old and a new one.
*TrafficConfigs:* two revisions are needed for one to be older, two clusters for
one object to be written twice, two workloads for a client in both clusters, and
the service itself is a possible client. Two faults were tried as well (5.1 M
states), so that two of a failed call, a tombstone, a revision without routes and a
removal meet, and each of the larger bounds on its own without faults (3 revisions,
3 workloads, 2 Dependencies; up to 4.2 M states), without change.
*EnvoyFilters:* two environments let one filter be kept while another is created
or deleted; a trigger in the second worker applies the cached revision while the
first applies the new one. 3 revisions, 3 workloads, 2 proxy versions and 3
workers were each tried on their own without restarts, up to 4.5 M states,
without change. One restart meets every point of a handler.
*RateLimits:* names `g` and `g:q` with quotas `q` and `q:q` give equal strings the
wrong way of joining would confuse; two changes of workloads let one go between the
two looks and another come.
*VirtualServiceRules:* two routes for one to hide the other, two groups for one to
replace the other's overrides or share one of its names, two clients for two orders of
a map. A route selects nothing, a target without a group, one whole group, half of it,
the other, or both.
Timeouts are 0, 1, 2, 800, 1200, 2000 and 3,000,000 milliseconds, on both sides of
each cut.

### Fairness

* `Controller`: a goroutine that can run is eventually scheduled (weak fairness
  of each worker and status goroutine), timers of the delaying queue fire, and
  `informer.Run` returns after its stop channel is closed. Nothing makes the
  informer sync, deliver or stop. Weak fairness suffices: a handler always may
  send its final status when the channel has room, and the reader makes room.
* `RemoteClusters`: handlers and goroutines run; the informer of secrets resyncs
  each present secret again and again, and a configuration that is resolved again
  and again resolves at last. Both are strong fairness, because another event or
  a failed attempt disables them in between.
* `WorkloadCaches`: handlers run; informers, started with `CacheRefreshInterval`,
  resync every workload again and again (strong, as the queue may be full).
  `Services` has none: what a resync repairs is the exception of `ServicesFollow`.
* `TrafficConfigs`, `EnvoyFilters` and `Translation` have none: no handler is ever
  retried, and no property of them says that something must happen.

### What the runs show

Passing: one run at a time per event and a reader for each blocked send
(`ExclusiveRun`); retries within the bound and none after giving up
(`RetriesBounded`, `GiveUpIsFinal`); the backlog handled and nothing in progress
when the workers have gone (`BacklogHandled`, `StoppedMeansDrained`); first runs in
order (`FirstRunsInOrder`); progress (`PickedIsProcessed`, `WaitingIsRun`,
`StopTerminates` with one worker). The rollouts cache is atomic, because a map
that is dropped is always empty (`StaleMapIsEmpty`). With calm changes cache and
controllers agree, but for those that could not be started, and no channel is
closed twice (`RunningIffCached`, `StopChClosedOnce`); in any case, with one worker, no
cluster outlives its secret in the cache, unless its deletion came as a tombstone
(`OwnerIsPresent`) and the resync brings back what late goroutines removed
(`ResyncRestores`). Only what handlers do not look at lingers in the workload
caches (`OnlyOrphansLinger`), a workload whose identity was never shared is known
(`OwnIdentityIsKnown`), and the resync repairs the rest (`ResyncRestores`). The
cache of services follows a watched cluster, what nobody saw go and what an old
controller overwrote aside (`ServicesFollow`). An undisturbed handler leaves its revision, if it has routes, where it looked up
clients (`HandledIsApplied`), virtual services are only where clients are or were
(`OnlyWhereClientsAre`), and the traffic-config worker itself never goes back to
an older revision (`OwnHandlerMovesOn`); each write is of the revision its writer may
have (`ImplementsRollout`). Undisturbed, `ApplyEnvoyFilters` leaves exactly
what was requested (`HandledIsExact`). Whatever calls fail, whatever handlers run at
once and whenever the process restarts, no filter goes during warm-up, and afterwards
only by a handler whose revision does not list the environment, or during which the
caches were without a workload of it (`FiltersStay`): each filter is updated in place,
a get that fails leaves it requested, and a failed list merely means that nothing is
deleted. A deleted traffic config leaves no filter unless its deletion came as a
tombstone, during warm-up or after its last workload, a call failed, or a trigger was
still applying the cached one (`DeletedLeavesNothing`).

No two quotas share a bucket, although names of quotas and apps may hold the separator
(`OwnBuckets`). A call draws on the bucket of a quota whose path has no operators
exactly if it meets the quota's path, methods, headers and app, whatever quotas with
other paths are next to it (`QuotasApply`). A filter built while no workload changes is
for one workload and limits its ports (`LimitedIsSelected`). Every request is served,
and by the first route with its path if that is one of its environment
(`FirstRouteServes`); weights add up for a route that selects one whole group
(`SplitIsWhole`), overrides go before the service's weights (`OverrideWins`), timeouts
are kept to the millisecond (`TimeoutsKept`), and building again changes nothing unless
several clients override one group (`RebuildIsSame`).

Each exception that one of these properties names is something that the code does, and
that the model does too. `hazards` in `PROJECT.json` has them, at their lines.

### Findings

Each with a violation run and listed under `findings`:

1. **Graceful stop can hang with several workers** (`controller.go:163`). Every
   worker calls `ShutDownWithDrain`; the last `Done` signals one waiter only.
2. **A controller that registers after its cluster was removed is never stopped**
   (`controller.go:130`).
3. **Updates never reach the traffic-config cache**
   (`traffic_config_handler.go:97`), so a trigger writes the first revision over
   a newer one.
4. **The object updated in one cluster cannot be created in the next**
   (`virtual_service.go:572`): it still has the resource version of the first.
5. **A request may take a route of another environment.** The comment at
   `virtual_service.go:109-110` speaks of a virtual service "per workloadEnv", with a route
   "if that route is present in that env". `getCombinedRouteDetails` (`:138`) takes all
   routes into one virtual service for all environments; rules of routes do not look at
   the host, and lead to the first of the route's environments.

Met while modelling, without a run of their own; most contradict nothing that the
repository promises, a comment that is contradicted is quoted:

* Statuses of children are handled in goroutines that shutdown does not wait for
  (`controller.go:238`).
* `DeRegister` is by name and late, so it can remove the registration of a newer
  controller (`remote_cluster_resolver.go:168`); the cluster is cleared from the
  cache both at once and again when the workers have finished.
* Removing `cluster-1` also stops the controllers of `cluster-10`: the "Sanity check
  to make sure we are only stopping the controllers for the cluster"
  (`remote_cluster_resolver.go:161-163`) is `strings.Contains`. The constant
  `Matching` of `RemoteClusters` has room for it; the runs take IDs without this.
* A cluster ID with capitals is never found among the lower-cased names
  (`remote_cluster_resolver.go:163`).
* Deleting one of two workloads of an identity unlinks the cluster from it until
  the next resync (`deployment_handler.go:121`).
* A new workload triggers the traffic configs of its *dependents*
  (`traffic_config_handler.go:194`), not of the services it depends on, and an
  added Dependency triggers nothing.
* Traffic configs that change during warm-up are dropped, and their informer has
  no resync (`traffic_config_handler.go:104`).
* A deleted traffic config has its virtual service written once more, unless it
  was disabled.
* A traffic config without edge service gives an empty object with nil
  annotations, which the create writes to.
* Overrides of single clients serve every client: their rules match nothing but
  the path (`virtual_service.go:246-254`). With two clients the map's order decides.
* Without target details a route with a configuration gets no rule, and the
  timeout of one without is taken for nanoseconds and dropped
  (`virtual_service.go:393-396`).
* The filters of a traffic config that was deleted after its last workload, or
  during warm-up, stay in the cluster (`rate_limiting_handler.go:31`).
* A traffic config without a quota group is a nil pointer in the handler
  (`rate_limiting_handler.go:168`), from which nothing recovers.
* A negative amount of a quota becomes an almost unlimited bucket
  (`rate_limiting_helper.go:157`).
* An informer that is slower than the warm-up after a restart makes the first
  handler delete filters that are wanted (`options.go:193`, the exception that
  `FiltersStay` names).
* The path of a quota is a regular expression of which only the star is rewritten: `/v1.0`
  limits `/v1x0`, too (`rate_limiting_helper.go:79`).
* A revision without routes is an error after which the virtual services of the revision
  before go on serving (`virtual_service.go:454`).
* Deletions that the watch missed come as tombstones, which every handler's cast drops: a
  cluster stays, and its controllers with it (`clusters_secret_handler.go:98`); a traffic
  config stays in the cache, and triggers go on writing it (`traffic_config_handler.go:133`).
* The identity that triggered is compared with capital letters, if it has any, with
  clients in lower case: its triggers write nothing (`virtual_service.go:74`).
* Whether Argo Rollouts are enabled is asked for the labels of a filter, not for its ports.
* A kind of controller that could not be started for a cluster stays missing until
  the cluster is removed (`remote_cluster_resolver.go:108`).
* The route `/resources/identities/:identity/dependents/:dependent` is given the
  handler of the route without dependent (`traffic_config_handler.go:13` of the REST
  server).
* `errors.Join` is called for its effect in `envoy_filter.go`; it has none.
* `DEVELOPER.md` says annotations come before labels for the environment,
  `resource_utils.go:40` looks at labels first; the default of
  `MaxRetryCount` differs between `event_status.go:13` and its documentation.

## 4. Proofs

The modules `...Proofs` are checked by TLAPS for all values of the constants that
the named `ASSUME`s admit; a theorem that needs more says so as a premise. Each is
laid out the same way: a typed inductive invariant `IInv`, a lemma per action that it
is kept, and the property as a consequence.

**Controller.** Assumed: `NoEvent` is no event, `MaxRetry` is a natural number,
`ChanCap` a positive one, `MaxSends` a natural number (`ConstantsAssumption`);
the sets of events and workers are arbitrary. Of the properties, only
`GiveUpIsFinal` and the refinement are about steps, and none is inductive alone.
The inductive invariant `IInv` adds

* `QueueInv` — the queue holds dirty items, none twice, none being processed;
* `RangingInv` — an item is processed exactly while its status goroutine lives:
  this is why a blocked send has a reader;
* `OwnerInv`, `ChanInv` — a worker in a run owns the event, and a status that asks
  for a retry is the last of its channel: this is why the retry, which may be taken
  by another worker at once, finds the run over;
* `RetryInv` — a scheduled event has used all runs it was granted, a running one
  all but one: the comparison with `MaxRetryCount` needs exactly that;
* `DrainInv`, `LastWorkerInv` — workers leave only after `ShutDown`, and as long
  as something is processed somebody is left who waits for it;
* `BacklogInv` — an event that never ran is in the queue;
* `OrderInv` — the events that never ran are in the queue in the order in which they
  arrived, and what is processed or delayed ran before: this is about the queue and the
  list of arrivals at once, and holds because a retry puts back only what has run.

`Inductive` proves `Init => IInv` and, action by action, that `IInv` is kept;
`TypeCorrect`, `RunsAreExclusive`, `RetriesAreBounded`, `GracefulStop`,
`BacklogIsHandled` follow, `FirstRunsAreInOrder` from it with `OrderInv`, `GiveUpFinal`
is the step from it, and `Refinement`
shows that each step is one of `EventLifecycle` or a stutter.

**RolloutsCache.** Assumed: `NoMap` is no map and `NoKey` no key. `IInv` adds to
`StaleMapIsEmpty` that clusters share no map (`MapsAreOwned`), that a `Delete`
holds no map of another cluster (`LoadedInv`), and that a key never absent during
a call is in the map that was loaded (`PresentInv`). `StaleMapsAreEmpty` and
`Refinement` follow.

**TrafficConfigs.** `OnlyWhereClientsAre` needs to know where a handler got its
clusters from: `JobOK` says that it has found only true clients and, later, only
clusters that one of them had (dependents and homes only grow in the history), so
what it writes is there rightly (`VirtualServicesAreAtClients`).
`HandledIsApplied` needs `JobApplies`: each cluster a handler owes its revision to is
still to come, or at hand with what was read of it, or has the revision, if that has
routes; a write of another handler removes the debt, and a refusal of the API server is possible
only where the object had another cluster's resource version
(`HandledRevisionIsApplied`). `OwnHandlerMovesOn` needs `JobRev`: no handler has a
revision later than the current one, and the traffic config's own worker has the
current one, because it handles one notification after the other
(`OwnHandlerNeverGoesBack`). `Refinement` takes the steps of the handlers one by one:
a lookup or a call that fails is a stutter (`KeepsStutters`), the beginning of a
handler is `Take`, `Tell` or `Withdraw`, its end `Release`. That a write goes where
`reach` is needs `JobOK` once more, and that it is of the revision held is in the job.

**EnvoyFilters.** `JobStays` says that a handler requests every filter of the steady
environments it has looked up, so that the comparison never deletes one of them. With
`WarmInv` (handlers run with warm caches, and what is steady has a workload) it is
inductive, and `WantedFiltersStay` needs no premise: nothing is assumed of informers, of
the time they take, or of other handlers. `JobExact` (what a handler that is alone has
read is still so) gives `HandledFiltersAreExact`, and `DeletedInv` (after a deletion that
is not excused its handler deletes every filter) with `RevisionInv` (and no handler finds
it in the cache any more) `NoFilterOfDeletedTrafficConfig`.

**Translation.** The proofs are about `BothSpec`, the composition. Assumed of traffic
configs (`TrafficConfigAssumption`): lists are sequences, route names unique and none
of them `NoRoute`, overrides those of finitely many clients, weights integers; routes may
be without environments; of quotas and calls (`RateLimitAssumption`): names are
sequences of words, methods of calls are upper-case as in HTTP.

*Rate limits.* `OwnBuckets` rests on two facts about keys: a key determines both
its parts if the first has no separator in it (`KeyParts`), and the second if the
first is known (`KeyTail`). So names of groups must not contain the separator and
those of quotas and apps may. `LimitedIsSelected` needs that both looks at the
caches take the same branch while nothing changes (`ChosenInv`). For `QuotasApply`
the invariant says that a finished filter has exactly the descriptors and rate limits
of the quotas wanted (`DescriptorsInv`); then entries tell quotas apart
(`EntriesDiffer`), and a rate limit whose path has no operators applies to a call exactly
if it is for it (`ProducesIsFor`, `StarIsLiteral`), path, methods, headers and app one
after the other. Nothing is assumed of what patterns with operators match: by their
entries they draw on buckets of their own.

*Rules.* `RulesInv` says that the rules so far can be cut into those of the first
route, of the second and so on, each of them a choice the route has (`Cut`,
`BuiltFrom`), and that what was written is such a list of all routes with the rules
for all requests behind it (`Whole`). `BuildOn` adds a route. Induction over the
routes is out of reach, but the least and the greatest of a set of numbers are not
(`LeastNumber`, `GreatestNumber`): the first rule that matches is in the first route
that has the path and adds rules (`FirstMatch`, `Serving`). A route may add none, if it
is without environments and selects nothing that has weights (`HasRules`); the first
route of a request that is one of its environment adds some (`FirstServes`), which gives
`RequestsTakeTheirRoute`; `OverridesWin` adds that
overrides come first in a route (`OverridesComeFirst`), `RoutesKeepTheirTimeouts` the
arithmetic of one timeout (`RuleTimeout`), `RebuildsAreTheSame` that a route of groups
with one client each has no choice (`AddedIsSame`). For `SplitsAreWhole` sums over finite
sets are shown to exist (`SumExists`), not to depend on which element comes last
(`SumInAnyOrder`) nor on what the elements are called (`SameTotal`), each by a least set
for which it fails (`LeastSet`); a route that selects one whole group then only renames
what the group adds up to.

**RemoteClusters.** Premise `OwnNames`: an ID occurs in the names of its own
controllers only. For calm changes `CalmInv` says that events do not overlap with
each other or with stoppers (`OneAtATime`), each instance is stopped by one
goroutine, for its own cluster, and runs until that closes its channel
(`StopperInv`), only the last instance of a name runs (`InstanceInv`), and what is
registered runs (`CacheInv`); no number of workers matters, as calm events come
one by one. `OwnerInv` needs no calm but one worker, the premise `OneWorker`: with
two, a deletion can overtake the addition that is still resolving. What a secret whose
tombstone was dropped leaves is its exception, until the secret is back.

**Workload caches.** Each kind has its worker and its cache; the identities are shared, and
between a notification and its effect there are calls still to be made. For a key of a
cache, or for all keys of an identity, what will be there is decided by the last call to
come: `EndsWith` says that every call with one effect is followed by one with the other.
`LingerInv`: what is in a cache is needed, by a
workload or as an orphan, or a call that clears it is to come. `KnownInv`: a workload with
an identity that no other ever had is set, or a call that sets it is to come and is not
overtaken. `OriginInv` bounds what notifications and calls can be about: identities that
their workload once had, in the queue of its kind. Assumed: deployments and rollouts are
different, specs have the fields they have (`WorkloadAssumption`).

**Services.** The difficulty is two queues for one cache. `LastTells`: the last
notification of a service in the current controller's queue tells what became of
it. `CacheTells`: of a service nobody has a notification of, the cache tells it,
or the old controller was the last to write it. `CachedServicesAreThoseOfTheCluster`
follows when the queues are empty.

**ClusterCaches.** Each of the two components behaves as it does alone
(`WorkloadsAreKept`, `ServicesAreKept`), so the theorems about the composition,
`GoneWorkloadsAreOrphans`, `OwnIdentitiesAreKnown` and `ServicesOfTheCluster`, are those
about the components.

**Model-checked only.** Every safety and action property of a passing run is the
statement of a theorem, the three refinements among them; those of the rollouts cache are
proved of `RolloutsCache`, of which the run has an instance.
Liveness is not: `PickedIsProcessed`, `WaitingIsRun`, `StopTerminates` and the two
`ResyncRestores` need fairness and `ENABLED`, which are out of the prover's reach. What a
violation run shows is a behaviour of its instance.

## 5. Not modelled

* REST server, command line, logging, configuration: views of the caches as JSON,
  flags, I/O. They keep no state of their own and write to no cache.
* Typed controllers: they build an informer and forward the framework's calls.
* Read-only mode and the lease: the one state checker of the code leaves read-only
  mode before the controllers start.
* A restart in `TrafficConfigs`: virtual services are not compared with what exists,
  so a restart adds only the traffic configs that are skipped during warm-up.
* Child statuses at shutdown, conditions of headers that are none of the known ones,
  and an associated app with an empty name are in the models but have no property,
  as no text says what is meant.
* Substrings among the names of controllers, a traffic config without edge service,
  and when a client in a new cluster must be served: `hazards` in `PROJECT.json` says
  why each has no property.

## 6. Plan

Done: what changes state, but for what section 5 lists, with a proof of every safety
property that the passing runs check and of three refinements.

Worth doing next:

1. An abstract specification of what `EnvoyFilters` promises, as `RevisionRollout` is for
   virtual services, and its refinement.
2. The safety part of the liveness properties: that a worker in a run always has a step
   it can take (`ENABLED` written out), and what a resync adds to the caches.
3. An instance of `RemoteClusters` in which one ID occurs in the names of another, for
   what remains true then.
