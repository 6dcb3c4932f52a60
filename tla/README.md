# TLA+ verification of waok8s

waok8s (workload-aware optimisation for Kubernetes) schedules pods and balances load so
that a cluster draws less power. This directory holds TLA+ models of its stateful parts,
TLC configurations that check them on small instances, and TLAPS proofs.

## 1. The system

Four programs run beside Kubernetes and talk through its API server:

```
 NodeConfigTemplate ──(wao-core controller)──▶ NodeConfig
                                                   │
            sensors ──▶ wao-metrics-adapter: controller ▶ runners ▶ store ▶ provider
                                                                             │
                     custom metrics API, node metrics, power predictors ◀────┘
                                     │ (cached metrics and predictor clients)
                     ┌───────────────┴───────────────┐
              wao-scheduler                   wao-loadbalancer
       (MinimizePower, PodSpread)      (kube-proxy with weighted nftables rules)
```

| Part | Source | State that changes | Concurrency | Module |
|---|---|---|---|---|
| Cached metrics and predictor clients | `wao-metrics-adapter/pkg/client` | `sync.Map` of entries with a mutex and an expiry | every scoring goroutine | `CachedClient` |
| NodeConfig controller, collector | `wao-metrics-adapter/pkg/controller`, `pkg/metrics/collector.go` | map of runners, their stop channels | one worker, goroutines it starts | `NodeConfigController` |
| Agent runners, store, provider | `pkg/metrics`, `pkg/provider` | one `MetricData` per node | a goroutine per value, API requests | `MetricsAdapter` |
| Sensor agents, predictors, endpoint providers | `pkg/metrics/redfish`, `dpapi`, `pkg/predictor` | detected server type, metrics | parallel probes | `PowerPrediction` |
| NodeConfigTemplate controller | `wao-core/internal/controller/node`, `api/node/v1beta1` | NodeConfig objects, one global template object | one worker against API clients | `NodeConfigTemplate` |
| PodSpread plugin | `wao-scheduler/pkg/plugins/podspread` | scheduling sessions by ReplicaSet name | scheduling cycle, binding cycles, cluster | `PodSpread` |
| MinimizePower plugin | `wao-scheduler/pkg/plugins/minimizepower` | scores of a cycle | parallel Score calls, a changing cluster | `MinimizePower` |
| WAO load balancer scoring | `wao-loadbalancer/pkg/proxy/nftables/wao.go` | the map `Scores` | goroutine per Service and endpoint | `WAOLB` |
| nftables proxier | `pkg/proxy/nftables/proxier.go` | element storages, stale chains, kernel tables | informer handlers, sync runner, kernel | `NFTProxier` |
| Informer handlers, change trackers, conntrack clean-up | `pkg/proxy/config`, `metaproxier`, `*changetracker.go`, `endpointslicecache.go`, `conntrack` | pending changes, slice cache, service and endpoint maps, UDP flows | informers, syncs, clients | `ServiceTracking`, `ServiceView` |
| iptables proxier | `pkg/proxy/iptables` | chains, filters, canary | handlers, syncs, monitor, other programs | `IPTablesProxier` |
| ipvs proxier, graceful termination | `pkg/proxy/ipvs` | virtual and real servers, ipsets, dummy device | syncs, termination goroutine, connections | `IPVSProxier` |
| Health check servers | `pkg/proxy/healthcheck` | marks per family, listening sockets | proxiers of two families, other programs | `ProxyHealth` |
| kube-proxy process | `cmd/kube-proxy/app`, `pkg/proxy/node.go` | configuration, node, pod CIDRs, rules left in the kernel | file watch, node informer, restarts | `ProxyServer` |

`PROJECT.json` has the full list of components, the hazards with their lines, and the map
from every definition to the lines it models.

## 2. Modules

Each component has a module `X.tla`, and modules `MC*.tla` instantiate them for TLC (symmetry
sets, views, constants that a `.cfg` cannot write). Three modules put components that run in
different processes into one specification: `MCNodeConfigs` (both controllers of NodeConfigs),
`PowerScoring` (PodSpread, MinimizePower, load balancer; they share `ClusterNodes`) and
`MCProxyModes` (`IPTablesProxier`, which it extends, and `IPVSProxier`). There a variable `process` or `mode`, chosen initially, says
which one the behaviour is about. Components that really interact are composed as they are in
the code: `MetricsAdapter` extends `NodeConfigController`, and `ProxyServer` extends
`ProxyHealth`, so that a process that exits takes the sockets and marks of its health servers
with it. The theorems are in the modules `*Proofs` (section 4). A definition whose comment says "Mutant
of D" is a plausible mistake in D, kept to show that the properties notice it; no
specification uses it.

### CachedClient

`CachedMetricsClient.get` and `CachedPredictorClient.do` run one protocol; a state of a
caller (`pc`) is a statement of it, and one action is one access to shared memory: load the
key (`Load`), lock and unlock the entry found (`Wait`), compare its expiry (`CheckHit`,
`CheckExpired`), allocate a locked entry (`New`), store it (`Push`), ask the origin
(`FetchOk`, `FetchErr`), fill it (`Publish`), unlock (`Unlock`), or on an error unlock
(`FailUnlock`) and delete the key (`Delete`). The order of the last two is the code's, and
so is the expiry being set before the fetch. Entries are addresses, reused when nothing
refers to them any more.

### NodeConfigController

A Reconcile of the single worker is one action: deletion stops and unregisters the runners
of both value types; otherwise `Register` starts a runner per value type, stores it over
whatever the map holds, and stops at the first unsupported endpoint type with an error
that puts the name back on the queue. NodeConfigs change at any time.

### MetricsAdapter

Composes the controller (`EXTENDS NodeConfigController`) with the runners, the store and
the provider. A runner's steps are the statements of `agentRunner.Run` between which
another goroutine can be noticed: the initial delay, `select` on the stop channel and the
timer, the fetch, the two loads and the store of `GetOrInit`, and the final `Set`. A
`Query` reads the store and compares the timestamp with `MetricTTL`.
`ImplementsController` states that, whatever the runners do, the composed process
implements the controller's specification, in which a runner just ends at some point after
its stop channel is closed.

### PodSpread

`PreFilter` with the session it opens or finds, and `getAllocatableNodes` for the region,
zone and node modes, inside a scheduling cycle (`SpreadPreFilter`, then `Place` or `Reject`)
whose binding (`BindPod`, `BindFails`) ends later. ReplicaSets, pods and nodes come and go.
Rates are integer fractions, so `int(float64(replicas) * rate)` is an integer division.

### NodeConfigTemplate

The worker takes a template off its queue and lists the nodes (`Start`), handles them one
by one (`ReconcileTemplateNode`, `ReconcileTemplateNodeFails`) and returns (`Finish`), while
templates, nodes and NodeConfigs change. `MapNode` enqueues only the first matching
template, as the code does. Field rendering goes through one global template object whose
body an empty text does not replace (`Body`).

### NFTProxier

Watch handlers take two steps, recording the change and then testing `isInitialized()`
and calling `Sync`. `syncProxyRules` takes three: update the maps and delete old stale
chains (`Start`, `UpdateEndpoints`), compute the scores (`Score`), build and run the
transaction (`Commit`, `CommitFails`). The kernel is a set of map elements and a function
from chains to rules, with its own conditions on what a transaction may delete or add.
Listing the chains, deleting the stale ones and the transaction itself may fail. `Restart`
forgets everything but the kernel. A partial sync skips Services that did not change, and
the element storages turn wanted elements into additions and deletions.

### PowerPrediction

What the power of a node is predicted from, shared by the two scorings: the agents' fetches
(`FetchInletTemp` tries all vendors until one has answered and then only that one;
`FetchDeltaP`), credentials from a Secret, the endpoint that a provider names in place of the
NodeConfig's (`PredictorTerm`), and the prediction (`PredictPowerConsumption`), in tenths of a
watt so that the code's rounding down is in the model. Servers go down, Secrets vanish,
NodeConfigs and usages change while scores are computed.

### MinimizePower

One scheduling cycle after another: `PreFilter`, a `Score` per node in any order, each reading
the cluster as it is at that moment, `NormalizeScore` with `PowerConsumptions2Scores`, and the
binding to a node of the highest score. Pods that are bound and do not run yet count with
`PodUsageAssumption`. A call that waited for another's failing fetch may be handed 0 or nil;
for an endpoint the nil is dereferenced (phase `panic`).

### WAOLB

`Score` clears the map and starts at most `Parallelism` workers; a worker takes a service port
(`ScoreService`), scores its endpoints in any order (`ScoreNode`), and assigns the result to
the shared map. As a write to a Go map is not atomic, it is two steps (`BeginWrite`,
`FinishWrite`), and if two overlap the runtime ends the process or one of them is lost.

### ServiceTracking and ServiceView

A proxier of one family: events of Services and EndpointSlices go through the handlers of
`pkg/proxy/config` and `metaproxier` to the trackers, which merge them. A sync takes the
service changes over (`UpdateServiceMap`), then those of the slices (`UpdateEndpointsMap`, with
the order of a Go map of slices chosen anew each time), writes the rules or fails to, and
deletes stale conntrack entries, which may fail too. Clients' UDP packets make flows at any
moment (`Packet`). `ServiceView` is what the trackers promise: one atomic view of an API object
that is read as a whole and never goes back. `ImplementsServiceView` shows both trackers to
implement it, each under its own refinement mapping.

### IPTablesProxier

`StartSync` takes over the latest state and decides between a full and a partial sync;
`Restore` writes the chains of the Services concerned, all portal and filter rules, and
deletes unused chains, unless the cluster is large. The kernel refuses rules with a jump to a
chain that is not there (`Accepted`); a jump is any target of a rule, the short-circuit of an
external chain included. The API server gives a frontend, an address and a port, to one Service
at a time (`Free`); it may pass to another one between two syncs. `Route` evaluates the rules for a packet and `Expected`
says, from the Service alone, where it should go. `Flush` (another program), `Monitor` with its
canary, `Crash`, `Start` and `CleanupLeftovers` interfere.

### IPVSProxier

A sync goes call by call: for each virtual server `syncService` and the two halves of
`syncEndpoint` (`AddEndpoints`, `DeleteEndpoints`), then ipsets, iptables rules and the
removal of what is no longer active (`FinishSync`). Every call may fail, and does so with the
code's consequence: skip, log or return early. The termination goroutine (`tryDeleteRs`) runs
in between and deletes real servers whose connections have ended.

### ProxyHealth and ProxyServer

`ProxyHealth` has the syncs of both families as far as the health servers notice: changes
queued, a sync begun, rules written (`Updated`), health checks set (`SyncServices`,
`SyncEndpoints`), and a clock. Both families and other programs open sockets on the same
ports. `ProxyServer` is the process around it: load the configuration (`Load`), watch the file
(`initWatcher`, `eventHandler`), `platformCleanup`, `getNodeIPs`, `platformSetup`,
`createProxier`, node handlers, and `Exit` from any phase, after which the kubelet starts it
again.

## 3. Runs

| Run | Expect | What it shows | Distinct states |
|---|---|---|---|
| `cached_client` | pass | data returned is of the asked key and fresh; a failed fetch leaves nothing behind; the mutexes are handled correctly; every call returns | 979,818 |
| `nodeconfigs` | pass | the collector follows the NodeConfig and no stop channel is closed twice; NodeConfigs end up as their template asks and are never taken over | 470,599 |
| `controller_runners` | violation | an update leaves the old runners going beside the new ones | |
| `adapter` | pass | readings are never mixed up or served too old; a stopped runner writes at most once more and returns; the process implements the controller | 319,352 |
| `scoring` | pass | nodes and endpoints are ranked by predicted power, no pod goes to a node without room while another has some, replicas are spread and kept off the control plane | 1,103,636 |
| `scoring_writes` | violation | the scores of a Service are lost by a concurrent write to the map | |
| `podspread_areas` | violation | an area of control plane nodes only keeps a pod from all other areas | |
| `proxier` | pass | after every successful sync the kernel routes as specified; no change is forgotten; no transaction is malformed | 1,384,061 |
| `proxier_weights` | violation | a partial sync leaves the weights of unchanged Services as they were | |
| `tracking` | pass | the trackers implement an atomic view of the API; each change asks for a sync; no UDP flow stays with an endpoint that is gone | 257,586 |
| `modes` | pass | iptables and ipvs route as specified after every undisturbed sync, and for good in the end; no restore is refused | 401,337 |
| `server` | pass | a switch of modes leaves no rules behind; local traffic is told by the current pod CIDRs; late changes are reported; health check ports answer rightly and the configuration is followed | 534,000 (about) |

Run one with `tlc -workers 2 -config NFTProxier.cfg MCNFTProxier`; each takes one to two and a
half minutes. The deadlock check is off where the system may come to rest because the model
bounds what can still happen: in `scoring` (all pods have had their cycle, or the process has
ended), `modes` and `server` (all changes and failures are used up and everything is synced).
Their liveness properties exclude a rest at the wrong place.

Four further configurations refute what comments say, beside the listed runs:
`CachedClient_ready.cfg` (with `MCCachedClient`), `MetricsAdapter_init.cfg`
(`MCMetricsAdapter`), `ServiceTracking_stopping.cfg` (`MCServiceTracking`) and
`ProxyServer_updates.cfg` (`MCProxyServer`). See section 5.

### Bounds

* `CachedClient`: two callers of one key and three entries, so that one caller can hold an
  entry that has left the map while the other fills its successor; `TTL` 1 and `MaxTime`
  2 let an entry expire during a call and after it. Keys do not interact, and the proofs
  cover any number of them.
* `NodeConfigController`: one NodeConfig, two nodes, five runners: registered, updated, and
  failing a third time half way. The view drops runner identities nothing refers to.
* `NodeConfigTemplate`: two templates that compete for one node whose data change, and two
  UIDs, so that a template can be deleted and created again under its name.
* `MetricsAdapter`: two runners on one node are both values of one NodeConfig, or an old and
  a new runner of the same value: the two ways in which writers of one entry conflict.
  `MaxTime` is one more than `MetricTTL`, so a stored value can expire.
* `PodSpread`: three nodes and three pods in five topologies (node mode with and without a
  control plane; a zone shared by control plane and worker; a zone of control plane only;
  regions with an unlabelled node). The rate is 2/3, so that the last pod is free.
* `PowerPrediction`: three nodes; two predictors, one behind a provider and one that wants
  credentials, a fake one, a node without predictor and one without NodeConfig; one change of
  the world (`MaxChanges`) at any moment of a cycle. The predicted watts differ by a factor of
  more than 200, so that a score of 0 occurs. Three pods, one without requests, on nodes that
  have room for one or for both of the others. Two service ports with overlapping endpoints
  and `Parallelism` 2: two writers are enough to conflict.
* `NFTProxier`: a Service with an external frontend and policy Local, whose endpoints are
  one of {}, {e2} and {e1, e2} with e1 local; a Service without endpoints; a zone that the
  node may get. `MaxChanges` (4) bounds the watch events of one run of the proxy and
  `MaxFaults` (1) the failed nft calls and crashes. Four changes make a Service appear with
  endpoints, lose them, and get them back while its chains are stale; the fault can then
  hit any of the three nft calls. The view ignores scores that `Commit` will not read.
* `ServiceTracking`: one Service of three specifications (both ports with external IPs, one
  port, headless), two IPv4 slices that may list the same endpoint with different conditions
  and ports, and an IPv6 slice that this proxier must ignore. `MaxEvents` 4 lets an endpoint
  appear, move to the other slice and vanish around a sync; `MaxFaults` is 1.
* `IPTablesProxier`: two Services, so that a partial sync leaves one out; one with external
  IPs and policy Local, one with a load balancer, source ranges and internal policy Local.
  `LargeCluster` is 1: both ways of treating unused chains occur. `MaxChanges` is 3 and
  `MaxFailures` 1; with two failures the run passes as well (592,943 states, 4 minutes).
* `IPVSProxier`: one Service of two specifications with the same cluster IP, two endpoints of
  which one is local, a client connection that keeps one of them draining, `MaxChanges` 3 and
  `IPVSFailures` 1. For two failures see section 5.
* `ProxyHealth`, `ProxyServer`: two families, of which iptables has one, so that the modes
  nftables (dual-stack) and ipvs (single-stack) differ; two Services that may hand a port to
  each other; two Node objects; a configuration of each kind; `MaxChanges` 2 and `MaxFailures`
  1 over all of these. `HealthTimeout` 1 is the shortest one that a sync can meet or miss.

### Fairness

Safety properties are checked without fairness. Where it is assumed:

* `CachedClient`: weak fairness of every step of a call under way: goroutines that can run are
  run, and a fetch ends. The predictors' HTTP clients have a timeout of 3 seconds
  (`fromnodeconfig.go:26,62`). The metrics clients set none of their own: there the assumption
  is that the API server ends a request at its own limit, and without it a caller can wait for
  ever. Nobody need call. A mutex that stays free is taken; strong fairness is not needed since
  only the creator of an entry holds it for long, and once.
* `MetricsAdapter`: weak fairness of every runner's steps: timers fire and a fetch's context
  has a timeout (`collector.go:51`).
* `modes`: weak fairness of the steps of a sync, of the informers' first delivery, of the
  process being started, of the iptables monitor (a ticker) and of the termination goroutine
  (a ticker of one minute). A sync that failed is retried: `queued` is set by the iptables
  proxier itself, and the ipvs proxier syncs at least once per `syncPeriod`.
* `server`: weak fairness of starting up (the kubelet restarts a process that has exited, and
  waiting for pod CIDRs ends with a timeout), of each family's syncs (`SyncLoop` runs one at
  least once per `syncPeriod`), of event delivery, and of other programs giving a port back.

The Go runtime's scheduler justifies the rest. No fairness is assumed for users, the API's
contents, the clock, crashes or connections.

## 4. Proofs

Checked with `tlapm XProofs.tla`, for every value of the constants that the named assumptions
allow. TLC evaluates the assumptions on the instances of the runs.

| Module | About | Theorems (property) |
|---|---|---|
| `CachedClientProofs` | `CachedClient` | `CacheTypes` (`TypeOK`), `CreatorsHoldLocks` (`LockDiscipline`), `EmptyEntriesPass` (`EmptyEntryIsTransient`), `NoHalfFilledReturns` (`NoHalfFilledRead`), `ReturnsAreFresh` (`FreshResult`) |
| `NodeConfigProofs` | `NodeConfigController`, `MetricsAdapter`, `NodeConfigTemplate` | `ControllerTypes` (`ControllerTypeOK`), `CollectorReconciled` (`Reconciled`), `CollectorConsistent` (`Registry`), `StopsAreUnique` (`StoppedOnce`); `AdapterImplementsController` (`ImplementsController`), `StoppedWritesOnce` (`OneLateWrite`), `ReadingsAreWhole` (`WholeReadings`); `ControllerConverges` (`Converged`), `OwnersKept` (`OwnerKept`) |
| `PodSpreadProofs` | `PodSpread` | `PodsStaySpread` (`Spread`), `ControlPlaneStaysFree` (`NoControlPlane`) |
| `PowerScoringProofs` | `MinimizePower`, `WAOLB`, `PowerScoring` | `PowerRanksNodes` (`RankedByPower`), `UsableNodesChosen` (`NoOvercommit`), `EndpointsRankedByPower` (`ScoresRankEndpoints`), `SchedulerSpreads` |
| `ServiceTrackingProofs` | `ServiceTracking` | `TrackingTypes` (`TypeOK`), `TrackersImplementView` (`ImplementsServiceView`), `ChangesAnnounced` (`ChangeAnnounced`), `EndpointsMapStaysCurrent` (`EndpointsMapCurrent`), `FlowsStayFresh` (`NoStaleFlows`) |
| `NFTProxierProofs` | `NFTProxier` | `ProxierTypes` (`TypeOK`), `ChangesKept` (`NoLostChange`), `TransactionsAccepted` (`TransactionsValid`), `RoutesStayCurrent` (`RoutesCurrent`) |
| `IPTablesProxierProofs` | `IPTablesProxier` | `RestoreNeverRejected` (`NeverRejected`), `RoutingCurrent` (`RoutesCurrent`) |
| `ProxyServerProofs` | `ProxyHealth`, `ProxyServer` | `SwitchesCleanly` (`CleanSwitch`), `LocalTrafficStaysKnown` (`LocalTrafficKnown`), `LateChangesAreReported` (`LateChangesReported`), `AnswersStayCurrent` (`AnswersCurrent`) |

### Assumptions

On the constants: `CacheConstants` (`TTL` and `MaxTime` are naturals, there is a key, `None` is
none of the other values), `ControllerConstants` (`None` is no runner), `NoNumber` (nor a
number), `AdapterConstants`, `TemplateConstants`, `TrackingConstants` (types; there are finitely
many slices), `FlowTargets`, `ProxierConstants` (types; a cluster IP is not also an external
address of its Service), `IPTablesConstants` (the same, and the node's address is neither a
cluster IP nor a load balancer's), `HealthConstants` (the API server gives no health check port to two
Services), `HostConstants`, `ScoreConstants`, `BalancerConstants`, `PodSpreadConstants` (types;
rates are at most 1; nodes and pods are finitely many).

Three theorems have a hypothesis, without which they would be false:

* `FlowsStayFresh` assumes `AlwaysServing`: slices list only endpoints that serve. An endpoint
  that first stops serving and is removed later keeps its flows (`ServingFlowsOnly`, section 5);
  and with a slice that lists it as not serving beside one that lists it as serving, the state
  before a change is computed afresh and may come out differently.
* `PodsStaySpread` assumes `UniqueNames`: sessions are kept by the name of a ReplicaSet without
  its namespace, so one with a namesake may be spread by the namesake's number.
* The scoring theorems assume `[]PowersFit`: what the models answer stays below the scores
  that stand for "no room" and "error". A `float64` answer is converted to `int64` and nothing
  in the code bounds it.

### The arguments

* `CachedClient`, for any numbers of callers, keys and entries. That an entry is filled
  under its mutex is not inductive, because the map may meanwhile hold another entry for
  the key, or none. The inductive invariant `Inv` adds that an entry in use (`Ref`: in the
  map, or pointed to by a caller) belongs to one key (`OneKey`); what its data and expiry
  may be, in relation to the clock and to failures of the origin (`Contents`); and what a
  caller knows at each statement (`Locals`). One lemma per action shows that `Inv` is kept;
  `ReturnsSafely` then looks only at the two steps that return data.
* `NodeConfigController`. `Reconciled` alone is not inductive, since a Reconcile of one object
  could stop a runner registered for another; `Registry` (registered runners are running,
  unstopped and registered once) rules that out.
* `MetricsAdapter`. Each step of the composed process is a step of the controller or changes
  none of its variables (`AdapterImplementsController`), so what is proved of the controller
  carries over. The inductive invariant says what holds at each statement of a runner's
  goroutine (`Goroutine`: above all, a runner with a late write is back at the head of its loop,
  where it sees the closed channel), that a node's stored data are of that node (`Stored`) and
  that answers were fresh (`Answered`); the types of the runners' jobs come from the
  controller's invariant.
* `NodeConfigTemplate`. `Converged` speaks only of templates that are at rest. `Due` says what is
  so meanwhile: unless the node has an event under way, the template is queued or the pair was
  given up, the NodeConfig is right or the running Reconcile has read template and node as they
  are and the node is still before it. That a non-empty field is rendered from its own text
  (`Bodies`) needs the largest element of a finite set, taken from the library's theorem on
  well-founded relations.
* `PodSpread`. `Spread` counts areas, so the proof is about cardinalities: a node in a new area
  adds one to the areas in use, and PreFilter leaves only such nodes unless enough areas are in
  use already (`MayTake`). `PlacedInv` says that at most one pod of an undisturbed ReplicaSet is
  not bound, and that the bound ones are spread too, since a binding may fail; `SessionInv` that
  its session is its own; `CycleInv` what the nodes left by PreFilter may be, until `Place`.
* `MinimizePower`, `WAOLB`. `StretchedRanks` and `NormalizedRanks` say what the two ways of
  turning watts into scores do to the order, rounding included (facts on integer division, and
  on least and greatest elements of finite sets). `SchedulerInv` and `BalancerInv` tie the scores
  to the watts they were made from, and those to what was read at the time: the cluster may
  change between two `Score` calls, and writers of the map may overlap.
* `ServiceTracking`. The refinement rests on `Tracked`: a pending change leads from what the
  proxier has to what was reported, and where there is none the two are the same.
  `ServicesTakenOver` is the core: merging all current maps and removing what `filter` leaves of
  the previous ones gives, for each Service, its reported map. For the endpoints, `Computed` says
  what a map computed from scratch contains, whichever slice wins, and `EndpointsStep` that
  replacing the entries of the changed Services by such a map is the same as computing all of
  it. `NoStaleFlows` speaks of the time between syncs; `FInv` says of each statement of a sync
  that a flow, and a rule from which a packet could make a flow now, is harmless or will be
  deleted by what this sync has found out so far (`FlowKnown`).
* `NFTProxier`. `NoLostChange` needs `Remembered`: once both initial syncs have run, a change that
  the maps do not have is known to a handler that has not returned, to the queue or to the sync
  under way. `TransactionsValid` needs that the storages equal the kernel's elements unless a
  full sync is due (`Mirror`), that Services share no frontend (`Apart`), that a Service the sync
  will skip has its elements in the storages (`Written`), and that nothing in the kernel leads to
  a missing chain (`Closed`). `AfterIsWanted` then shows that the transaction leaves exactly the
  wanted elements. `RoutesCurrent` adds that the chains of a Service that will be skipped hold
  what a sync writes for it under some scores (`Ruled`), which partial syncs and the deletion of
  stale chains keep. A frontend that moves between Services, which the checked instance does not
  have, is covered here.
* `IPTablesProxier`. A partial sync writes every rule that jumps to a Service's chains, and the
  chains of changed Services only. That it is accepted and right needs `Kept`: unless a full sync
  is due, the chains of each Service that it leaves out are in the table, with the rules that a
  sync would write for it now. After a failure, a crash, a flush or a change of
  the node's labels a full one is due. `Control` ties that to the steps of a sync; `Left` says what an undisturbed sync leaves in the top-level
  chains; `Apart` that Services share no frontend; and nothing in the table jumps to a missing
  chain (`Accepted`). `RestoredTable` says what a restore does to each chain, `RestoreAccepted`
  that it is never refused. From `Kept`, with nothing left out, and `Left`, `TablesRoute` follows:
  evaluating the rules for a source and a frontend (`Route`) gives what the Service asks
  (`Expected`), for internal and external traffic, both policies, source ranges and the
  short-circuit of local clients. A frontend that moves between Services is covered here too.
* `ProxyHealth`, `ProxyServer`. `SetupInv` follows the process from its clean-up to the running
  server. `LateInv` says that whatever is late and not hidden has a mark at least as old.
  `AnswerInv` says what a proxier knows of the Services' ports at each step of a sync, that the
  sockets are those of the known health checks (`SocketsOwned`), and that no two Services a
  proxier knows at a time share a port, although a port may pass from one to another between
  two syncs.

### Model-checked only

* Liveness (`EveryCallReturns`, `StoppedRunnersExit`, `EventuallyRouted`, `EventuallyCurrent`)
  rests on fairness and ENABLED, which are beyond this prover.
* `IPVSRoutesCurrent` (run `modes`). It is no theorem: with two failures it does not hold
  (section 5), and with one it would be a statement about that bound.
* What a fold over containers or pods sums up to (`PodCPURequestOrLimit`, `assumedAdditionalUsage`)
  is induction over data; the proofs use the sums without knowing their values.

## 5. Where code and documentation disagree

Checked by a listed run:

* *"FetchInterval specifies the data retrieval interval."* (`nodeconfig_types.go:35`):
  `Register` replaces a runner without stopping it, so an updated or resynced NodeConfig is
  fetched by more and more runners.
* *"Areas with only control plane nodes are excluded from scheduling."* (`podspread.go:357`):
  they are excluded from the result but not from the minimum.
* *"Calculating the weight of each node ..., then updating the weight of the node in the
  kube-proxy implementation."* (`wao-loadbalancer/README.md:30`): a partial sync computes
  all scores and writes only those of changed Services.
* *"w.Scores is not thread-safe, but we don't update the same key in parallel, so it's safe
  here"* (`wao.go:221`): assignments to different keys of a Go map are not safe either.

Checked by a further configuration:

* *"Wait until the cache is ready"* (`client/metrics.go:70`, `client/predictor.go:78`): a
  caller that waits for a fetch that fails gets the empty entry with no error; the load
  balancer has a workaround for the nil (`wao.go:385`, `wao.go:423`). The scheduler has none
  for an endpoint (`minimizepower.go:285`).
* *"... or inits it if not found. ... Thread-safe."* (`metrics/store.go:45`): the load and
  the initialisation are separate accesses.
* *"Check if the endpoint has changed, including if it went from serving to not serving."*
  (`endpointschangetracker.go:307`): the comparison below looks at addresses only, so that an
  endpoint that stays listed without serving keeps its flows (`ServingFlowsOnly`).
* *"runLoop will watch on the update change of the proxy server's configuration file. Return
  an error when updated"* (`options.go:368`): an update between `Load` and `initWatcher` is not
  noticed, nor is one after the file was replaced (`UpdatesFollowed`).

Met while modelling, and not settled by a run:

* *"Proxy mode is always `nftables`, the value in config file is ignored."*
  (`wao-loadbalancer/README.md:60`): `platformApplyDefaults` and `createProxier` follow the
  configured mode.
* *"its safe to set initialSync to false as it acts as a flag for startup actions"*
  (`ipvs/proxier.go:919`): after a crash with draining real servers, a call that fails in the
  first sync leaves an endpoint at weight 0, and no later sync raises it. This takes two
  failures: `IPVSRoutesCurrent` is violated with `IPVSFailures` 2.
* *"endpoint: ""  # Endpoint provider will set this."* (`wao-core/README.md:191`): a field that a template leaves empty gets the text of the field rendered
  before it (`EmptyStaysEmpty` of `NodeConfigTemplate`; the global template object ignores an
  empty text).
* `CleanupLeftovers` of iptables "removes all iptables rules and chains created by the
  Proxier" (`iptables/proxier.go:419`) and leaves KUBE-PROXY-FIREWALL; that of ipvs destroys
  the IPv4 sets only.
* Two slices that list one endpoint with different conditions: the order of a Go map decides
  (`endpointslicecache.go:175`). `EndpointsMapCurrent` asks for one of the listed conditions.
* *"The idea is to assign a score in the range `(0, 100]`"* (`wao-loadbalancer/README.md:43`): a
  score may be rounded to 0; `ScoresRankEndpoints` says when.

Properties that hold with a restriction name it. `Spread` is stated for a ReplicaSet that
opened its session itself, was not scaled, and whose earlier pods were bound when the next
was scheduled. `Converged` excludes pairs of template and node whose write failed (Reconcile
logs the error and returns nil) or that `mapFuncNodeToNodeConfigTemplate` left out, and fields
left empty. `NoStaleFlows` excludes the entries that a failed sync loses: the next one no longer
knows them. `LateChangesReported` excludes a change whose mark `Updated` has deleted, because it
arrived during the sync. `CleanSwitch` excludes a clean-up that failed, `EventuallyCurrent` an
update that the watch cannot see. Each restriction is a history variable set exactly at the
step concerned.

The nftables proxier's model has a case that looks wrong and is not. When the chains cannot be
listed in the very sync that makes a stale chain active again, the chain stays in `staleChains`
and the next sync asks the kernel to delete it. The kernel refuses, because the chain is
referenced, and the routing stays right.

## 6. What is not modelled

* In `NFTProxier`: session affinity sets, firewall chains, masquerading, the base chains. A
  frontend that moves from one Service to another is in the model (`Free`) and in the proofs,
  but not in the checked instance.
* In `IPTablesProxier` and `IPVSProxier`: session affinity, counters, several ports of a
  Service, kernel sysctls and probing for modules. Terminating endpoints are in
  `ServiceTracking`.
* In `ProxyServer`: flags and their migration, writing a default configuration, the metrics
  server, warnings about bad configurations, conntrack sysctls, ServiceCIDR events.
* The Windows proxier, packet counters (`nfacct`), metrics, the types, defaults and validation
  of the configuration API, generated code, and the response time predictor, which nothing
  calls.
* Floating-point rounding in rates and metric values; `int64` is narrowed to TLC's integers
  with the special scores kept above all others.
* HTTP and Redfish wire formats, Kubernetes client libraries, logging.

## 7. Plan

1. *End to end.* A composition of `MetricsAdapter`'s provider, `CachedClient` and the scoring:
   how old a reading can be when it is used (`MetricTTL` and the cache's TTL add up).
2. *Trackers and proxiers.* `IPTablesProxier` and `IPVSProxier` take over whole states, which
   `ServiceTracking` justifies for the maps; the list of updated Services could be refined in
   the same way.
3. *Proofs.* `IPVSProxier` with a history variable for the weights that a failing first sync
   leaves at 0, so that its routing can be stated, and proved, for any number of failures.
