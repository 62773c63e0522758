# K8s-Lite: formal models, checks and proofs

K8s-Lite is a small container orchestrator in Go: one API server with a
file-backed object store, and controller managers, schedulers, node agents and
proxies that poll it over HTTP. This directory holds TLA+ modules translated
from the code under `src/`, the TLC configurations that check them on small
instances, and theorems about them that TLAPS checks for every instance.

- `PROJECT.json` lists components, runs, mutants, the map from each definition to
  the lines it models, the findings, the hazards and the theorems.
- To check a module: `tlc -config StoreContract.cfg MCMemoryStore.tla`; to check
  proofs: `tlapm MemoryStoreProofs.tla`.

Contents: 1 inventory, 2 what is modelled and how it maps to the code, 3 the runs,
4 fairness and time, 5 the proofs, 6 findings, 7 what is only model-checked or not
modelled, 8 plan.

## 1. Inventory

| Component | Code | State it keeps | Operations |
|---|---|---|---|
| Object store | `internal/storage` | map from keys to objects, list of watchers, one file; guarded by one `sync.RWMutex` | Create, Update, Delete, Get, List, Watch, Stop, `notifyWatchers`, `sync`, `load` |
| API server | `internal/apiserver`, `cmd/apiserver` | none besides the store; a goroutine per request or watch connection | handlers for create, update, get, list, delete, watch of seven resources |
| Client library | `internal/client` | none | one HTTP request per method |
| Leader election | `internal/leaderelection`, `cmd/controller-manager` | one Lease object; per process whether it leads, and its timers | `Run`, `renewLoop`, `tryAcquireOrRenew` |
| ReplicaSet controller | `internal/controller/replicaset` | what it listed in this pass | list, compare, create or delete pods, every 5 s |
| Deployment controller | `internal/controller/deployment` | what it listed in this pass | find or create the ReplicaSet of the template's hash, raise it, lower the old ones, every 5 s |
| Service controller | `internal/controller/service` | what it listed in this pass | derive Endpoints from Services and running Pods, every 5 s |
| Scheduler | `internal/scheduler` | what it listed in this pass | pick a random ready node and write `spec.nodeName`, every 3 s |
| Kubelet | `internal/kubelet` | none; the state is Docker's | register the node; start, restart and remove containers; write pod status, every 5 s |
| Proxy | `internal/proxy` | listeners per port, cache of endpoints, guarded by one mutex | open and close listeners, forward connections |
| TLS, authentication, metrics | server middleware, `hack/gen-certs` | counters | none that decides anything |

How they interact. Everything goes through the API server: a component lists
objects, decides, and writes whole objects back, one call at a time. Nobody but
the server holds a lock across components and **no call compares versions**: a PUT
overwrites whatever is there (`handleUpdate` never looks at `resourceVersion`). No
binary uses the watch API; every controller polls. Inside the server, each
mutation sends its event to every watcher and rewrites the whole file while it
holds the write lock.

What is hard, per component, and what makes it correct:

- **Store and server.** Concurrent handlers, watch connections that stall or go away,
  file writes that fail or are interrupted, restarts. Correct: a request takes
  effect at one instant and is refused or admitted by the map of that instant; what
  was acknowledged is served and survives; a watcher gets each event once and in
  order; every request is answered.
- **Leader election.** Attempts of several processes interleave at every call; answers
  get lost, calls are served late, processes end. Correct: one leader at a time; a
  leader that renews is not overthrown; a deposed one stops; someone leads.
- **ReplicaSet and Deployment controllers.** Lists are stale when they are acted on,
  several managers may act at once, each of many calls may fail. Correct: the pods
  settle at the replicas asked for; their number is bounded meanwhile; a rollout ends
  and never leaves a Deployment without replicas.
- **Scheduler, kubelet.** Whole-object writes of pods by three writers, container
  states seen late, several nodes. Correct: a pod is bound once, its containers run
  where it is bound and nowhere else, its status tells what runs.
- **Service controller, proxy.** Endpoints computed from the status of pods that may be
  gone or have another address by now, addresses that two nodes give or one gives again,
  listeners and cache that live longer than the services they were made for. Correct:
  Endpoints, cache and listeners follow the services and the running pods, and a
  connection goes to an address of a pod of the service that has the port.

## 2. Modules and their correspondence to the code

```
RegistryTypes <-- Registry, Feed      abstract registry and watch feed: what clients are promised
      ^              ^
      |              | refinement mappings (R!Spec, F!Spec)
      +--------- MemoryStore <-- MCMemoryStore
                     ^---------- MemoryStoreProofs <-- StreamProofs

LeaderElection <-- MCLeaderElection       Workloads <-- MCWorkloads
      ^----------- LeaderElectionProofs        ^------- WorkloadsProofs <-- PodCountProofs

PodLifecycle <-- MCPodLifecycle           ServiceProxy <-- MCServiceProxy
      ^--------- PodLifecycleProofs            ^---------- ServiceProxyProofs
```

### RegistryTypes, Registry, Feed, MemoryStore

`RegistryTypes` has keys, kinds, requests, replies and events. Objects are opaque values, plus
`Malformed` for a body the handler cannot decode or that has no name. The file is a
map or `Torn`, what an interrupted `os.WriteFile` leaves.

`Registry` is the contract of `storage.Store` as clients see it: a request is called,
reads or changes the map in one step, and is answered; mutations are serial; success
is answered in the step that makes the saved copy equal to the map; a failure leaves
the change in the map. A crash ends what was being served, and a start serves the
saved copy, or nothing when the file is torn or cannot be read.

`Feed` is the contract of `Store.Watch` as watch clients see it: every change of the map
is published as one event that tells the change, and a connection is given the events of
its resource one by one from the moment it subscribed. Locks, channels, the list of
watchers and the order in which they are served do not occur in it.

`MemoryStore` is the code, step by step:

| Code | Model |
|---|---|
| `MemoryStore.data`, the file | `data`, `file` |
| `mu sync.RWMutex` | `holder` (the writer); readers take one step, allowed when there is no writer |
| request goroutines | `stage`, `req`, `resp` per client |
| `Create`, `Update`, `Delete`: check, change of the map | actions `Create`, `Update`, `Delete` (they take the lock), `Refuse` when the check fails |
| `notifyWatchers`: `for _, w := range s.watchers { w.ch <- event }` | `Notify`, one step per watcher, enabled only while the channel has room; `NotifyDone` |
| `sync`: truncation, then writing | `SyncOpen`, `SyncWrite`, and the failures `SyncOpenFails`, `SyncWriteFails` |
| handlers' answers | `Receive`, `Reject`, `Respond` |
| `handleWatch` and its deferred `Stop` | `Watch`, `Take`, `Encode`, `Disconnect`, `Stop` |
| process end and `NewMemoryStore` | `Crash`; `Restart` (a torn file is a warning and an empty map), `LoadFails` (so is a file that is there and cannot be read) |

`acked`, `wiped`, `log` (the events of each resource), `since` and `got` are history
variables. They are needed to say what was acknowledged, and which events a connection
should have got.

### LeaderElection

One elector is one process (the identity contains the pid). `tryAcquireOrRenew` is
split at its calls: `Begin` reads the clock, `Get` is served and decides, `Put` or
`Post` is served, `Granted`/`Refused` is the answer arriving; `GetHeld` is the early
return on another's valid lease; `CallFails` loses a call before or after it was
served; `ServeLate` serves a call its client has given up. `Run`'s retry timer and
`renewLoop`'s ticker (which keeps one tick) are `timer` and `due`. Time is discrete
and kept as ages, so the state space is finite without bounding time.

### Workloads

Both controllers of every manager in `Managers`, one action per call they make:

| Code | Model |
|---|---|
| `reconcile` of ReplicaSets: two lists | `ListReplicaSets`, `ListPods`, `ListFails` |
| `reconcileRS`: count the pods the selector matches, compare | `ReconcileRS`, with `Owned`, `Shortfall`, `Surplus` |
| one `createPod` / `DeletePod` call | `CreatePod`, `DeletePod` |
| `syncDeployment`: list ReplicaSets, find new and old | `SyncDeployment`, `SyncFails` |
| `createNewReplicaSet` | `CreateReplicaSet`, with 409 |
| PUT of the new set, PUTs of the old ones | `ScaleNew`, then `ScaleOld` |
| tickers | `WaitTick`, `DepWaitTick`; a pass without Deployments does nothing and is none |
| a call that is lost, or served when its sender has given it up or has ended | `Left`, `ServeLate` |
| users | `ApplyDeployment`, `ApplyReplicaSet` (of any set, a Deployment's own included), `RemovePod` |
| a manager ends, in the middle of a call of each controller perhaps, and is started again | `Restart` |
| a manager is no leader any more (`OnStoppedLeading` exits) | `StopLeading`: both its controllers end for good |

Abstractions. An application stands for a label: the selector of the Deployment and
of each of its ReplicaSets is that label, as `createNewReplicaSet` makes it, and
matches the pods of every template. A set is identified by application and template,
because its name is made from the template's hash. Pods are names: their other fields
decide nothing here. The order of map ranges is arbitrary, so which pods are deleted
is arbitrary. `Unset` is a nil `spec.replicas`: `Wanted` (1) and `Initial` (0) differ
on it, as in the code. `touched` is a history variable: the Deployments whose sets users
wrote behind the controller's back, of which `CapacityKept` promises nothing.

### PodLifecycle

Schedulers, the kubelet and the Docker engine of every node, and users, over the Pod
objects:

| Code | Model |
|---|---|
| `scheduleOneRound`: list pods, list nodes, loop | `ListPending`, `ListNodes`, `WaitRound`, `RoundFails` |
| `selectNode` and `bind` | `Bind`: a PUT of the pod as it was listed, with any node listed |
| `registerNode` | `StartKubelet`; nothing takes a Node object back |
| `runSync`: list pods, list containers | `ListPods`, `ListContainers`, `ListFails` |
| `reconcilePod`, one container at a time | `Reconcile`, then `RunMissing`, `Check`, `Restart`, then `Report` |
| the clean-up loop of `runSync` | `Extra`, `CleanUp` |
| `UpdatePod`, `UpdatePodStatus` | `Put`: the whole object, refused when there is none of that name, lost, or left in flight (`Left`) and served later (`ServeLate`) |
| `docker run`, `stop` and `rm`, `ps -a`, `inspect` | `RunContainer`, `StopContainer`, `ListContainers`, `AddressOf` |
| `Probe` | `Answers`, `MustRestart` |
| what else happens | `CreatePod`, `DeletePod`, `ContainerFails`; `EndScheduler` and `EndKubelet`, which may leave a PUT in flight |

Docker is external: a name is taken until its container is removed, a container that
does not run keeps its name and has no address, a free address may be given to any
container of the node. A probe of a pod without a known address goes to the kubelet's
localhost: `LocalPorts` says where something answers there. `made`, `homes` and `astray`
are history variables: how often a name was used, the nodes a pod of that name was ever
bound to, and the pods of which a scheduler has left a PUT in flight. Every node that is Ready
suits every pod, because `getRequest` returns "0" for all of them.

### ServiceProxy

| Code | Model |
|---|---|
| `syncServices`, `reconcileService` of every manager | `ListServices`, `MatchPods`, `GetEndpoints`, `WriteEndpoints` |
| the addresses listed and `sort.Slice` by IP | `Listings`: the lists that one set of pods may become |
| `reflect.DeepEqual` of what was stored and what is to be | `Same`: an empty list is stored as none and differs for ever |
| a call that fails, or is served when its sender has given it up; a manager ends | `CallFails`, `ServeLate`; `EndManager` |
| `sync`: services, endpoints one by one, the part under the lock | `ListPorts`, `ReadEndpoints`, `Rewire` |
| `serve`, and an error of its `Accept` | `Accept`, `AcceptFails` |
| `handleConnection` | `Dial`, `Close` |
| process end | `RestartProxy` |
| users | `WriteService`, `DeleteService`, `CreatePod`, `DeletePod` |
| kubelets and Docker engines, as a service sees them | `RunPod`, `ContainerEnds`, `ReportStatus` |

A service has a selector, which matches a constant set of pods, and at most one node
port. An address is not a pod. `held` is the address a pod's container has, given by the
engine of its node: two nodes may give the same one, and a node gives it again when it is
free. `pods` is the address in the pod's status, which its kubelet wrote in an earlier
pass, and Endpoints and cache hold what the status said when they were made. `Dial`
therefore goes to an address, and reaches whoever has it by then on whichever node. The
pods of a service arrive in map order and are sorted by address alone, so two with the
same address on two nodes come in either order. An error of `Accept` ends `serve` for
good: the port is `deaf`, open and listed, and no later pass opens it again.
`owners` and `had` are history variables: the services that ever had a node port, and the
addresses a pod ever had.

The server is one step per call in all modules but `MemoryStore`, and a call may be
served after its client gave it up or ended in all of them. `MemoryStore`'s refinement of
`Registry` justifies the one step, for a server that goes on. `Registry` also has failed
syncs, crashes, and starts that lose objects, which the other modules do not: in them the
API server does not end, and an object is there until someone deletes it. What a client
sees of a 500 after a change was applied is their call whose answer is lost.

## 3. Runs

| Run | Question | Instance |
|---|---|---|
| StoreContract | acknowledged values kept (`AckedKept`), refinement of `Registry` (`ImplementsRegistry`); a full channel delays but loses nothing (`RequestsReturn`, `EventsReachWatchers`); `TypeOK` | 2 request goroutines, 2 requests, 1 watch connection that stays, a channel of 1, 2 crashes, any file write and any load may fail |
| StoreWatch | the locks (`Inv`); every connected watcher gets exactly its events, in order (`StreamExact`), and has what the server has when it has them all (`CaughtUp`); refinement of `Feed` (`ImplementsFeed`) | 2 connections that come and go, 2 goroutines, 3 requests |
| StoreWedge (violation) | does every request return? (`RequestsReturn`) | 1 connection that may leave |
| LeaseElection | `FirstLeaderAlone`, `DeposedStops`, `NoTakeoverFromLeader`, `SomeoneLeads` | 3 electors, duration 6, retry 2, latency 1, 3 failures |
| LeaseSplitBrain (violation) | is there at most one leader? (`AtMostOneLeader`) | 2 electors |
| OneManager | rollouts settle (`RolloutSettles`) and keep replicas (`CapacityKept`) | 1 manager, 1 Deployment with 2 templates and 2 replicas, 3 user changes to it, its sets and its pods, 1 failure |
| TwoManagers | overshoot is bounded (`NoOvershoot`), and the pods of a ReplicaSet settle, grown or shrunk, when one manager is left (`ReplicasSettle`); `TypeOK` | 2 managers at once, either may be deposed; 1 ReplicaSet of nil, 0 or 1 replicas, 4 pod names, 2 user changes, 1 failure |
| RolloutFlaps (violation) | do a Deployment's pods settle? (`PodsSettle`) | 1 manager, 2 templates, 2 changes, no failure |
| PodsRun | a pod has one node (`OneHome`); no kubelet cleans up after a pod that is there (`CleansUpGone`); a pod is bound (`PodsBound`), runs on its node only (`EngineSettles`), and its status says so (`StatusSettles`); `TypeOK` | 1 scheduler, 2 nodes, 1 pod name with 1 probed container, 1 address per engine, something at localhost of one node, 3 user changes, 2 failures |
| ExitedStays (violation) | is a container that exited restarted? (`ExitedRestarted`) | 1 node, 2 probed pods, 2 addresses, 2 changes, 1 failure |
| ServiceTraffic | connections go to addresses of the right pods (`RightBackend`); cache and listeners settle (`TrafficSettles`); `TypeOK` | 1 manager, 2 services that share a pod, 2 pods on 1 node, 2 addresses, 1 node port, 1 connection, 2 changes, 1 failure |
| ServiceEndpoints | Endpoints settle (`EndpointsSettle`) and stop being written (`OnlyTiedRewritten`) | 2 managers, the same services, 2 pods on 2 nodes that may have one address, no node port, 2 changes, 1 failure |

Every property of a passing run has a mutant: a definition changed the way a
plausible bug would change it, under which TLC finds the property violated.

Why the bounds are enough. Two goroutines are what one lock can set against each
other, a third only waits; three requests let an object be created, changed and
deleted while another client reads, two let each goroutine meet the other's (what
StoreContract checks with two is proved for any number, save liveness). A channel of one slot is full after one event,
as the real one is after ten. Two keys of two kinds tell a resource's events from
another's. Three electors let two standbys race for the lease of a third. Durations
keep the order of the real ones (2 s < 15 s) and satisfy
`RetryPeriod + 3 * MaxLatency < LeaseDuration`; three failures suffice for a lost
answer and two stray writes; processes end at any time.

In OneManager two replicas, two templates and three changes cover create, roll out, roll
back or delete, or a user's hand in the sets; which pods there are decides nothing about
the sets, so one pod name is enough. In TwoManagers both managers list no pod and each
makes one, and a call that is served late makes a third: 3 is what `NoOvershoot` allows,
and the fourth name is room for one more. The surplus that `ReplicasSettle` sees removed
comes from that race, from a late POST, and from a user who writes 0 after 1; a nil, for
which `reconcileRS` returns at once, is among what users write. Names collide as the
code's five random characters may. With two changes a user creates a set and writes it
again, deletes it, or removes a pod, and not all of it in one behaviour; more
replicas, sets and managers are covered by the proof of `NoOvershoot`, not for liveness.

In PodsRun three changes delete a pod and use its name again; with two nodes the second
pod may go elsewhere; two failures let a container stop in the pass in which a call
fails, or a PUT be left in flight by a process that ends; one container per pod is enough
for what a pass does for each, since it treats them one after the other. With one pod no
address is another pod's, so `Mistaken` is true only through localhost; two pods that take each other's
address are in ExitedStays, and `OneHome` and `CleansUpGone` are proved for any number.

In ServiceEndpoints two managers race to create or overwrite the same Endpoints, each
from its own list, and the two nodes give their pods the same address or not. In
ServiceTraffic the two pods are on one node, so that a pod that starts may get the address another has
given up while Endpoints, cache and connections still hold it. Pods, their addresses and
their statuses change without a bound of their own; the two changes are those of users: two
services are created, or one is created and deleted or given or denied the port, or one
is created and a pod comes or goes. A third change to the same port is beyond the run;
`RightBackend` is proved for any number of changes.

`CHECK_DEADLOCK FALSE` is set in the store's runs only: the requests are bounded
(`MaxCalls`), after which an idle server rightly waits.

## 4. Fairness and time

- *Store.* Go runs every goroutine that can run: weak fairness of each handler's and
  each connection's steps. `sync.RWMutex` does not let a waiter starve: strong fairness
  of the steps that take the lock. A connected client reads (weak fairness of `Take`
  and `Encode`); nothing makes it leave. Clients need not send requests.
- *Election.* Time passes, attempts that can go on do, and the server serves what it
  gets. Failures are bounded (`MaxErrors`), so they end. `MaxLatency` bounds an
  attempt: the HTTP client has no timeout and `RenewDeadline` is not used by the code,
  so this is an assumption on the network. `FirstLeaderAlone` does not need it.
- *Workloads.* Both tickers keep firing and calls are answered: weak fairness of each
  controller. Names of pods are random: strong fairness of a creation that finds a
  free name, without which the same taken name could be drawn for ever. Users stop
  (`MaxChanges`) and failures end (`MaxErrors`); the properties are `<>[]`. Nothing obliges
  a manager to stop leading, so the two properties about what several managers leave behind
  (`ReplicasSettle`, `RolloutSettles`) speak of behaviours in which one is left (`OneLeft`):
  two that go on may correct each other's pods for as long as they both run.
- *Pods.* The tickers of schedulers and kubelets keep firing, the API server and Docker
  answer: weak fairness of each scheduler's and each kubelet's steps. Nothing obliges
  anyone to start a kubelet, so the properties speak of nodes whose kubelet is up.
- *Services.* Weak fairness of each manager's and the proxy's passes. Clients need not
  connect, and connections need not end; kubelets need not write a status, so the
  properties compare Endpoints and cache with the statuses there are.

## 5. Proofs

TLAPS proves the following for every value of the constants that satisfies the named
assumptions of the modules (types of the bounds, distinctness of the special values).

| Module | Theorem | States |
|---|---|---|
| MemoryStoreProofs | `TypeCorrect` | `Spec => []TypeOK` |
| | `InvHolds`, `OneWriter` | the lock invariants |
| | `AcknowledgedKept` | `Spec => []AckedKept` |
| | `RefinesRegistry` | `Spec => R!Spec` |
| StreamProofs | `WatchersSeeEveryEvent` | `Spec => []StreamExact` |
| | `IdleClientsAreCurrent` | `Spec => []CaughtUp` |
| | `RefinesFeed` | `Spec => F!Spec` |
| LeaderElectionProofs | `ElectionTypes` | `Spec => []TypeOK` |
| | `OnlyTheFirstLeads` | `Spec => []FirstLeaderAlone` |
| | `LeadersAreNotOverthrown` | `Spec => NoTakeoverFromLeader` if `RetryPeriod + 3 * MaxLatency < LeaseDuration` |
| | `OverthrownLeadersStop` | `Spec => []DeposedStops` if `MaxLatency <= RetryPeriod` |
| WorkloadsProofs | `TypeCorrect` | `Spec => []TypeOK` |
| | `RolloutKeepsCapacity` | `Spec => CapacityKept` if one manager runs and no user writes 0 replicas into a Deployment |
| PodCountProofs | `PodsAreBounded` | `Spec => []NoOvershoot` |
| PodLifecycleProofs | `TypeCorrect` | `Spec => []TypeOK` |
| | `PodHasOneHome` | `Spec => []OneHome`, which is about one scheduler |
| | `OnlyTheGoneAreCleanedUp` | `Spec => []CleansUpGone`, for any number of schedulers |
| ServiceProxyProofs | `TypeCorrect` | `Spec => []TypeOK` |
| | `BackendsAreRight` | `Spec => []RightBackend` |

**Store.** `Inv` is inductive: `TypeOK` alone is not, for the type of a reply depends on
the request (`RequestShape`) and the type of what is sent on the event of the lock's
holder (`EventShape`). `WriterExclusion` gives refinement its serial mutations: an
abstract mutation is "applied" exactly while its goroutine holds the lock.
`AckedKept` is inductive relative to `Inv`: a key whose mutation is under way is
`Unknown` in `acked` until it is answered, and only the lock's holder touches the file.
It is conditional on `~wiped`: no start found the file torn or could not read it. Both
lose what was acknowledged, as section 6 says.
In the refinement, taking the lock and changing the map is the registry's
`Apply`, truncation is `Truncate`, completing the write is `Commit`; sending events and
everything about connections is a stutter.

**Watch streams.** `StreamExact` is inductive with `StreamShape` and `Inv`: the list of
watchers holds each connection that is not off, and holds it once, so that an event on its
way to a watcher is on its way once (`Pending`); a connection that registers starts with
nothing in its channel; one event at most is being encoded. `Commit` appends the same event
to the log and to what every watcher of the resource is owed; `Notify` moves it into a
channel, `Take` and `Encode` on to the client; while the list changes nothing is on its
way, because `Watch` and `Stop` need the lock. `CaughtUp` adds `LogTells`: the last event
of the log about a key tells what is under it. In the refinement of `Feed` taking the lock
is `Publish` (the event tells exactly the change), registration is `Subscribe`, the end of an
encoding is `Deliver` (that the event is the next of its feed is what `StreamExact` says),
the end of a connection is `Close`, a crash is `Reset`; everything else is a stutter.

**Election.** `FirstLeaderAlone` is strengthened by who may own what: until the lease is
overwritten, an elector other than the holder is not about to write it. The two
timing theorems add that a leader's timer is set and within its period (`Timers`), that
the age of a leader's lease is bounded by its timer and the latency of what is on its
way (`Fresh`), and that a deposed leader's time is bounded by what is left of its
period (`Notice`). Ages are arithmetic over all durations, not over the small ones of
the run.

**Workloads.** Types need `Planned`: what a sync in progress has listed exists, and the
old sets it will lower are of the Deployment it syncs and not its new set. For
`CapacityKept` the invariant `Raised` adds that, while no call has failed, the new set
exists and, once nothing is left to write to it, has replicas; that is why the first old
set may be lowered. The theorem's two assumptions are needed: a user who wants 0 gets
0, and a second manager with an older list lowers what the first has just raised. So are
the two conditions of `CapacityKept` itself: a failed PUT of the new set does not stop
the PUTs of the old ones, and users may scale or delete the sets of a Deployment
(`touched`), after which nothing is promised of it.

`NoOvershoot` is proved by counting tokens: every manager has n of them for each ReplicaSet
of an application, n the largest number of replicas a user sets. A pod that a manager may
still create on what it listed claims one; the pods of the application fit into those that
nobody claims (`Room`). Listing claims `Shortfall` tokens at most n, creating a pod gives
up a claim for it, and a pod that goes gives its token back. A POST that may still be
served late is counted as the pod it may make (`Load`), and there are no more of them than
failed calls (`FewPosts`). That a manager has claims for
the set it works on, or for sets it has not come to, but not twice for one set, is `Jobs`.
The sets counted are finite because users choose from finitely many templates and numbers
of replicas (`FiniteAssumption`: replicas are an int32).

**Pods.** `OneHome` follows from who may write a node into a Pod object. `Homes` says
that a scheduler's list holds pods that have no home (`Homeless`), that what a kubelet
listed, works on or runs is at one of its homes (`Listed`, `Working`, `Placed`), and that a
name that was never used is in no list and no PUT in flight (`Unused`). A PUT left in
flight by a kubelet writes a home the pod has, as `InFlight` says; one left by a scheduler
makes its pod one of `astray`, for it may be served after a later round has bound the pod
elsewhere, and `OneHome` leaves those pods out. A stale PUT of a kubelet then writes
a home the pod has, and a stale PUT of the only scheduler the first one. With a second
scheduler `Homeless` is lost when the first binds the pod; when a name is used again
it is lost with the new pod, which is why both are conditions. `Working` also carries
the types: the pod a kubelet works on is an object it listed. `CleansUpGone` rests on the
same invariant: what runs on a node when its kubelet lists its pods ran before (`Placed`), so
a pod that is not listed and had one home is gone (`UnlistedAreGone`), and between that list
and the list of containers the kubelet runs nothing (`DoomedAreGone`). It needs no
assumption on schedulers, because it is about pods that had one home.

**Services.** `RightBackend` says: the address a connection reached is one that a pod of a
service which has, or once had, its port has or once had. It follows from `Routes`: the
address a container holds or a status tells is in its pod's `had` (`Placed`), every
address a controller computed, wrote or left in flight for a service (`Derived`, `Stored`)
or that the proxy cached for it (`Read`) is one that a pod its selector matches had, the service
a port is wanted by or a listener was opened for once had that port (`Owned`), and a
connection keeps the port and the service it was accepted with (`Connected`), whatever
becomes of both. It does not say that this pod answers: the code cannot
promise it, since addresses are given again (section 6).

TLC checks the property of each theorem in a run.

## 6. Findings

Each is a property that a document, a comment or a script of the repository states and
that the code violates; the run prints the behaviour.

1. **A watch client that goes away can wedge the API server** (`StoreWedge`).
   `notifyWatchers` sends on a bounded channel with the write lock held; the deferred
   `Stop` needs that lock. After at most 11 undelivered events no request returns.
2. **Two leaders** (`LeaseSplitBrain`). The lease is read and overwritten with separate
   calls and nothing compares versions. The comment at `election.go:134-136` says that
   `UpdateLease` handles it and, in the next lines, that the store might not; the test script
   expects one leader.
3. **After a rollout pods are deleted and recreated for ever** (`RolloutFlaps`). The
   ReplicaSets of a Deployment share its selector, there are no owner references, so the
   old set, at 0, deletes the pods of the new one.
4. **A container that exits is not restarted** (`ExitedStays`). The kubelet looks for a
   state that begins with "Exit"; Docker's is "exited". What is left is the probe. It goes
   to the address in the pod's status, which a stopped container does not renew: once
   another pod has that address, its container answers and the stopped one stays.

What TLC showed besides, each being why a property of a passing run has a condition:

- A file that a crash or a failed write left torn, or that a start cannot read though it is
  intact (`memory.go:26-29`), is a warning and an empty map, which the next `sync` writes
  over it: acknowledged objects are gone, though the README announces file-based storage
  and `hack/test_persistence.ps1` expects its object after a kill. `AckedKept` is
  conditional on `~wiped`.
- The Endpoints of a service without running pods are written at every pass. So are those
  of two pods that two nodes gave one address: they are sorted by address alone "to
  ensure stable order for comparison" (`service_controller.go:90`), pods are listed in map
  order, and `DeepEqual` sees the nodes. `OnlyTiedRewritten` leaves both out.
- An error of `Accept` leaves a port open that nobody serves, for as long as it is
  wanted (`proxier.go:115-117`): `TrafficSettles` leaves `deaf` ports out.
- A connection may be forwarded to a pod of another service, which was given the address
  of one that ended or has the same address on another node. `RightBackend` is therefore
  about addresses.
- A node port that passes from one service to another leads to the first for ever, since
  an open listener is left alone: `TrafficSettles` is about ports that had one service.
- Two schedulers, or one that meets its own PUT of an earlier round, move a pod that
  already runs: `OneHome` is stated for one scheduler and pods that are not `astray`.
- When the name of a deleted pod is used again on another node, the two kubelets can take
  the pod from each other for ever, each writing back the object it listed: the settling
  properties are about pods that had one node.

## 7. What is only model-checked, what is not modelled

Liveness (`RequestsReturn`, `EventsReachWatchers`, `SomeoneLeads`, `ReplicasSettle`,
`RolloutSettles`, `PodsBound`, `EngineSettles`, `StatusSettles`, `EndpointsSettle`,
`OnlyTiedRewritten`, `TrafficSettles`) is beyond the prover and stays with TLC. Every
invariant and every safety property that a passing run checks is also proved.

Left out of the modelled components: the store without a file (only with an empty `-data-file`);
logging, metrics, TLS; namespaces (the store's keys have none); objects that a PUT
stores under a key that is not their name; negative replicas, selectors that are
empty, templates their selector does not match. The hazards in `PROJECT.json` name
the last four at their lines. Leader election and the controllers are not composed
in one module: `Workloads` takes the number of managers that run at the same time as a
constant, and `LeaderElection` shows when it can be more than one and for how long.

Left out of `PodLifecycle`: changes users make to a pod's labels or spec, which a
scheduler's or kubelet's PUT may undo; two kubelets on one Docker engine, which stop each
other's containers (`agent.go:124`); a docker command that goes on after
its kubelet was killed; exit codes and restart policies, which the code does not read.
Left out of `ServiceProxy`: services without a selector (the controller skips them),
several ports of a service (the proxy forwards to the first), names of target ports.
`PodLifecycle` and `ServiceProxy` are not composed with `Workloads`: what they take from it
is that pods come and go at any time, which their users do.

Not to be modelled: TLS and certificates, metrics, the test scripts, the resource
quantities (`parseCPU`; the pod's request is always "0", so they decide nothing), and
what the Docker engine does inside.

## 8. Plan

All modules of the plan exist, and every safety property they state is proved. What
could still be added: an abstract specification of the election that says under which
timing it is a lock (now three properties), and the safety part of the settling properties:
which steps of a controller, with what it has listed, bring its objects closer to what is
asked for.
