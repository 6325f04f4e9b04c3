# A verification of meshserve

meshserve runs LLM inference on a group of nodes without a master: every node
runs one daemon (`meshserve run`) that keeps the cluster's membership, a store
of model metadata, an agent that starts and heals inference engines, a gateway
that speaks the OpenAI API and a web console. This directory holds TLA+
modules that model the daemon's core, TLC configurations that check them on
small instances, and proofs checked by TLAPS. `PROJECT.json` lists the runs,
the mutants that show each property can fail, the lines of source every
definition stands for, the hazards the properties are aimed at, and the
disagreements found between the code and what it says of itself.

To check: `tlc -config X.cfg M` for a run (module and cfg are in
`PROJECT.json`), `tlapm M.tla` for the proofs in the eight modules whose names
end in `Proofs`.

## 1. Inventory

| component | state it keeps | operations | what is hard | what makes it correct |
|---|---|---|---|---|
| node agent (`internal/agent/agent.go`) | `instances`, `engines` under one mutex; `Instance.State` written in part outside it | DeployInstance, StopInstance, StopInstancesByModel, DeployByModel, HealthCheck | deploys block for up to ten minutes between two critical sections; stops, redeploys and the health loop interleave with them | the two maps agree, a ready instance has a loaded engine, no id is stranded, no process is lost, every call returns |
| engine adapters (`internal/engine`) | process handle, `loaded` | Load, Unload, Health, Chat | processes crash, ports are shared, the process lives in the caller's context | healthy means alive and answering; unloaded means killed |
| agent API and client (`internal/agent/api.go`, `client.go`) | none | deploy, stop, list | the deploy runs in the request's context | a deploy that was answered outlives its request |
| gateway (`internal/gateway`) | static routing table, load counters, token bucket, statistics | Resolve, Acquire/Release, Allow, handleChat | the table, the agent's list and its engines are read in separate critical sections | routes lead to live engines, counters return to zero, the limiter admits no more than its rate |
| PP coordinator (`internal/scheduler/pp.go`) | none (its ranks are instances of other nodes) | Deploy with rollback | concurrent remote calls, lost answers, partial failure, cancelled context | a failed deploy leaves no rank behind |
| scheduler (`internal/scheduler/scheduler.go`) | resources per node | UpdateResources, RemoveNode, Place, PlaceN, HandleNodeFailed, redeploy | the table, the store and the redeploying goroutines change between the steps of a failure | decisions fit the table they were made from, replicas are spread, stages are apart, no model is forgotten |
| membership (`internal/cluster`) | memberlist's entries, subscribers' channels | join, leave, update, broadcast, Subscribe, Members; the daemon's watcher | events are dropped when the channel is full or before anybody subscribed; a failure is reported as a leave | what subscribers are told agrees with the list, a failure is told apart from a leave |
| console (`internal/console`) | none (records in the store, instances in the agent) | register, update, toggle, delete, list | every handler is a read, a long deploy and several writes | no record comes back after a delete, a disabled model runs nowhere |
| model repository (`internal/modelrepo`) | none (store) | RegisterModel, Update, SetStatus, Delete | SetStatus is a read and a write | as for the console |
| store (`internal/raftstore`) | bbolt file under a lock, cluster metadata, peers, models | Open, OpenReadOnly, SetClusterMeta, SetPeers, PutModel, DeleteModel, ListModels | processes meet at the lock; transactions of one command are separate | readers see whole states, a daemon's models do not change behind it |
| bootstrap (`cmd/meshserve` init, join, run) | `node_id`, `meshserve.yaml`, the store | init, join, autoJoin, run | processes race and die between the steps that write three files | one id, one cluster for good, a node that has a cluster can run |
| command line (`cmd/meshserve` model, status) | none (the store) | model register, remove, list; status | they run beside the daemon | as for the store |
| configuration (`internal/config`), discovery (`internal/mdns`) | none | Load, Validate; Discover, DiscoverFirst | an empty file is a default configuration | as for bootstrap |
| health probes and logging (`internal/health`, `internal/observ`) | none | | | stateless |

How they interact: the console's handlers (and the boot code in `run.go`) call
`deployModel`, which deploys on this node through the agent or, for a pipeline
parallel model, on several nodes through the PP coordinator and their agents'
HTTP APIs. The gateway's router asks a static table first and the agent second.
The health loop runs in the agent every fifteen seconds. A goroutine of the
daemon watches the membership's events and is to tell the scheduler of failures;
the scheduler reads the store and deploys through the agent. The commands are
processes of their own and meet the daemon in the files and at the console's
port.

## 2. Modules

| module | models | extends / uses |
|---|---|---|
| `Agent` | the agent, its engine adapters, its API's request contexts and its health loop | refines `InstanceLifecycle` |
| `InstanceLifecycle` | what the agent promises about one instance id: abstract specification | |
| `AgentProofs` | theorems about `Agent` | `Agent`, TLAPS |
| `TokenBucket` | the gateway's limiter | refines `RateLimit` |
| `RateLimit` | a sliding window limit: abstract specification | |
| `TokenBucketProofs` | theorems about `TokenBucket` | `TokenBucket`, TLAPS |
| `Gateway` | `LocalRouter` and `handleChat`, composed with the agent | `Agent` |
| `PPDeploy` | `PPCoordinator.Deploy` and `stopModelEverywhere` over the agents of several nodes | each call refines `AtomicDeploy` |
| `OpenDeploy` | the same among agents that take any step `InstanceLifecycle` allows | `PPDeploy`, `InstanceLifecycle` |
| `AtomicDeploy` | what one pipeline parallel deployment promises, all ranks or none: abstract specification | |
| `PPDeployProofs` | theorems about `PPDeploy` and `OpenDeploy` | `OpenDeploy`, TLAPS |
| `ModelAdmin` | the console's handlers over a model's record and its instances on one node | the agent refines `InstanceLifecycle` |
| `Bootstrap` | the commands as processes over the three files, killed anywhere | |
| `ClusterEvents` | membership, its events and the daemon's watcher | |
| `Scheduler` | the table of resources, the decisions, the handling of a failure | |
| `GatewayProofs` | theorems about `Gateway` | `Gateway`, `AgentProofs`, TLAPS |
| `ModelAdminProofs`, `BootstrapProofs`, `ClusterEventsProofs`, `SchedulerProofs` | theorems about the module of that name | the module, TLAPS |
| `MC...` | small instances for TLC | the module of the same name |

### Agent

A step is one critical section of the agent's mutex, or one thing that happens
outside it (the start of a process, the end of a wait, a write of
`Instance.State`). Every call of `DeployInstance` that claims an id makes a
*deploy* `d`, an element of `Deploys`; `instances[id]` and `engines[id]` are
the two maps and hold deploys, `state[d]`, `spec[d]`, `eng[d]` and `proc[d]`
are the fields of the instance, its engine and its process. Goroutines are the
`Callers`: HTTP requests, goroutines of the daemon (console, restart at boot)
and the health loop. `pc`, `opId`, `cur` and `hand` are their program counters
and local variables.

| code | actions |
|---|---|
| `DeployInstance` | `Claim` (136-148), `LoadStart`, `StartFails`, `WaitAnswered`, `WaitFails` (Load), `Register` (175-181) or `Fail` (170-173) |
| `StopInstance` | `Remove` (186-195), `FinishStop` (196-201) |
| `StopInstancesByModel` | `HandleStopModel`, `SweepNext`, each with a whole stop |
| `DeployByModel` | `HandleRedeploy`, then a stop and a deploy |
| `HealthCheck` | `HealTick`, `HealRead`, `HealHealthy`, `HealUnhealthy`, `HealStop`, then a stop and a deploy |
| the API's handlers | `HandleDeploy`, `HandleStop`, `HandlerReturns`, `ClientGone` (the request's context) |
| processes, outside | `ProcServes`, `ProcCrashes`, `ContextKills`, `OutsideService` |

Abstractions. The races on `Instance.State` and on the engine's `cmd` field
(written without the mutex) are atomic writes here. `Unload` and the write of
`stopped` are one step (`FinishStop`). `StopInstancesByModel` stops in any
order. A kill reaches the whole process group: the code kills and waits for the
process it started (vllm.go:205, llamacpp.go:80), and an engine's own children
are not in the model. `Deploys` is finite, so a caller
that finds none left skips its deploy: that is a bound, not behaviour. The
shutdown of the daemon is not modelled.

### TokenBucket

`Allow` is one step (it holds the mutex and reads the clock inside). The code's
floats are whole numbers: `Cost` ticks make a second and `Cost` parts make a
token, so that a tick of elapsed time at rate `r` earns exactly `r` parts and no
rounding is hidden or invented. `log` and `answer` are history for `RateLimit`:
every window that ends now holds at most the burst and what its length earns,
and a request is refused only when one of them is full. Rounding of floating
point itself is not modelled.

### Gateway

`Gateway` extends `Agent`: its `AgentStep` is any step of the agent. One model,
of which every id of the agent is an instance. `Resolve` is several steps, one
for each lock it takes: `ReadTable`, `ListReady`, one `LookUp` per listed id,
then `Refuse` or `Choose` (the sort by load and the first element). `Acquire`,
`ChatEnds` and `Answer` (with the deferred `Release`) follow.
`RouteRestored` and `RegisterRemote` fill the static table as `run.go` does;
`UnregisterEngine` is called only by tests, hence the constant `Removable`. The
statistics, the JSON and the SSE writer are left out, and `Models` reads what
`Resolve` reads. `dead` and `steady` are history variables for the properties.

### PPDeploy

One model, `PP` ranks, any order of the nodes (memberlist shuffles its list).
`Start` launches a goroutine per rank; `job` is the deployment at the agent and
its answer in flight, `got` what the goroutine has heard, `ids` is
`Result.InstanceIDs` index by index; `Wait` is `wg.Wait`, `Rollback` one turn of
the rollback loop. Agents are seen from outside: a slot `<<node, rank>>` is free
or holds an instance that is loading, ready or failed. `HealStop`, `HealDeploy`, `HealEnds` are an
agent's health loop; it may take any instance, for the agent does restart
ready, failed and even loading ones. `SweepStart`, `SweepList`, `SweepStop` are
`stopModelEverywhere`. `Restart` is a node that comes back with an empty agent.
A request can be lost before it is handled, or its answer after; an ended
context is the case where all that follow are. `AtomicDeploy` sees of a call
its outcome and of each rank whether it is still asked for, loading, ready or
gone (`RankOf`): a rank is gone for the call when it was refused, has failed,
was stopped, or when somebody else has its slot.

### OpenDeploy

`PPDeploy` with an `AgentStep` for each node: any step of `InstanceLifecycle` on
the instances of the model there, at any time and as often as it likes.
Instances appear, end their loads, vanish and restart, and engines are published
late, none of which `PPDeploy` bounds here. Two things tie it to the calls: what
appears in such a step is in nobody's name, and the load of an instance a call
has deployed ends in `AgentAnswers`, since its end is what the agent tells the
call. No run checks this module; the theorem about it is in section 4.

### ModelAdmin

One model. `record` is what bbolt holds under its name: status, settings, and
whether its source is local. A path makes it local even beside an endpoint, and
one without an endpoint has to have one. Each handler is a sequence of steps, one
per transaction of the store or critical section of the agent: it `Arrive`s and
reads the record (which decides whether it goes on), then `Save`s or `Write`s
the record it holds, sets the status by `Get` and `Put` (the two transactions
of `SetStatus`), sweeps by `List` and `Stop`, deploys by `Replace`, `Deploy`
and `Loads`. `HealProbe` to `HealEnds` are the health loop; `Restart`,
`BootDeploys` and `BootEnds` are `registerDeployedModels`, which uses an id of
its own (`-restore` where the console uses `-web`). Requests refused for what
they say change nothing and are left out. Handlers are not kept apart by the
code, so most of what one expects of a record holds only of requests that did
not meet; the history `mixed` says when they did, and is cleared by a request
that sweeps and meets nobody: `RecordAgrees` claims that this is enough to
bring record and instances together again.

### Bootstrap

Every invocation of a command is an element of `Procs`, which runs one command
once; `pc` is where it is. `idFile`, `cfgFile` and `db` are `node_id`,
`meshserve.yaml` and the bbolt file. `os.WriteFile` is two steps, a truncation
(`TruncId`, `TruncConfig`) and a filling (`WriteId`, `WriteConfig`): between
them readers see an empty file, which `config.Load` takes for the defaults and
`ensureNodeID` for no id. Two commands that both truncated fill the same file
from its beginning: where the second content is shorter, the tail of the first
stays. Every id has the same length, so `node_id` is not changed by that. Of the
configuration the last line is `models_dir`, and two contents differ in length
by less than it unless an address is very long, so the tail is a piece of that
line: a blank or a key nobody knows, which changes nothing, or text that is not
a key, which `config.Load` cannot parse. The file is then `Garbled` and every
command that reads it is refused; `cut` excuses that too. Each fill
is one write. `writer` and `readers` are bbolt's file lock; an `Open` that cannot have it fails, which stands for the two seconds' timeout.
`CreateCluster` and `SetPeers` are the two transactions of `init`; `PutModel`,
`DeleteModel` and `ListModels` the model commands; `Ask`, `OpenReadOnly` and
`Read` are `status`; `AutoJoin`, `Boot` and `Die` the daemon's. A process that
makes an id or a cluster names it: ids and cluster ids are values of `Procs`.
Of a configuration the model keeps the two fields that commands write. `Die`
is a kill or any failure from outside, at any step. The histories say what may
excuse a property: two ids made at once (`raced`), an init that died after it
had made its cluster (`torn`), a write cut short or mixed with another (`cut`), a configuration
written since it was loaded (`behind`).

### ClusterEvents

`entry` and `meta` are memberlist's table of the other nodes. It is a library;
the model relies on one fact about it, that it calls the delegate under the
lock that `Members` takes, so a change and its callback are one step (`Alive`,
`Fails`, `Leaves` with `NotifyJoin`, `NotifyUpdate`, `NotifyLeave`).
`Broadcast` is the send to a full or not full channel, `Subscribe`, `Take` and
`Handle` the goroutine `watchClusterEvents`. Metadata is whole, or empty where
`NodeMeta` found it too long; a node with empty metadata is in no list and
causes no event. `told` is what a reader of the watcher's log believes,
`handled` the calls of `HandleNodeFailed`, `missed` history: the nodes whose
last coming or going was not put into the channel.

### Scheduler

`resources` is the map of reports, `answer` the last decision, kept until the
next step so that it can be compared with the table it was made from. The order
of candidates that `sort.Slice` leaves open (ties, and the order of a Go map) is
every order that is sorted by `Score`. `HandleNodeFailed` is `HandleNodeFailed`
(forget the node), `ListModels`, one `GetModel` per listed model and `Handled`;
a model that is gone, or whose record cannot be decoded, is passed over;
`Redeploy` is the goroutine of one model. The score is computed with whole
percents; the number of instances, which it is to weigh in, is nowhere counted
by the code. Who calls is left open: in the daemon nobody reports resources.
Instance ids are data.

## 3. Runs

Each passing run has, for every property, a mutant in `PROJECT.json`: an edit of
one definition, kept beside the definition, under which the run fails.

| run | instance | shows |
|---|---|---|
| `agent_process` | one id, one request, one daemon goroutine, health loop, two deploys, every adapter that talks to a process, an outside service on the port | `TypeOK`, `ReadyHasEngine`, `OnlyEvictionSplitsTheMaps`, `RegisteredIsLoaded`, `LoadingHasADeployer`, `LiveProcessIsOwned` |
| `agent_lifecycle` | as above without the daemon goroutine, adapters that poll, fair | refinement of `InstanceLifecycle` with its liveness, `CallsReturn`, `SilenceEnds` |
| `bucket_window` | rates -1 to 2, three parts a token, eight instants | the bucket implements `RateLimit` |
| `gateway_routes` | two ids, one API request, two deploys, one chat | `FallbackIsFresh`, `RefusedOnlyIfUnserved` |
| `gateway_counts` | one id, one daemon goroutine, two chats, one remote engine that may be unregistered | `GTypeOK`, `CountsMatch` |
| `admin_requests` | two handlers, three requests, three settings (one with an endpoint), two restarts or repairs | `TypeOK`, `RecordAgrees`, `StatusIsTrue`, `OnlyOverlapUndoes`, the agent obeys `InstanceLifecycle` |
| `pp_deploy` | two nodes, two ranks, two calls, one health loop, one upset (restart, sweep, heal) and one loss | `TypeOK`, `SuccessIsWhole`, `FailureIsRolledBack`, `RollbackSparesOthers`, refinement of `AtomicDeploy` by each call |
| `bootstrap_commands` | three processes, each any of the seven commands, one address, one model | `TypeOK`, `IdsAgree`, `ClusterCanRun`, `StatusIsWhole`, `DaemonHasModels`, `ClusterIsForever`, `AddressIsKept` |
| `cluster_events` | two other nodes, a channel for two events, fair watcher | `CTypeOK`, `ViewAgrees`, `ComingIsTold` |
| `placement` | three nodes, three sizes of node, a model on two GPUs and a pipeline of two, up to five replicas | `STypeOK`, `DecisionFits`, `SpreadEvenly`, `StagesApart`, `NoneForgotten` |

Two runs end in a violation, each of something the code's comments say:

| run | property | what happens |
|---|---|---|
| `agent_request_context` | `ReadyIsNotKilled` | the process of an API deploy is killed when the request that started it returns |
| `failover` | `FailureIsHandled` | one node fails, its departure is announced as a leave, the watcher logs it and the scheduler is never told: run.go:309 says that a failure triggers the rebuilding |

Other divergences between the code and what it says, or is there for, were met.
They have no run of their own.

In the models, where the code's behaviour is an ordinary step:

- a stop that comes while an instance loads leaves its engine and its process
  under an id that nobody lists (agent.go:176);
- the health loop takes a loading instance, which has no engine yet, for one
  that lost it, and deploys a second one (agent.go:268); it stops whatever
  instance has the id it probed (agent.go:280), and redeploys what it found
  before a stop (agent.go:281);
- the health check of llamacpp and of a worker looks at a handle that stays set
  when the process dies (llamacpp.go:100, vllm.go:182), and every spec without
  a port gets 8000 (vllm.go:75);
- the static table keeps routing to the engine of a restored instance that was
  stopped or restarted (local_router.go:88); the fallback sends chats to
  pipeline workers (local_router.go:90);
- a disabled model runs again after a restart (run.go:262); a restarted
  daemon's pipeline is refused, because its old ranks live on elsewhere
  (run.go:267);
- `run` without an `init` is refused, for `Validate` wants a node id before
  `ensureNodeID` is called (config.go:111), where README.md:50 says that no
  init is needed;
- `join` with a token opens the database only to close it again
  (init_join.go:110), and so fails beside a running daemon;
- the scheduler prefers the node with the greatest free share, not with the most
  free memory as the comment at scheduler.go:114 has it; nothing is subtracted
  for the replicas just placed (scheduler.go:191); a failure redeploys every
  model, each as one instance on this node whatever was decided, and a pipeline
  too (scheduler.go:283); a report that comes after a failure puts the failed
  node back.

Not in the models:

- a repair by the health loop takes the model's path from the models' directory
  (agent.go:291);
- the ids of a pipeline's stages repeat from one replica to the next
  (scheduler.go:195);
- the join at start is tried once (cluster.go:139), and pipelines are deployed
  before it can have succeeded (run.go:266);
- a tag is cut at a comma in its value (cluster.go:253);
- every daemon registers itself in mDNS as a bootstrap node (run.go:154);
- `OpenReadOnly` is to read beside a running daemon, by a shared lock
  (store.go:69); the daemon's lock is exclusive, so the open waits its two
  seconds and fails, as it does in `Bootstrap`;
- a database whose creator died before it made the buckets is read through a
  nil bucket (store.go:248).

Bounds. Two deploys per id are enough for a deploy, its replacement and a caller
that still holds the first. Two calls of `Deploy` give all the ways two
coordinators can meet on two ranks (same order of nodes, or opposite). One
upset and one loss allow a sweep, a heal or a restart in the middle of either
call with an answer or an order to stop lost besides. In `bucket_window` eight instants are more than the time to fill any of the
buckets, and three parts a token make fractions that a request can miss by one.
Three requests let two meet and a third clear up, or one restart fall between
two that do not meet. Three processes are two that race and one that finds what
they left (a cut file, a cluster, a second id). With a channel for two events a
third is dropped, and two nodes let the events of one push out those of the
other. Three nodes and five replicas make a last round that is not full, and
nodes on which one of the models does not fit. The proofs remove the bounds from
every safety property. `CHECK_DEADLOCK FALSE` stands in
`pp_deploy`, `admin_requests` and `bootstrap_commands` because calls, requests,
upsets and commands are bounded: they end. Symmetry is used only in runs without
liveness, over values the specification does not tell apart.

Fairness. `FairSpec` of `Agent` asks that goroutines that can take a step do,
that the end of a wait comes (`waitReady` has a deadline, and a silent port
fails the probe at the client's timeout), and that the ticker ticks. It asks
nothing of clients, of processes (they may never serve) nor of callers that
begin something. `FairCSpec` asks only that the watcher's goroutine is
scheduled: that it subscribes, takes an event that is there and handles the one
it has. It asks nothing of memberlist: nodes may come and go for ever, or never.

## 4. Proofs

`AgentProofs` proves, for any sets of ids, requests, daemon goroutines and
deploys, that `Spec` implies `TypeOK`, `ReadyHasEngine`, `RegisteredIsLoaded`,
`OnlyEvictionSplitsTheMaps`, `LoadingHasADeployer`, `LiveProcessIsOwned` and the
refinement of `InstanceLifecycle` (safety part). None of these is inductive
alone: `IInv` adds what connects a goroutine's program counter with the deploy it holds (a deploy
belongs to one goroutine at a time until it is registered, what is registered
has been loaded, what a stop holds has left the maps, a failed deploy has no
engine). `Invariance` has one step per action; the theorems follow from it.
`Ownership`, built on `IInv`, says who may have a live process at all (no object
before it is created, no instance before its start or after its Load failed), so
that the one way left to lose a process is the registration that replaces
another engine of its id: and then an instance of that id was evicted. The
refinement maps `shown[id]` to the state of `instances[id]` and `avail[id]` to
`engines[id] # None`; each action of `Agent` is one action of the
abstract specification or a stutter.

`TokenBucketProofs` proves `TypeOK` and the refinement of `RateLimit` for every
set of rates, cost and horizon. The link between a lazily filled bucket and
windows is the invariant that what is missing from the bucket is exactly what
the fullest window has used of its room: it is kept by admission (both sides
grow by a token), by time (both shrink by what is earned, or are empty) and it
says that a token is there if and only if every window has room.

`PPDeployProofs` proves `TypeOK`, `SuccessIsWhole`, `FailureIsRolledBack` and
`RollbackSparesOthers` for any number of nodes, ranks, calls and upsets. The
inductive invariant `IInv` speaks of one rank of one call at a time
(`RankInv`): what the goroutine has written (`got`, `ids`) agrees with what the
agent holds, an answered rank has no deployment under way unless its answer was
lost, and the ranks the rollback has passed are cleared. The argument is rely
and guarantee: `Spared` is what everybody else may do to a call's slot (make
nothing in its name; stop what is in its name only with `taken` noting it),
`VacateSpares`, `OccupySpares` and `ShowSpares` say that others do no more, and
`RankFrame` says that a rank's invariant survives that; each action of a call
then has one lemma that looks at its own rank. `RollbackTurn` is where the ids
matter: what is at index k is the id of rank k, so the node at the same index
is its node. `IInv` was also checked by TLC on the instance of `pp_deploy`.

It also proves that every call refines `AtomicDeploy`: `AtomicHolds` for all
calls at once, as the run checks it, and `EachCallRefines` as an implication of
specifications for any one call. To `IInv` the refinement adds, per call
(`MapInv`): its ranks are noted for different nodes (`Apart`), an instance made
in its name is in the slot noted for that rank (`Named`), a load of its own that
is under way is shown loading (`Open`), and a rank that others stopped had been
placed, is not asked for any more and is not the call's again (`Past`). A step
of one actor is then one action of the abstract deployment for the call it
belongs to, and `Disturb` or a stutter for every other.

What these theorems assume of an agent is what `PPDeploy` lets it do, and that is
less than `Agent` does: a late engine, say, has no counterpart. `OpenHolds`
takes the assumption away. It proves `SuccessIsWhole`, `FailureIsRolledBack`,
`RollbackSparesOthers` and the refinement of `AtomicDeploy` again for
`OpenDeploy`, where an agent takes any step of `InstanceLifecycle`, which
`ImplementsLifecycleHolds` proves of `Agent`. What remains assumed is that the
instance of a call ends its load as the call's answer says, which is
`DeployInstance` returning what it wrote (agent.go:170-182). The invariants are
the same: `SlotSteps` reads off the life cycle what may become of a slot,
`AgentSpares` says that this spares the calls, or notes what it took, and
`AgentSeen` that to a call it is `Disturb` or nothing.

`ModelAdmin` too describes an agent from outside. `AgentObeysHolds` proves that
this agent does nothing that `InstanceLifecycle` forbids. That is an inclusion
and no more: it does not say that the handlers' properties hold beside every
agent the life cycle admits. (`Restart` of `InstanceLifecycle` is there for
these modules: `Agent` follows one run of the daemon.)

`GatewayProofs` builds on `AgentProofs`: a gateway step is a step of the agent
or leaves it alone, so the agent's `IInv` holds of the composition, and so does all that
`AgentProofs` proves (`GatewayImplementsAgent`, `AgentServesGateway`). It proves
`GTypeOK`, `CountsMatch`, `RefusedOnlyIfUnserved` and `FallbackIsFresh`, the
last also where engines are unregistered, which the daemon never does.
Two facts about the agent are added: an engine that was unloaded is never loaded
again (`SpentOK`; it holds because a deploy belongs to one goroutine until it is
registered), and an id of an instance never changes (`Kept`). From them follows
that an id which was ready all the time since a request came still leads to its
engine when it is looked up (`Remembered`), and that an engine found through the
agent's list was not dead when the request came (`Fresh`). The counts are an
equation about cardinalities, kept because each chat holds at most one engine.

`ModelAdminProofs` proves all five properties of `admin_requests` for any
handlers, settings and upsets. The invariant says of a request what its
operation fixes (`Plan`), what it knows of the record as long as it has missed
no write (`Knows`), that one which met nobody is by itself (`Alone`), and how
far such a request has brought the instances (`Holds`), from nothing said at
all before a sweep to agreement at its answer. `Settled` is what holds between
requests while the health loop or a restart is at work. `GoesOn` and `GoesHome`
reduce a step to its own request; `ArriveInv`, `Met` and `Goes` are the steps at
which actors meet.

`BootstrapProofs` proves all seven properties of `bootstrap_commands` for any
number of processes. Its invariant has a part for each of them and three that
they rest on: which command can be where (`Routes`), who has the lock where
(`Locks`), and who knows its id where (`Identities`). `OneId` says that as long
as no two commands made an id at once, whoever makes one found none and every
id that is known is the one in the file.

`ClusterEventsProofs` proves `CTypeOK` and `ViewAgrees` for any nodes and any
room: for a node that is not missed, the last coming or going in the channel
says where it is (`QueueSays`), or, without one, the event in hand (`HandSays`),
or what was told (`ToldSays`).

`SchedulerProofs` proves all five properties of `placement` for any nodes,
reports, models and replicas. A decision keeps the shape that `PlaceN` gives it
(`Decided`); the rest is arithmetic of the remainder: `ModApart` for
`StagesApart`, and an injection from the turns of one node, but the first, into
those of another for `SpreadEvenly`.

The assumptions are those named in the modules (`AgentAssumption`,
`BucketAssumption`, `PPAssumption`, `AdminAssumption`, `BootAssumption`,
`EventsAssumption`, `SchedAssumption`); each is evaluated by the runs. They say
that bounds are natural numbers, that roles are apart and that `None` is no
value of a variable's.

Only model-checked: liveness (`CallsReturn`, `SilenceEnds`, `ComingIsTold`, and
what `ImplementsFairLifecycle` adds to the proved refinement, that loading
ends), since TLAPS proves nothing under fairness. Every other property of a
passing run is a theorem.

## 5. Not modelled

- Of the store, `Put`, `Delete`, `Watch` and `notify`: nothing outside the tests
  calls them. `PickQuant` and `EstimateVRAM` are arithmetic on floats.
- Of the engines, `Chat`, the token and image arguments, the arguments of the
  commands they start, and the proxy of a remote rank 0: data, or stateless.
- Of the console and the gateway, the handlers that only read, the statistics
  and the SSE writer; JSON and HTTP encoding everywhere.
- Of the configuration, which values are valid and how YAML is read; of
  discovery, zeroconf's packets; of membership, gossip and tags.
- Health probes, logging, `nvidia-smi`, the version, the stub binaries
  `meshserve-agent` and `meshserve-gateway`: no state.

## 6. Plan

Done: all modules of section 2. What could be added, in this order:

1. An abstract store that `Bootstrap` refines, in which each command is one step
   for whoever can open the database.
2. The composition of `ClusterEvents` with `Scheduler`, once the code connects
   them.
