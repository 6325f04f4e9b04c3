------------------------------- MODULE Agent -------------------------------
(***************************************************************************)
(* The node agent: the registry of inference instances, their engines, the *)
(* goroutines that deploy, stop and heal them, and the processes the       *)
(* engines spawn (internal/agent/agent.go, internal/engine/*.go).          *)
(*                                                                         *)
(* A step is one critical section of Agent.mu, or one stretch of code run  *)
(* without the lock whose effects another goroutine can see.  An element   *)
(* of Deploys stands for one execution of DeployInstance and names the two *)
(* objects it creates: the *Instance and the engine.Engine.                *)
(***************************************************************************)
EXTENDS Naturals

CONSTANTS
  Ids,       \* instance ids
  Requests,  \* goroutines serving an HTTP request (agent API, console)
  Daemons,   \* goroutines that deploy under the daemon's own context
  Healer,    \* the goroutine of StartHealthLoop
  Deploys,   \* executions of DeployInstance: bounds how many a run can make
  Specs,     \* the DeploySpecs callers pass
  ExtPorts,  \* ports on which a service MeshServe did not start may listen
  None       \* Go's nil

(* What a DeploySpec comes to for the life cycle: which adapter runs the   *)
(* model.  "worker" is vllm with PPRank > 0; an unknown name is "fake".    *)
Kinds == {"fake", "vllm", "worker", "llamacpp", "sglang"}

Spawning    == {"vllm", "worker", "llamacpp"}   \* Load starts a process
AwaitsHTTP  == {"vllm", "llamacpp", "sglang"}   \* Load polls /v1/models
ChecksHTTP  == {"vllm", "sglang"}               \* Health polls /v1/models

ASSUME AgentAssumption ==
  /\ Specs \subseteq [kind : Kinds, port : Nat]
  /\ ExtPorts \subseteq Nat
  /\ Healer \notin Requests \cup Daemons
  /\ Requests \cap Daemons = {}
  /\ None \notin Ids \cup Deploys \cup Specs

Callers == Requests \cup Daemons \cup {Healer}

VARIABLES
  instances,  \* Agent.instances: id -> the listed instance, or None
  engines,    \* Agent.engines: id -> the registered engine, or None
  idOf,       \* Instance.ID
  spec,       \* the DeploySpec fields kept in the Instance
  state,      \* Instance.State; "unborn" before DeployInstance creates it
  eng,        \* the engine object: "none", "new", "loaded", "unloaded"
  proc,       \* the process it spawned
  ctx,        \* the context the process is tied to by exec.CommandContext
  ext,        \* ports an outside service is answering on
  pc,         \* where each goroutine is
  opId,       \* the id its current call is about
  cur,        \* the *Instance it holds
  hand,       \* the engine.Engine it holds
  want,       \* the spec it will deploy once StopInstance returns
  todo,       \* ids its loop has still to visit
  evicted     \* history: instances removed from the registry while loading

registry   == <<instances, engines>>
objects    == <<idOf, spec, state, eng, ctx>>
goroutines == <<pc, opId, cur, hand, want, todo>>
vars == <<instances, engines, idOf, spec, state, eng, ctx, proc, ext,
          pc, opId, cur, hand, want, todo, evicted>>

-----------------------------------------------------------------------------
(* A process is live until it crashes or somebody kills it. *)
Live(d) == proc[d] \in {"running", "serving"}

(* The port an engine is probed on: 8000 unless the spec names one, always *)
(* 8081 for llama-server, always 8000 for sglang.                          *)
Port(s) == CASE s.kind = "llamacpp" -> 8081
             [] s.kind = "sglang"   -> 8000
             [] OTHER -> IF s.port = 0 THEN 8000 ELSE s.port

(* Somebody, not necessarily the process of this engine, answers there. *)
Answers(p) == \/ p \in ext
              \/ \E d \in Deploys : proc[d] = "serving" /\ Port(spec[d]) = p

(* The answer Health may give for the engine of d.  A poll of a service    *)
(* that is up may still fail (client timeout), so "unhealthy" is always    *)
(* possible for the engines that poll.  The mutants: Health looks at the   *)
(* process handle only; the HTTP client has no timeout.                    *)
HandleOnly(d) == eng[d] = "loaded"
Healthy(d)    == /\ spec[d].kind # "sglang" => eng[d] = "loaded"
                 /\ spec[d].kind \in ChecksHTTP => Answers(Port(spec[d]))
NoTimeout(d)  == eng[d] # "loaded"
Unhealthy(d)  == \/ spec[d].kind \in ChecksHTTP
                 \/ eng[d] # "loaded"

(* Where a goroutine goes when a call returns and rest is left to visit. *)
After(c, rest) == CASE rest # {} /\ c = Healer -> "heal"
                    [] rest # {} /\ c # Healer -> "sweep"
                    [] rest = {} /\ c \in Requests -> "return"
                    [] OTHER -> "idle"

(* A call returns: its locals die, except that a request keeps the         *)
(* instance it deployed, whose context ends with the handler.              *)
Returns(c, rest) ==
  /\ pc'   = [pc EXCEPT ![c] = After(c, rest)]
  /\ opId' = [opId EXCEPT ![c] = None]
  /\ hand' = [hand EXCEPT ![c] = None]
  /\ want' = [want EXCEPT ![c] = None]
  /\ todo' = [todo EXCEPT ![c] = rest]

-----------------------------------------------------------------------------
Init ==
  /\ instances = [id \in Ids |-> None]
  /\ engines   = [id \in Ids |-> None]
  /\ idOf  = [d \in Deploys |-> None]
  /\ spec  = [d \in Deploys |-> None]
  /\ state = [d \in Deploys |-> "unborn"]
  /\ eng   = [d \in Deploys |-> "none"]
  /\ proc  = [d \in Deploys |-> "none"]
  /\ ctx   = [d \in Deploys |-> "none"]
  /\ ext   \in SUBSET ExtPorts
  /\ pc    = [c \in Callers |-> "idle"]
  /\ opId  = [c \in Callers |-> None]
  /\ cur   = [c \in Callers |-> None]
  /\ hand  = [c \in Callers |-> None]
  /\ want  = [c \in Callers |-> None]
  /\ todo  = [c \in Callers |-> {}]
  /\ evicted = {}

-----------------------------------------------------------------------------
(* DeployInstance's check that the id is taken; the mutant drops it. *)
NeverTaken(id) == FALSE
Taken(id) == instances[id] # None

(* DeployInstance, first critical section: refuse an id that is taken,     *)
(* otherwise list a new instance as loading.                               *)
Claim(c, id, s) ==
  /\ UNCHANGED <<engines, proc, ext, evicted>>
  /\ \/ /\ Taken(id)
        /\ Returns(c, todo[c])
        /\ cur' = [cur EXCEPT ![c] = None]
        /\ UNCHANGED <<instances, objects>>
     \/ /\ ~Taken(id)
        /\ \E d \in Deploys :
             /\ state[d] = "unborn"
             /\ instances' = [instances EXCEPT ![id] = d]
             /\ idOf'  = [idOf EXCEPT ![d] = id]
             /\ spec'  = [spec EXCEPT ![d] = s]
             /\ state' = [state EXCEPT ![d] = "loading"]
             /\ eng'   = [eng EXCEPT ![d] = "new"]
             /\ ctx'   = [ctx EXCEPT ![d] = IF c \in Requests THEN "request"
                                                              ELSE "daemon"]
             /\ cur'   = [cur EXCEPT ![c] = d]
        /\ pc'   = [pc EXCEPT ![c] = "load"]
        /\ opId' = [opId EXCEPT ![c] = id]
        /\ want' = [want EXCEPT ![c] = None]
        /\ UNCHANGED <<hand, todo>>

(* Specs built from a model's record name no port and no PP rank. *)
FromRecord(s) == s.port = 0 /\ s.kind # "worker"

(* POST /api/deploy, which takes any spec, and the deploys of              *)
(* registerDeployedModels and of the scheduler's deploy handler.           *)
HandleDeploy(c, id, s) ==
  /\ pc[c] = "idle" /\ c # Healer
  /\ c \in Daemons => FromRecord(s)
  /\ Claim(c, id, s)

(* The deploy that follows a StopInstance, in DeployByModel and in         *)
(* HealthCheck.                                                            *)
Redeploy(c) ==
  /\ pc[c] = "deploy"
  /\ Claim(c, opId[c], want[c])

(* The bound on Deploys: past it a redeploy is dropped, so that the run    *)
(* ends with its goroutines idle instead of stuck.                         *)
DropRedeploy(c) ==
  /\ pc[c] = "deploy" /\ \A d \in Deploys : state[d] # "unborn"
  /\ Returns(c, todo[c])
  /\ cur' = [cur EXCEPT ![c] = None]
  /\ UNCHANGED <<registry, objects, proc, ext, evicted>>

(* Engine.Load up to the start of the process.  The fake engine is ready   *)
(* at once, a PP worker as soon as its process has started, sglang has     *)
(* nothing to start.                                                       *)
LoadStart(c) ==
  LET d == cur[c]  k == spec[d].kind IN
  /\ pc[c] = "load"
  /\ k \in Spawning => ctx[d] # "done"
  /\ pc'   = [pc EXCEPT ![c] = IF k \in AwaitsHTTP THEN "wait" ELSE "register"]
  /\ proc' = [proc EXCEPT ![d] = IF k \in Spawning THEN "running" ELSE @]
  /\ eng'  = [eng EXCEPT ![d] = IF k = "sglang" THEN @ ELSE "loaded"]
  /\ UNCHANGED <<registry, idOf, spec, state, ctx, ext,
                 opId, cur, hand, want, todo, evicted>>

(* cmd.Start fails: no command configured, not executable, context done. *)
StartFails(c) ==
  /\ pc[c] = "load" /\ spec[cur[c]].kind \in Spawning
  /\ pc' = [pc EXCEPT ![c] = "fail"]
  /\ UNCHANGED <<registry, objects, proc, ext,
                 opId, cur, hand, want, todo, evicted>>

(* waitReady sees a 200 on the engine's port. *)
WaitAnswered(c) ==
  LET d == cur[c] IN
  /\ pc[c] = "wait"
  /\ ctx[d] # "done" /\ Answers(Port(spec[d]))
  /\ pc'  = [pc EXCEPT ![c] = "register"]
  /\ eng' = [eng EXCEPT ![d] = "loaded"]
  /\ UNCHANGED <<registry, idOf, spec, state, ctx, proc, ext,
                 opId, cur, hand, want, todo, evicted>>

(* Engine.Unload: kill the process, if any; e may be nil.  The mutant      *)
(* leaves the process behind.                                              *)
UnloadLeavesProcess(e) ==
  /\ eng'  = [d \in Deploys |-> IF d = e THEN "unloaded" ELSE eng[d]]
  /\ UNCHANGED proc
Unload(e) ==
  /\ eng'  = [d \in Deploys |-> IF d = e THEN "unloaded" ELSE eng[d]]
  /\ proc' = [d \in Deploys |-> IF d = e /\ Live(d) THEN "killed" ELSE proc[d]]

(* waitReady gives up, at its deadline or because the context is done: the *)
(* adapters that spawned a process unload it before they return the error. *)
WaitFails(c) ==
  /\ pc[c] = "wait"
  /\ pc' = [pc EXCEPT ![c] = "fail"]
  /\ IF spec[cur[c]].kind \in Spawning THEN Unload(cur[c])
                                        ELSE UNCHANGED <<eng, proc>>
  /\ UNCHANGED <<registry, idOf, spec, state, ctx, ext,
                 opId, cur, hand, want, todo, evicted>>

(* DeployInstance, second critical section: publish the engine and mark    *)
(* the instance ready, whatever the registry now holds under the id.       *)
Register(c) ==
  /\ pc[c] = "register"
  /\ engines' = [engines EXCEPT ![opId[c]] = cur[c]]
  /\ state'   = [state EXCEPT ![cur[c]] = "ready"]
  /\ Returns(c, todo[c])
  /\ cur'     = [cur EXCEPT ![c] = IF c \in Requests THEN @ ELSE None]
  /\ UNCHANGED <<instances, idOf, spec, eng, ctx, proc, ext, evicted>>

(* DeployInstance's error return, outside the lock: the instance keeps its *)
(* place in the registry.  The mutants forget to write the state, or write *)
(* a word that is no InstanceState.                                        *)
ErrorUnmarked(d) == UNCHANGED state
ErrorMisspelt(d) == state' = [state EXCEPT ![d] = "failed"]
MarkError(d)     == state' = [state EXCEPT ![d] = "error"]

Fail(c) ==
  /\ pc[c] = "fail"
  /\ MarkError(cur[c])
  /\ Returns(c, todo[c])
  /\ cur'   = [cur EXCEPT ![c] = IF c \in Requests THEN @ ELSE None]
  /\ UNCHANGED <<registry, idOf, spec, eng, ctx, proc, ext, evicted>>

-----------------------------------------------------------------------------
(* StopInstance returns to its caller, which may go on to deploy. *)
StopReturns(c, id, s, rest) ==
  /\ cur' = [cur EXCEPT ![c] = None]
  /\ \/ /\ s = None
        /\ Returns(c, rest)
     \/ /\ s # None
        /\ pc'   = [pc EXCEPT ![c] = "deploy"]
        /\ opId' = [opId EXCEPT ![c] = id]
        /\ hand' = [hand EXCEPT ![c] = None]
        /\ want' = [want EXCEPT ![c] = s]
        /\ todo' = [todo EXCEPT ![c] = rest]

(* StopInstance's two deletes.  Each mutant forgets one of them. *)
WithdrawEngine(id)   == /\ engines' = [engines EXCEPT ![id] = None]
                        /\ UNCHANGED instances
WithdrawInstance(id) == /\ instances' = [instances EXCEPT ![id] = None]
                        /\ UNCHANGED engines
Withdraw(id)         == /\ instances' = [instances EXCEPT ![id] = None]
                        /\ engines'   = [engines EXCEPT ![id] = None]

(* StopInstance, the critical section: take the instance and its engine    *)
(* out of the registry.  s is the spec to deploy next, or None.            *)
Remove(c, id, s, rest) ==
  /\ UNCHANGED <<objects, proc, ext>>
  /\ \/ /\ instances[id] = None
        /\ StopReturns(c, id, s, rest)
        /\ UNCHANGED <<registry, evicted>>
     \/ /\ instances[id] # None
        /\ pc'   = [pc EXCEPT ![c] = "unload"]
        /\ opId' = [opId EXCEPT ![c] = id]
        /\ want' = [want EXCEPT ![c] = s]
        /\ todo' = [todo EXCEPT ![c] = rest]
        /\ cur'  = [cur EXCEPT ![c] = instances[id]]
        /\ hand' = [hand EXCEPT ![c] = engines[id]]
        /\ Withdraw(id)
        /\ evicted' = IF state[instances[id]] = "loading"
                      THEN evicted \cup {instances[id]} ELSE evicted

(* The rest of StopInstance: unload the engine, if there was one, and mark *)
(* the instance stopped.                                                   *)
FinishStop(c) ==
  /\ pc[c] = "unload"
  /\ Unload(hand[c])
  /\ state' = [state EXCEPT ![cur[c]] = "stopped"]
  /\ StopReturns(c, opId[c], want[c], todo[c])
  /\ UNCHANGED <<registry, idOf, spec, ctx, ext, evicted>>

(* POST /api/stop. *)
HandleStop(r, id) ==
  /\ pc[r] = "idle"
  /\ Remove(r, id, None, {})

(* DeployByModel, called by the console: stop the old instance, then       *)
(* deploy with no port of its own.                                         *)
HandleRedeploy(r, id, s) ==
  /\ pc[r] = "idle"
  /\ FromRecord(s)
  /\ Remove(r, id, s, {})

(* StopInstancesByModel, called by the console: a snapshot of the model's  *)
(* instances, stopped one after the other.  Which ids belong to the model  *)
(* is the caller's choice; the order of the sorted list is not modelled.   *)
HandleStopModel(r, ids) ==
  /\ pc[r] = "idle"
  /\ ids # {} /\ \A id \in ids : instances[id] # None
  /\ pc'   = [pc EXCEPT ![r] = "sweep"]
  /\ todo' = [todo EXCEPT ![r] = ids]
  /\ UNCHANGED <<registry, objects, proc, ext, opId, cur, hand, want, evicted>>

SweepNext(r, id) ==
  /\ pc[r] = "sweep" /\ id \in todo[r]
  /\ Remove(r, id, None, todo[r] \ {id})

(* The handler returns and net/http cancels the request's context. *)
HandlerReturns(r) ==
  /\ pc[r] = "return"
  /\ pc'  = [pc EXCEPT ![r] = "idle"]
  /\ ctx' = [d \in Deploys |-> IF d = cur[r] /\ ctx[d] = "request"
                               THEN "done" ELSE ctx[d]]
  /\ cur' = [cur EXCEPT ![r] = None]
  /\ UNCHANGED <<registry, idOf, spec, state, eng, proc, ext,
                 opId, hand, want, todo, evicted>>

(* The client goes away while its deploy is in progress. *)
ClientGone(r) ==
  /\ pc[r] \in {"load", "wait", "register", "fail"}
  /\ ctx[cur[r]] = "request"
  /\ ctx' = [ctx EXCEPT ![cur[r]] = "done"]
  /\ UNCHANGED <<registry, idOf, spec, state, eng, proc, ext, goroutines, evicted>>

-----------------------------------------------------------------------------
(* HealthCheck: a snapshot of the ids, then one at a time. *)
HealTick ==
  LET ids == {id \in Ids : instances[id] # None} IN
  /\ pc[Healer] = "idle" /\ ids # {}
  /\ pc'   = [pc EXCEPT ![Healer] = "heal"]
  /\ todo' = [todo EXCEPT ![Healer] = ids]
  /\ UNCHANGED <<registry, objects, proc, ext, opId, cur, hand, want, evicted>>

(* The read of one instance and its engine under the lock: skip an id that *)
(* has gone, restart one with no engine, probe the others.  A restart will *)
(* use specOf the instance read here.                                      *)
HealRead(id) ==
  LET rest == todo[Healer] \ {id}  d == instances[id] IN
  /\ pc[Healer] = "heal" /\ id \in todo[Healer]
  /\ cur' = [cur EXCEPT ![Healer] = d]
  /\ \/ /\ d = None
        /\ Returns(Healer, rest)
     \/ /\ d # None
        /\ pc'   = [pc EXCEPT ![Healer] = IF engines[id] = None THEN "stop"
                                                                ELSE "probe"]
        /\ opId' = [opId EXCEPT ![Healer] = id]
        /\ hand' = [hand EXCEPT ![Healer] = engines[id]]
        /\ want' = [want EXCEPT ![Healer] = spec[d]]
        /\ todo' = [todo EXCEPT ![Healer] = rest]
  /\ UNCHANGED <<registry, objects, proc, ext, evicted>>

(* Health answers nil: leave the instance alone. *)
HealHealthy ==
  /\ pc[Healer] = "probe" /\ Healthy(hand[Healer])
  /\ Returns(Healer, todo[Healer])
  /\ cur' = [cur EXCEPT ![Healer] = None]
  /\ UNCHANGED <<registry, objects, proc, ext, evicted>>

(* Health answers an error: restart it. *)
HealUnhealthy ==
  /\ pc[Healer] = "probe" /\ Unhealthy(hand[Healer])
  /\ pc' = [pc EXCEPT ![Healer] = "stop"]
  /\ UNCHANGED <<registry, objects, proc, ext,
                 opId, cur, hand, want, todo, evicted>>

HealStop ==
  /\ pc[Healer] = "stop"
  /\ Remove(Healer, opId[Healer], want[Healer], todo[Healer])

-----------------------------------------------------------------------------
(* The world outside the daemon. *)

(* A spawned server binds its port, if the port is free, and answers. *)
ProcServes(d) ==
  /\ proc[d] = "running" /\ spec[d].kind \in {"vllm", "llamacpp"}
  /\ ~Answers(Port(spec[d]))
  /\ proc' = [proc EXCEPT ![d] = "serving"]
  /\ UNCHANGED <<registry, objects, ext, goroutines, evicted>>

(* A process ends by itself: it crashed, or found its port taken. *)
ProcCrashes(d) ==
  /\ Live(d)
  /\ proc' = [proc EXCEPT ![d] = "crashed"]
  /\ UNCHANGED <<registry, objects, ext, goroutines, evicted>>

(* exec.CommandContext kills the process once its context is done. *)
ContextKills(d) ==
  /\ Live(d) /\ ctx[d] = "done"
  /\ proc' = [proc EXCEPT ![d] = "killed"]
  /\ UNCHANGED <<registry, objects, ext, goroutines, evicted>>

(* An outside service (the sglang server) starts or stops. *)
OutsideService(p) ==
  /\ \/ p \in ext /\ ext' = ext \ {p}
     \/ ~Answers(p) /\ ext' = ext \cup {p}
  /\ UNCHANGED <<registry, objects, proc, goroutines, evicted>>

-----------------------------------------------------------------------------
(* The steps a goroutine takes once its call has begun. *)
Step(c) ==
  \/ Redeploy(c) \/ DropRedeploy(c) \/ LoadStart(c) \/ StartFails(c)
  \/ WaitAnswered(c) \/ WaitFails(c) \/ Register(c) \/ Fail(c)
  \/ FinishStop(c)

RequestStep(r) ==
  \/ \E id \in Ids : SweepNext(r, id)
  \/ HandlerReturns(r)

HealStep ==
  \/ HealTick \/ HealHealthy \/ HealUnhealthy \/ HealStop
  \/ \E id \in Ids : HealRead(id)

Arrival ==
  \/ \E c \in Requests \cup Daemons, id \in Ids, s \in Specs : HandleDeploy(c, id, s)
  \/ \E r \in Requests, id \in Ids : HandleStop(r, id)
  \/ \E r \in Requests, id \in Ids, s \in Specs : HandleRedeploy(r, id, s)
  \/ \E r \in Requests, ids \in SUBSET Ids : HandleStopModel(r, ids)
  \/ \E r \in Requests : ClientGone(r)

Outside ==
  \/ \E d \in Deploys : ProcServes(d) \/ ProcCrashes(d) \/ ContextKills(d)
  \/ \E p \in ExtPorts : OutsideService(p)

Next ==
  \/ \E c \in Callers : Step(c)
  \/ \E r \in Requests : RequestStep(r)
  \/ HealStep
  \/ Arrival
  \/ Outside

Spec == Init /\ [][Next]_vars

(* What the Go runtime and the code's own deadlines guarantee: a goroutine *)
(* that can run does (sync.Mutex does not starve, waitReady has a          *)
(* deadline, Health a client timeout), and the health loop's ticker fires. *)
(* Callers, clients and processes promise nothing.                         *)
Fairness ==
  /\ \A c \in Callers : WF_vars(Step(c))
  /\ \A r \in Requests : WF_vars(RequestStep(r))
  /\ WF_vars(HealStep)

FairSpec == Spec /\ Fairness
-----------------------------------------------------------------------------
(* Properties. *)

InFlight(c) == pc[c] \in {"load", "wait", "register", "fail"}

(* Between calls, or in a loop's head: no instance id is at hand. *)
Between(c) == pc[c] \in {"idle", "sweep", "return", "heal"}

(* Every variable keeps its type; a goroutine inside a call knows the id   *)
(* the call is about, and an instance only ever has one of the states of   *)
(* InstanceState.                                                          *)
TypeOK ==
  /\ instances \in [Ids -> Deploys \cup {None}]
  /\ engines \in [Ids -> Deploys \cup {None}]
  /\ idOf  \in [Deploys -> Ids \cup {None}]
  /\ spec  \in [Deploys -> Specs \cup {None}]
  /\ state \in [Deploys -> {"unborn", "loading", "ready", "error", "stopped"}]
  /\ eng   \in [Deploys -> {"none", "new", "loaded", "unloaded"}]
  /\ proc  \in [Deploys -> {"none", "running", "serving", "crashed", "killed"}]
  /\ ctx   \in [Deploys -> {"none", "request", "daemon", "done"}]
  /\ ext   \subseteq ExtPorts
  /\ pc    \in [Callers -> {"idle", "load", "wait", "register", "fail", "unload",
                            "deploy", "sweep", "return", "heal", "probe", "stop"}]
  /\ opId  \in [Callers -> Ids \cup {None}]
  /\ \A c \in Callers : Between(c) \/ opId[c] \in Ids
  /\ cur   \in [Callers -> Deploys \cup {None}]
  /\ hand  \in [Callers -> Deploys \cup {None}]
  /\ want  \in [Callers -> Specs \cup {None}]
  /\ todo  \in [Callers -> SUBSET Ids]
  /\ evicted \subseteq Deploys

(* An id listed as ready has an engine: LocalRouter.Resolve lists the      *)
(* instances and asks for the engine in two critical sections, and relies  *)
(* on the pair being published and withdrawn together.                     *)
ReadyHasEngine ==
  \A id \in Ids : instances[id] # None /\ state[instances[id]] = "ready"
                    => engines[id] # None

(* Whatever the interleaving of deploys, stops and restarts, an engine the *)
(* agent hands out (GetEngine) has been loaded and not yet unloaded: the   *)
(* stop that unloads an engine has taken it out of the map, and a          *)
(* deployment publishes its engine once, after Load.                       *)
RegisteredIsLoaded ==
  \A id \in Ids : engines[id] # None => eng[engines[id]] = "loaded"

(* An id is being deployed by at most one goroutine, and the engine under  *)
(* an id is its listed instance's own, except after a stop hit an instance *)
(* while it was loading: that is the only way the two maps can disagree.   *)
OnlyEvictionSplitsTheMaps ==
  /\ \A c \in Callers : InFlight(c) /\ cur[c] \notin evicted
                          => instances[opId[c]] = cur[c]
  /\ \A id \in Ids : engines[id] # None /\ engines[id] \notin evicted
                       => instances[id] = engines[id]

(* No process is lost: one that is alive is being started by its           *)
(* deployment, or its engine is registered, or the goroutine that removed  *)
(* it is about to kill it, unless an instance of the same id was evicted   *)
(* while loading and the late registration dropped an engine.              *)
LiveProcessIsOwned ==
  \A d \in Deploys : Live(d) =>
    \/ \E c \in Callers : InFlight(c) /\ cur[c] = d
    \/ \E id \in Ids : engines[id] = d
    \/ \E c \in Callers : pc[c] = "unload" /\ hand[c] = d
    \/ \E e \in evicted : idOf[e] = idOf[d]

(* An instance listed as loading is being deployed by somebody: a restart  *)
(* or a failure never strands an id in the loading state, which would make *)
(* every later deploy of it fail with "exists" until someone stops it.     *)
LoadingHasADeployer ==
  \A id \in Ids : instances[id] # None /\ state[instances[id]] = "loading"
    => \E c \in Callers : InFlight(c) /\ cur[c] = instances[id]

(* The agent as seen through ListInstances and GetEngine is the promised   *)
(* life cycle.                                                             *)
Shown(id) == IF instances[id] = None THEN "none" ELSE state[instances[id]]
Lifecycle == INSTANCE InstanceLifecycle
               WITH shown <- [id \in Ids |-> Shown(id)],
                    avail <- [id \in Ids |-> engines[id] # None]
ImplementsLifecycle == Lifecycle!Spec

(* And it keeps going: an id does not stay listed as loading for ever, the *)
(* deployment that put it there gives up at its deadline (vllm.go,         *)
(* waitReady) or a stop takes it away.                                     *)
ImplementsFairLifecycle == Lifecycle!FairSpec

(* Every call returns: no deploy, stop, sweep or round of the health loop  *)
(* hangs, whatever the others do to the registry meanwhile.                *)
CallsReturn == \A c \in Callers : pc[c] # "idle" ~> pc[c] = "idle"

(* Self-healing: an instance whose engine is polled over HTTP does not     *)
(* stay listed as ready for ever while nothing answers on its port.        *)
Silent(id) == LET d == instances[id] IN
  /\ d # None /\ state[d] = "ready"
  /\ engines[id] = d /\ spec[d].kind \in ChecksHTTP
  /\ ~Answers(Port(spec[d]))
SilenceEnds == \A id \in Ids : []<>~Silent(id)
-----------------------------------------------------------------------------
(* What the code's comments say of it, and the code does not do. *)

(* vllm.go: "直接拉起 vllm serve 进程并管理生命周期" (MeshServe starts the       *)
(* process and manages its life): the daemon does not itself kill the      *)
(* process of an instance it lists as ready.                               *)
ReadyIsNotKilled ==
  \A id \in Ids : instances[id] # None /\ state[instances[id]] = "ready"
                    => proc[instances[id]] # "killed"
=============================================================================
