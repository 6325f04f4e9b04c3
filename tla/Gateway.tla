------------------------------- MODULE Gateway -------------------------------
(***************************************************************************)
(* The inference gateway of a node (internal/gateway/gateway.go and        *)
(* local_router.go) over the node's agent: chat requests for one model are *)
(* routed to the static table of engines, or else to the agent's ready     *)
(* instances of the model, least busy first.  Every id of the agent is an  *)
(* instance of that model.  The token bucket in front is TokenBucket; here *)
(* the limiter lets requests through at any time.  A step is one critical  *)
(* section of LocalRouter.mu or of the agent's mutex.                      *)
(***************************************************************************)
EXTENDS Agent, FiniteSets

CONSTANTS
  Chats,     \* goroutines serving a chat request
  Remotes,   \* engine proxies to the rank 0 of another node
  Removable  \* engines UnregisterEngine may be called on: none in the daemon

Engines == Deploys \cup Remotes

ASSUME GatewayAssumption ==
  /\ IsFiniteSet(Chats)
  /\ Removable \subseteq Engines
  /\ Deploys \cap Remotes = {}
  /\ None \notin Remotes

VARIABLES
  table,   \* LocalRouter.engines of the model
  load,    \* LocalRouter.load: engine -> active requests
  boot,    \* the id registerDeployedModels has deployed and will route
  at,      \* where each chat request is
  ready,   \* ids of ListInstances it has still to ask the engine of
  found,   \* the engines it has found
  picked,  \* the engine it uses
  dead,    \* history: engines unloaded before the request came
  steady   \* history: instances ready ever since the request came

routing == <<table, load, boot>>
chat    == <<at, ready, found, picked>>
gvars   == <<vars, routing, chat, dead, steady>>

-----------------------------------------------------------------------------
(* The instances a list made now would show as ready. *)
Listed == {id \in Ids : instances[id] # None /\ state[instances[id]] = "ready"}
Serving == {instances[id] : id \in {i \in Listed : engines[i] # None}}

Unloaded == {d \in Deploys : eng[d] = "unloaded"}

(* Requests that hold the engine: between Acquire and Release. *)
Users(e) == {q \in Chats : at[q] \in {"chat", "release", "failed"} /\ picked[q] = e}

GInit ==
  /\ Init
  /\ table = {}
  /\ load = [e \in Engines |-> 0]
  /\ boot = [c \in Daemons |-> None]
  /\ at = [q \in Chats |-> "idle"]
  /\ ready = [q \in Chats |-> {}]
  /\ found = [q \in Chats |-> {}]
  /\ picked = [q \in Chats |-> None]
  /\ dead = [q \in Chats |-> {}]
  /\ steady = [q \in Chats |-> {}]

(* A step of the agent.  A daemon whose deploy succeeds goes on to route   *)
(* the instance; the histories follow.                                     *)
AgentStep ==
  /\ Next
  /\ boot' = [c \in Daemons |-> IF pc[c] = "register" /\ pc'[c] = "idle"
                                THEN opId[c] ELSE boot[c]]
  /\ steady' = [q \in Chats |-> steady[q] \cap Serving']
  /\ UNCHANGED <<table, load, chat, dead>>

Quiet == UNCHANGED <<vars, dead, steady>>

(* registerDeployedModels, after the deploy: route the engine the agent    *)
(* has now under the id, if any.                                           *)
RouteRestored(c) ==
  /\ boot[c] # None
  /\ table' = IF engines[boot[c]] = None THEN table
              ELSE table \cup {engines[boot[c]]}
  /\ boot' = [boot EXCEPT ![c] = None]
  /\ Quiet /\ UNCHANGED <<load, chat>>

(* registerRemote, after a PP deploy: a new proxy to its rank 0. *)
RegisterRemote(e) ==
  /\ e \in Remotes \ table
  /\ table' = table \cup {e}
  /\ Quiet /\ UNCHANGED <<load, boot, chat>>

(* UnregisterEngine forgets the engine and its counter. *)
UnregisterEngine(e) ==
  /\ e \in table \cap Removable
  /\ table' = table \ {e}
  /\ load' = [load EXCEPT ![e] = 0]
  /\ Quiet /\ UNCHANGED <<boot, chat>>

-----------------------------------------------------------------------------
(* handleChat: the limiter lets the request in and it is well formed. *)
Arrive(q) ==
  /\ at[q] = "idle"
  /\ at' = [at EXCEPT ![q] = "resolve"]
  /\ dead' = [dead EXCEPT ![q] = Unloaded]
  /\ steady' = [steady EXCEPT ![q] = Serving]
  /\ UNCHANGED <<vars, routing, ready, found, picked>>

(* Resolve: the static table, if it has engines for the model.  The mutant *)
(* goes on with the list of an earlier request.                            *)
KeepsFound(q) ==
  /\ at[q] = "resolve"
  /\ at' = [at EXCEPT ![q] = IF table = {} THEN "list" ELSE "sort"]
  /\ found' = [found EXCEPT ![q] = @ \cup table]
  /\ Quiet /\ UNCHANGED <<routing, ready, picked>>
ReadTable(q) ==
  /\ at[q] = "resolve"
  /\ at' = [at EXCEPT ![q] = IF table = {} THEN "list" ELSE "sort"]
  /\ found' = [found EXCEPT ![q] = table]
  /\ Quiet /\ UNCHANGED <<routing, ready, picked>>

(* Resolve: else a snapshot of the agent's instances. *)
ListReady(q) ==
  /\ at[q] = "list"
  /\ at' = [at EXCEPT ![q] = "lookup"]
  /\ ready' = [ready EXCEPT ![q] = Listed]
  /\ Quiet /\ UNCHANGED <<routing, found, picked>>

(* Resolve: the engine of each, by then possibly gone or another one.  The *)
(* mutants give up at the first that is gone, and keep what they found in  *)
(* the table.                                                              *)
LookUpGivesUp(q, id) ==
  /\ at[q] = "lookup" /\ id \in ready[q]
  /\ ready' = [ready EXCEPT ![q] = IF engines[id] = None THEN {} ELSE @ \ {id}]
  /\ found' = [found EXCEPT ![q] = @ \cup ({engines[id]} \ {None})]
  /\ Quiet /\ UNCHANGED <<routing, at, picked>>
LookUp(q, id) ==
  /\ at[q] = "lookup" /\ id \in ready[q]
  /\ ready' = [ready EXCEPT ![q] = @ \ {id}]
  /\ found' = [found EXCEPT ![q] = @ \cup ({engines[id]} \ {None})]
  /\ Quiet /\ UNCHANGED <<routing, at, picked>>

(* Resolve: nothing found, the request is answered 404. *)
Refuse(q) ==
  /\ at[q] = "lookup" /\ ready[q] = {} /\ found[q] = {}
  /\ at' = [at EXCEPT ![q] = "idle"]
  /\ Quiet /\ UNCHANGED <<routing, ready, found, picked>>

(* Resolve sorts by load; handleChat takes the first.  Which of several    *)
(* equally loaded engines comes first is left open.                        *)
Choose(q) ==
  /\ \/ at[q] = "sort"
     \/ at[q] = "lookup" /\ ready[q] = {}
  /\ \E e \in found[q] :
       /\ \A f \in found[q] : load[e] <= load[f]
       /\ picked' = [picked EXCEPT ![q] = e]
  /\ at' = [at EXCEPT ![q] = "acquire"]
  /\ Quiet /\ UNCHANGED <<routing, ready, found>>

Acquire(q) ==
  /\ at[q] = "acquire"
  /\ load' = [load EXCEPT ![picked[q]] = @ + 1]
  /\ at' = [at EXCEPT ![q] = "chat"]
  /\ Quiet /\ UNCHANGED <<table, boot, ready, found, picked>>

(* Engine.Chat: an engine that answers may still fail; one that is not     *)
(* loaded, or whose port is silent, does.                                  *)
CanChat(e) == \/ e \in Remotes
              \/ e \in Deploys /\ IF spec[e].kind \in AwaitsHTTP THEN Answers(Port(spec[e]))
                                  ELSE spec[e].kind = "fake" /\ eng[e] = "loaded"
ChatEnds(q) ==
  /\ at[q] = "chat"
  /\ \/ /\ CanChat(picked[q])
        /\ at' = [at EXCEPT ![q] = "release"]
     \/ at' = [at EXCEPT ![q] = "failed"]
  /\ Quiet /\ UNCHANGED <<routing, ready, found, picked>>

(* Release, deferred: it runs whatever Chat returned, and never takes the  *)
(* counter below zero.  The mutants take it below, and forget the failed   *)
(* requests.                                                               *)
Unguarded(q) ==
  /\ load' = [load EXCEPT ![picked[q]] = @ - 1]
  /\ UNCHANGED <<table, boot>>
LeakOnError(q) ==
  /\ load' = [load EXCEPT ![picked[q]] =
                IF @ > 0 /\ at[q] = "release" THEN @ - 1 ELSE @]
  /\ UNCHANGED <<table, boot>>
Release(q) ==
  /\ load' = [load EXCEPT ![picked[q]] = IF @ > 0 THEN @ - 1 ELSE @]
  /\ UNCHANGED <<table, boot>>

Answer(q) ==
  /\ at[q] \in {"release", "failed"}
  /\ Release(q)
  /\ at' = [at EXCEPT ![q] = "idle"]
  /\ picked' = [picked EXCEPT ![q] = None]
  /\ Quiet /\ UNCHANGED <<ready, found>>

ChatStep(q) ==
  \/ Arrive(q) \/ ReadTable(q) \/ ListReady(q) \/ Refuse(q) \/ Choose(q)
  \/ Acquire(q) \/ ChatEnds(q) \/ Answer(q)
  \/ \E id \in Ids : LookUp(q, id)

GNext ==
  \/ AgentStep
  \/ \E c \in Daemons : RouteRestored(c)
  \/ \E e \in Engines : RegisterRemote(e) \/ UnregisterEngine(e)
  \/ \E q \in Chats : ChatStep(q)

GSpec == GInit /\ [][GNext]_gvars
-----------------------------------------------------------------------------
(* Properties. *)

(* The router's variables keep their types. *)
GTypeOK ==
  /\ table \subseteq Engines
  /\ load \in [Engines -> Nat]
  /\ boot \in [Daemons -> Ids \cup {None}]
  /\ at \in [Chats -> {"idle", "resolve", "list", "lookup", "sort", "acquire",
                       "chat", "release", "failed"}]
  /\ ready \in [Chats -> SUBSET Ids]
  /\ found \in [Chats -> SUBSET Engines]
  /\ picked \in [Chats -> Engines \cup {None}]
  /\ \A q \in Chats : at[q] \in {"acquire", "chat", "release", "failed"}
                        <=> picked[q] # None
  /\ dead \in [Chats -> SUBSET Deploys]
  /\ steady \in [Chats -> SUBSET Deploys]

(* The counters balance by: no engine is thought busier than it is, and an *)
(* engine nobody unregisters is never thought idler, however requests fail *)
(* and interleave.                                                         *)
CountsMatch ==
  \A e \in Engines :
    /\ load[e] <= Cardinality(Users(e))
    /\ e \notin Removable => load[e] = Cardinality(Users(e))

(* Resolve reads the table, the list and each engine at different moments. *)
(* Still, a request is refused as unserved only if no instance was ready   *)
(* all the time since it came: a restart of one replica does not hide      *)
(* another.                                                                *)
RefusedOnlyIfUnserved == [][\A q \in Chats : Refuse(q) => steady[q] = {}]_gvars

(* Engines that a request may have from the static table: what is in it,   *)
(* and what UnregisterEngine may have taken out since.                     *)
Routed == table \cup Removable

(* The agent never leads a request to an engine that was unloaded before   *)
(* the request came, although its list is old when the engines are asked   *)
(* for: only the static table can.                                         *)
FallbackIsFresh == \A q \in Chats : picked[q] \in dead[q] => picked[q] \in Routed
=============================================================================
