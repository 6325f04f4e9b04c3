--------------------------- MODULE GatewayProofs ---------------------------
(***************************************************************************)
(* Proofs about the gateway over its agent, for any number of chats,       *)
(* instances, deploys and remote engines.  What the agent does is known    *)
(* from AgentProofs; two more facts about it are needed first.             *)
(***************************************************************************)
EXTENDS Gateway, AgentProofs, FiniteSetTheorems

(* An engine that has been unloaded is not loaded again: its deployment is *)
(* past Load, and nobody deploys the same instance twice.                  *)
Starting(c) == pc[c] \in {"load", "wait"}
SpentOK ==
  \A d \in Deploys : eng[d] = "unloaded" =>
    /\ state[d] # "unborn"
    /\ \A c \in Callers : Starting(c) => cur[c] # d

(* What a step of the agent keeps. *)
Kept ==
  \A d \in Deploys :
    /\ eng[d] = "unloaded" => eng'[d] = "unloaded"
    /\ state[d] # "unborn" => state'[d] # "unborn" /\ idOf'[d] = idOf[d]

LEMMA StartsNothing ==
  ASSUME SpentOK, NEW c \in Callers, UNCHANGED <<idOf, eng>>,
         \A d \in Deploys : state[d] # "unborn" => state'[d] # "unborn",
         \A k \in Callers \ {c} : pc'[k] = pc[k] /\ cur'[k] = cur[k],
         ~Starting(c)'
  PROVE  SpentOK' /\ Kept
  BY DEF SpentOK, Kept, Starting

LEMMA LeavesAll ==
  ASSUME SpentOK, UNCHANGED <<idOf, eng, state, pc, cur>>
  PROVE  SpentOK' /\ Kept
  BY DEF SpentOK, Kept, Starting

LEMMA ReturnsKeeps ==
  ASSUME TypeOK, SpentOK, NEW c \in Callers, NEW rest, NEW d, Returns(c, rest),
         cur' = [cur EXCEPT ![c] = d], UNCHANGED <<idOf, eng>>,
         \A e \in Deploys : state[e] # "unborn" => state'[e] # "unborn"
  PROVE  SpentOK' /\ Kept
PROOF
  <1>1. \A k \in Callers \ {c} : pc'[k] = pc[k] /\ cur'[k] = cur[k]
    BY ReturnsFrame DEF TypeOK
  <1>2. ~Starting(c)'
    BY ReturnsFrame DEF Starting
  <1>. QED
    BY <1>1, <1>2, StartsNothing

LEMMA ClaimKeeps ==
  ASSUME IInv, SpentOK, NEW c \in Callers, NEW id \in Ids, NEW s, Claim(c, id, s)
  PROVE  SpentOK' /\ Kept
PROOF
  <1>0. TypeOK
    BY DEF IInv
  <1>1. CASE Returns(c, todo[c]) /\ cur' = [cur EXCEPT ![c] = None] /\ UNCHANGED objects
    BY <1>0, <1>1, ReturnsKeeps DEF objects
  <1>2. ASSUME NEW d \in Deploys, state[d] = "unborn",
               idOf' = [idOf EXCEPT ![d] = id], state' = [state EXCEPT ![d] = "loading"],
               eng' = [eng EXCEPT ![d] = "new"], cur' = [cur EXCEPT ![c] = d],
               pc' = [pc EXCEPT ![c] = "load"]
        PROVE  SpentOK' /\ Kept
    <2>1. \A e \in Deploys : e # d => /\ idOf'[e] = idOf[e] /\ state'[e] = state[e]
                                      /\ eng'[e] = eng[e]
      BY <1>0, <1>2 DEF TypeOK
    <2>2. eng'[d] = "new" /\ state'[d] = "loading" /\ cur'[c] = d
      BY <1>0, <1>2 DEF TypeOK
    <2>3. \A k \in Callers \ {c} : pc'[k] = pc[k] /\ cur'[k] = cur[k]
      BY <1>0, <1>2 DEF TypeOK
    <2>. QED
      BY <1>2, <2>1, <2>2, <2>3 DEF SpentOK, Kept, Starting
  <1>. QED
    BY <1>1, <1>2 DEF Claim

LEMMA LoadKeeps ==
  ASSUME IInv, SpentOK, NEW c \in Callers, LoadStart(c) \/ WaitAnswered(c) \/ WaitFails(c)
  PROVE  SpentOK' /\ Kept
PROOF
  <1>0. TypeOK /\ InFlight(c) /\ Starting(c) /\ UNCHANGED <<idOf, state, cur>>
    BY DEF IInv, LoadStart, WaitAnswered, WaitFails, InFlight, Starting
  <1>1. /\ cur[c] \in Deploys /\ state[cur[c]] # "unborn"
        /\ \A b \in Callers : InFlight(b) /\ cur[b] = cur[c] => b = c
    BY <1>0 DEF IInv, Deployers
  <1>2. \A k \in Callers \ {c} : pc'[k] = pc[k]
    BY <1>0 DEF LoadStart, WaitAnswered, WaitFails, TypeOK
  <1>3. \A d \in Deploys : d # cur[c] => eng'[d] = eng[d]
    BY <1>0 DEF LoadStart, WaitAnswered, WaitFails, Unload, TypeOK
  <1>4. eng[cur[c]] # "unloaded"
    BY <1>0, <1>1 DEF SpentOK
  <1>5. eng'[cur[c]] # "unloaded" \/ ~Starting(c)'
    <2>1. CASE LoadStart(c) \/ WaitAnswered(c)
      BY <1>0, <1>1, <1>4, <2>1 DEF LoadStart, WaitAnswered, TypeOK
    <2>2. CASE WaitFails(c)
      BY <1>0, <2>2 DEF WaitFails, Starting, TypeOK
    <2>. QED
      BY <2>1, <2>2
  <1>6. \A k \in Callers : Starting(k)' => k = c \/ (Starting(k) /\ cur[k] # cur[c])
    BY <1>1, <1>2 DEF Starting, InFlight
  <1>. QED
    BY <1>0, <1>1, <1>3, <1>4, <1>5, <1>6 DEF SpentOK, Kept

LEMMA StopKeeps ==
  ASSUME IInv, SpentOK, NEW c \in Callers, NEW id \in Ids, NEW s, NEW rest,
         Remove(c, id, s, rest)
  PROVE  SpentOK' /\ Kept
PROOF
  <1>0. TypeOK /\ UNCHANGED <<idOf, state, eng>>
    BY DEF IInv, Remove, objects
  <1>1. /\ \A k \in Callers \ {c} : pc'[k] = pc[k] /\ cur'[k] = cur[k]
        /\ ~Starting(c)'
    <2>1. CASE StopReturns(c, id, s, rest)
      BY <1>0, <2>1, ReturnsFrame DEF StopReturns, Starting, TypeOK
    <2>2. CASE pc' = [pc EXCEPT ![c] = "unload"] /\ cur' = [cur EXCEPT ![c] = instances[id]]
      BY <1>0, <2>2 DEF Starting, TypeOK
    <2>. QED
      BY <2>1, <2>2 DEF Remove
  <1>. QED
    BY <1>0, <1>1, StartsNothing

LEMMA FinishKeeps ==
  ASSUME IInv, SpentOK, NEW c \in Callers, FinishStop(c)
  PROVE  SpentOK' /\ Kept
PROOF
  <1>0. TypeOK /\ pc[c] = "unload" /\ UNCHANGED idOf
    BY DEF IInv, FinishStop
  <1>1. /\ cur[c] \in Deploys
        /\ hand[c] # None => state[hand[c]] # "unborn"
        /\ \A b \in Callers : InFlight(b) => cur[b] # hand[c]
    BY <1>0 DEF IInv, Stoppers
  <1>2. /\ \A d \in Deploys : state[d] # "unborn" => state'[d] # "unborn"
        /\ \A d \in Deploys : eng'[d] = IF d = hand[c] THEN "unloaded" ELSE eng[d]
    BY <1>0, <1>1 DEF FinishStop, Unload, TypeOK
  <1>3. /\ \A k \in Callers \ {c} : pc'[k] = pc[k] /\ cur'[k] = cur[k]
        /\ ~Starting(c)'
    <2>1. StopReturns(c, opId[c], want[c], todo[c])
      BY DEF FinishStop
    <2>. QED
      BY <1>0, <2>1, ReturnsFrame DEF StopReturns, Starting, TypeOK
  <1>4. None \notin Deploys
    BY AgentAssumption
  <1>. QED
    BY <1>0, <1>1, <1>2, <1>3, <1>4 DEF SpentOK, Kept, Starting, InFlight

LEMMA AgentKeeps == IInv /\ SpentOK /\ [Next]_vars => SpentOK' /\ Kept
PROOF
  <1> SUFFICES ASSUME IInv, SpentOK, [Next]_vars
               PROVE  SpentOK' /\ Kept
    OBVIOUS
  <1>0. TypeOK
    BY DEF IInv
  <1>1. ASSUME NEW c \in Callers, Step(c)
        PROVE  SpentOK' /\ Kept
    <2>1. CASE Redeploy(c)
      BY <1>0, <2>1, ClaimKeeps DEF Redeploy, TypeOK, Between
    <2>2. CASE DropRedeploy(c)
      BY <1>0, <2>2, ReturnsKeeps DEF DropRedeploy, objects
    <2>3. CASE LoadStart(c) \/ WaitAnswered(c) \/ WaitFails(c)
      BY <2>3, LoadKeeps
    <2>4. CASE StartFails(c)
      <3>1. /\ \A k \in Callers \ {c} : pc'[k] = pc[k] /\ cur'[k] = cur[k]
            /\ ~Starting(c)' /\ UNCHANGED <<idOf, eng, state>>
        BY <1>0, <2>4 DEF StartFails, Starting, TypeOK, objects
      <3>. QED
        BY <3>1, StartsNothing
    <2>5. CASE Register(c) \/ Fail(c)
      <3>1. /\ Returns(c, todo[c]) /\ UNCHANGED <<idOf, eng>>
            /\ \E d : cur' = [cur EXCEPT ![c] = d]
        BY <2>5 DEF Register, Fail
      <3>2. \A e \in Deploys : state[e] # "unborn" => state'[e] # "unborn"
        BY <1>0, <2>5 DEF Register, Fail, MarkError, TypeOK
      <3>. QED
        BY <1>0, <3>1, <3>2, ReturnsKeeps
    <2>6. CASE FinishStop(c)
      BY <2>6, FinishKeeps
    <2>. QED
      BY <1>1, <2>1, <2>2, <2>3, <2>4, <2>5, <2>6 DEF Step
  <1>2. ASSUME NEW c \in Callers, NEW id \in Ids, NEW s, NEW rest, Remove(c, id, s, rest)
        PROVE  SpentOK' /\ Kept
    BY <1>2, StopKeeps
  <1>3. ASSUME NEW c \in Requests \cup Daemons, NEW id \in Ids, NEW s, Claim(c, id, s)
        PROVE  SpentOK' /\ Kept
    BY <1>3, ClaimKeeps DEF Callers
  <1>4. ASSUME NEW r \in Requests, HandlerReturns(r) \/ ClientGone(r)
                                    \/ \E ids \in SUBSET Ids : HandleStopModel(r, ids)
        PROVE  SpentOK' /\ Kept
    <2>1. r \in Callers /\ UNCHANGED <<idOf, eng, state>>
      BY <1>4 DEF Callers, HandlerReturns, ClientGone, HandleStopModel, objects
    <2>2. CASE ClientGone(r)
      BY <2>1, <2>2, LeavesAll DEF ClientGone, goroutines
    <2>3. CASE ~ClientGone(r)
      <3>1. \A k \in Callers \ {r} : pc'[k] = pc[k] /\ cur'[k] = cur[k]
        BY <1>0, <1>4, <2>1, <2>3 DEF HandlerReturns, HandleStopModel, TypeOK
      <3>2. ~Starting(r)'
        BY <1>0, <1>4, <2>1, <2>3 DEF HandlerReturns, HandleStopModel, TypeOK, Starting
      <3>. QED
        BY <2>1, <3>1, <3>2, StartsNothing
    <2>. QED
      BY <2>2, <2>3
  <1>5. ASSUME HealTick \/ HealHealthy \/ HealUnhealthy \/ \E id \in Ids : HealRead(id)
        PROVE  SpentOK' /\ Kept
    <2>1. Healer \in Callers /\ UNCHANGED <<idOf, eng, state>>
      BY <1>5 DEF Callers, HealTick, HealHealthy, HealUnhealthy, HealRead, objects
    <2>2. CASE HealTick \/ HealUnhealthy
      <3>1. /\ \A k \in Callers \ {Healer} : pc'[k] = pc[k] /\ cur'[k] = cur[k]
            /\ ~Starting(Healer)'
        BY <1>0, <2>1, <2>2 DEF HealTick, HealUnhealthy, TypeOK, Starting
      <3>. QED
        BY <2>1, <3>1, StartsNothing
    <2>3. CASE HealHealthy
      BY <1>0, <2>1, <2>3, ReturnsKeeps DEF HealHealthy
    <2>4. ASSUME NEW id \in Ids, HealRead(id)
          PROVE  SpentOK' /\ Kept
      <3>1. CASE Returns(Healer, todo[Healer] \ {id})
        BY <1>0, <2>1, <2>4, <3>1, ReturnsKeeps DEF HealRead
      <3>2. CASE \E l \in {"stop", "probe"} : pc' = [pc EXCEPT ![Healer] = l]
        <4>1. /\ \A k \in Callers \ {Healer} : pc'[k] = pc[k] /\ cur'[k] = cur[k]
              /\ ~Starting(Healer)'
          BY <1>0, <2>1, <2>4, <3>2 DEF HealRead, TypeOK, Starting
        <4>. QED
          BY <2>1, <4>1, StartsNothing
      <3>. QED
        BY <2>4, <3>1, <3>2 DEF HealRead
    <2>. QED
      BY <1>5, <2>2, <2>3, <2>4
  <1>6. CASE HealStop
    <2>1. Healer \in Callers /\ opId[Healer] \in Ids
      BY <1>0, <1>6 DEF Callers, HealStop, TypeOK, Between
    <2>. QED
      BY <1>2, <1>6, <2>1 DEF HealStop
  <1>7. CASE Outside \/ UNCHANGED vars
    <2>1. UNCHANGED <<idOf, eng, state, pc, cur>>
      BY <1>7 DEF Outside, ProcServes, ProcCrashes, ContextKills, OutsideService,
                  objects, goroutines, vars
    <2>. QED
      BY <2>1, LeavesAll
  <1>8. CASE \E r \in Requests : RequestStep(r)
    <2>1. ASSUME NEW r \in Requests, NEW id \in Ids, SweepNext(r, id)
          PROVE  SpentOK' /\ Kept
      BY <1>2, <2>1 DEF SweepNext, Callers
    <2>. QED
      BY <1>4, <1>8, <2>1 DEF RequestStep
  <1>9. CASE Arrival
    <2>1. ASSUME NEW r \in Requests, NEW id \in Ids, NEW s \in Specs,
                 HandleStop(r, id) \/ HandleRedeploy(r, id, s)
          PROVE  SpentOK' /\ Kept
      BY <1>2, <2>1 DEF HandleStop, HandleRedeploy, Callers
    <2>2. ASSUME NEW r \in Requests, NEW id \in Ids, HandleStop(r, id)
          PROVE  SpentOK' /\ Kept
      BY <1>2, <2>2 DEF HandleStop, Callers
    <2>. QED
      BY <1>3, <1>4, <1>9, <2>1, <2>2 DEF Arrival, HandleDeploy
  <1>. QED
    BY <1>1, <1>5, <1>6, <1>7, <1>8, <1>9 DEF Next, HealStep

-----------------------------------------------------------------------------
(* The router's own variables. *)

LEMMA AgentMoves == [GNext]_gvars => [Next]_vars
  BY DEF GNext, AgentStep, RouteRestored, RegisterRemote, UnregisterEngine, ChatStep,
         Quiet, Arrive, ReadTable, ListReady, Refuse, Choose, Acquire, ChatEnds,
         Answer, LookUp, gvars, vars

LEMMA ServingType == ASSUME TypeOK PROVE Serving \subseteq Deploys
  BY DEF TypeOK, Serving, Listed

GInv == /\ IInv /\ SpentOK /\ GTypeOK

(* The steps of a chat move no other chat. *)
LEMMA GTypeStep == IInv /\ IInv' /\ GTypeOK /\ [GNext]_gvars => GTypeOK'
PROOF
  <1> SUFFICES ASSUME IInv, IInv', GTypeOK, [GNext]_gvars
               PROVE  GTypeOK'
    OBVIOUS
  <1>0. /\ TypeOK /\ TypeOK'
        /\ None \notin Engines
        /\ Deploys \subseteq Engines /\ Remotes \subseteq Engines
    BY AgentAssumption, GatewayAssumption DEF IInv, Engines
  <1>1. CASE AgentStep
    <2>1. boot' \in [Daemons -> Ids \cup {None}]
      <3>1. \A c \in Daemons : opId[c] \in Ids \cup {None} /\ boot[c] \in Ids \cup {None}
        BY <1>0 DEF TypeOK, GTypeOK, Callers
      <3>. QED
        BY <1>1, <3>1 DEF AgentStep
    <2>2. steady' \in [Chats -> SUBSET Deploys]
      BY <1>1 DEF AgentStep, GTypeOK
    <2>. QED
      BY <1>1, <2>1, <2>2 DEF AgentStep, GTypeOK, chat
  <1>2. ASSUME NEW c \in Daemons, RouteRestored(c)
        PROVE  GTypeOK'
    <2>1. boot[c] \in Ids
      BY <1>2 DEF RouteRestored, GTypeOK
    <2>2. table' \subseteq Engines
      BY <1>0, <1>2, <2>1 DEF RouteRestored, GTypeOK, TypeOK
    <2>. QED
      BY <1>2, <2>2 DEF RouteRestored, GTypeOK, Quiet, chat
  <1>3. ASSUME NEW e \in Engines, RegisterRemote(e)
        PROVE  GTypeOK'
    BY <1>3 DEF RegisterRemote, GTypeOK, Quiet, chat
  <1>4. ASSUME NEW e \in Engines, UnregisterEngine(e)
        PROVE  GTypeOK'
    BY <1>4 DEF UnregisterEngine, GTypeOK, Quiet, chat
  <1>5. ASSUME NEW q \in Chats, Arrive(q)
        PROVE  GTypeOK'
    <2>1. Unloaded \subseteq Deploys /\ Serving \subseteq Deploys
      BY <1>0, ServingType DEF Unloaded
    <2>. QED
      BY <1>5, <2>1 DEF Arrive, GTypeOK, routing
  <1>6. ASSUME NEW q \in Chats, ReadTable(q) \/ ListReady(q) \/ Refuse(q)
        PROVE  GTypeOK'
    BY <1>6 DEF ReadTable, ListReady, Listed, Refuse, GTypeOK, Quiet, routing
  <1>7. ASSUME NEW q \in Chats, NEW id \in Ids, LookUp(q, id)
        PROVE  GTypeOK'
    <2>1. {engines[id]} \ {None} \subseteq Engines
      BY <1>0 DEF TypeOK
    <2>. QED
      BY <1>7, <2>1 DEF LookUp, GTypeOK, Quiet, routing
  <1>8. ASSUME NEW q \in Chats, Choose(q)
        PROVE  GTypeOK'
    <2>1. PICK e \in found[q] : picked' = [picked EXCEPT ![q] = e]
      BY <1>8 DEF Choose
    <2>2. e \in Engines /\ e # None
      BY <1>0, <2>1 DEF GTypeOK
    <2>. QED
      BY <1>8, <2>1, <2>2 DEF Choose, GTypeOK, Quiet, routing
  <1>9. ASSUME NEW q \in Chats, Acquire(q)
        PROVE  GTypeOK'
    BY <1>9 DEF Acquire, GTypeOK, Quiet
  <1>10. ASSUME NEW q \in Chats, ChatEnds(q)
         PROVE  GTypeOK'
    BY <1>10 DEF ChatEnds, GTypeOK, Quiet, routing
  <1>11. ASSUME NEW q \in Chats, Answer(q)
         PROVE  GTypeOK'
    BY <1>11 DEF Answer, Release, GTypeOK, Quiet
  <1>12. CASE UNCHANGED gvars
    BY <1>12 DEF gvars, routing, chat, GTypeOK
  <1>. QED
    BY <1>1, <1>2, <1>3, <1>4, <1>5, <1>6, <1>7, <1>8, <1>9, <1>10, <1>11, <1>12
       DEF GNext, ChatStep

LEMMA GInitInv == GInit => GInv /\ CountsMatch
PROOF
  <1> SUFFICES ASSUME GInit
               PROVE  GInv /\ CountsMatch
    OBVIOUS
  <1>1. Init /\ IInv
    BY InitInv DEF GInit
  <1>2. SpentOK
    BY <1>1 DEF Init, SpentOK
  <1>3. GTypeOK
    BY DEF GInit, GTypeOK
  <1>4. CountsMatch
    <2>1. \A e \in Engines : Users(e) = {} /\ load[e] = 0
      BY DEF GInit, Users
    <2>. QED
      BY <2>1, FS_EmptySet DEF CountsMatch
  <1>. QED
    BY <1>1, <1>2, <1>3, <1>4 DEF GInv

LEMMA GInvStep == GInv /\ [GNext]_gvars => GInv'
  BY AgentMoves, InvStep, AgentKeeps, GTypeStep DEF GInv

LEMMA GInvariance == GSpec => []GInv
PROOF
  <1>1. GInit => GInv
    BY GInitInv
  <1>. QED
    BY <1>1, GInvStep, PTL DEF GSpec

(* The router's variables keep their types.                                *)
THEOREM GTypeCorrect == GSpec => []GTypeOK
PROOF
  <1>1. GInv => GTypeOK
    BY DEF GInv
  <1>. QED
    BY <1>1, GInvariance, PTL

-----------------------------------------------------------------------------
(* The agent under the gateway. *)

(* The gateway drives the agent only through the operations the agent      *)
(* offers: routing, registering and chatting are stuttering steps of it,   *)
(* so whatever AgentProofs shows of an agent holds of this one.            *)
THEOREM GatewayImplementsAgent == GSpec => Spec
PROOF
  <1>1. GInit => Init
    BY DEF GInit
  <1>. QED
    BY <1>1, AgentMoves, PTL DEF GSpec, Spec

(* So an instance goes through its promised life cycle, and no process of  *)
(* a dead engine is lost, while chats are routed to it.                    *)
THEOREM AgentServesGateway == GSpec => ImplementsLifecycle /\ []LiveProcessIsOwned
  BY GatewayImplementsAgent, ImplementsLifecycleHolds, LiveProcessIsOwnedHolds, PTL

-----------------------------------------------------------------------------
(* The counters. *)

LEMMA UsersFinite ==
  ASSUME NEW e
  PROVE  IsFiniteSet(Users(e)) /\ Cardinality(Users(e)) \in Nat
PROOF
  <1>1. Users(e) \subseteq Chats /\ IsFiniteSet(Chats)
    BY GatewayAssumption DEF Users
  <1>. QED
    BY <1>1, FS_Subset, FS_CardinalityType

(* Steps that neither take nor give back an engine. *)
LEMMA SameUsers ==
  ASSUME CountsMatch, UNCHANGED load,
         \A q \in Chats : /\ at'[q] \in {"chat", "release", "failed"}
                             <=> at[q] \in {"chat", "release", "failed"}
                          /\ at[q] \in {"chat", "release", "failed"} => picked'[q] = picked[q]
  PROVE  CountsMatch'
PROOF
  <1>1. \A e \in Engines : Users(e)' = Users(e)
    BY DEF Users
  <1>. QED
    BY <1>1 DEF CountsMatch

LEMMA CountsStep == GTypeOK /\ GTypeOK' /\ CountsMatch /\ [GNext]_gvars => CountsMatch'
PROOF
  <1> SUFFICES ASSUME GTypeOK, GTypeOK', CountsMatch, [GNext]_gvars
               PROVE  CountsMatch'
    OBVIOUS
  <1>0. None \notin Engines
    BY AgentAssumption, GatewayAssumption DEF Engines
  <1>1. ASSUME UNCHANGED <<load, at, picked>>
        PROVE  CountsMatch'
    BY <1>1, SameUsers
  <1>2. ASSUME NEW e \in Engines, UnregisterEngine(e)
        PROVE  CountsMatch'
    <2>1. UNCHANGED <<at, picked>> /\ \A f \in Engines : Users(f)' = Users(f)
      BY <1>2 DEF UnregisterEngine, chat, Users
    <2>2. /\ e \in Removable /\ load'[e] = 0
          /\ \A f \in Engines : f # e => load'[f] = load[f]
      BY <1>2 DEF UnregisterEngine, GTypeOK
    <2>3. Cardinality(Users(e)) \in Nat
      BY UsersFinite
    <2>. QED
      BY <2>1, <2>2, <2>3 DEF CountsMatch
  <1>3. ASSUME NEW q \in Chats,
               \/ Arrive(q) \/ ReadTable(q) \/ ListReady(q) \/ Refuse(q)
               \/ ChatEnds(q) \/ Choose(q) \/ \E id \in Ids : LookUp(q, id)
        PROVE  CountsMatch'
    <2>1. UNCHANGED load /\ \A p \in Chats \ {q} : at'[p] = at[p] /\ picked'[p] = picked[p]
      BY <1>3 DEF Arrive, ReadTable, ListReady, Refuse, ChatEnds, Choose, LookUp,
                  routing, GTypeOK
    <2>2. /\ at'[q] \in {"chat", "release", "failed"} <=> at[q] \in {"chat", "release", "failed"}
          /\ at[q] \in {"chat", "release", "failed"} => picked'[q] = picked[q]
      BY <1>3 DEF Arrive, ReadTable, ListReady, Refuse, ChatEnds, Choose, LookUp, GTypeOK
    <2>. QED
      BY <2>1, <2>2, SameUsers
  <1>4. ASSUME NEW q \in Chats, Acquire(q)
        PROVE  CountsMatch'
    <2>1. PICK e \in Engines : picked[q] = e
      BY <1>0, <1>4 DEF Acquire, GTypeOK
    <2>2. /\ at' = [at EXCEPT ![q] = "chat"] /\ at[q] = "acquire" /\ UNCHANGED picked
          /\ load' = [load EXCEPT ![e] = @ + 1]
      BY <1>4, <2>1 DEF Acquire
    <2>3. /\ Users(e)' = Users(e) \cup {q} /\ q \notin Users(e)
          /\ \A f \in Engines : f # e => Users(f)' = Users(f)
      BY <2>1, <2>2 DEF Users, GTypeOK
    <2>4. Cardinality(Users(e))' = Cardinality(Users(e)) + 1
      BY <2>3, UsersFinite, FS_AddElement
    <2>5. /\ load'[e] = load[e] + 1
          /\ \A f \in Engines : f # e => load'[f] = load[f]
      BY <2>2 DEF GTypeOK
    <2>6. /\ load[e] \in Nat /\ Cardinality(Users(e)) \in Nat
          /\ load[e] <= Cardinality(Users(e))
          /\ e \notin Removable => load[e] = Cardinality(Users(e))
      BY UsersFinite DEF GTypeOK, CountsMatch
    <2>7. /\ load'[e] <= Cardinality(Users(e))'
          /\ e \notin Removable => load'[e] = Cardinality(Users(e))'
      BY <2>4, <2>5, <2>6
    <2>. QED
      BY <2>3, <2>5, <2>7 DEF CountsMatch
  <1>5. ASSUME NEW q \in Chats, Answer(q)
        PROVE  CountsMatch'
    <2>1. PICK e \in Engines : picked[q] = e
      BY <1>0, <1>5 DEF Answer, GTypeOK
    <2>2. /\ at' = [at EXCEPT ![q] = "idle"] /\ at[q] \in {"release", "failed"}
          /\ picked' = [picked EXCEPT ![q] = None]
          /\ load' = [load EXCEPT ![e] = IF @ > 0 THEN @ - 1 ELSE @]
      BY <1>5, <2>1 DEF Answer, Release
    <2>3. /\ Users(e)' = Users(e) \ {q} /\ q \in Users(e)
          /\ \A f \in Engines : f # e => Users(f)' = Users(f)
      BY <2>1, <2>2 DEF Users, GTypeOK
    <2>4. Cardinality(Users(e))' = Cardinality(Users(e)) - 1 /\ Cardinality(Users(e)) # 0
      BY <2>3, UsersFinite, FS_RemoveElement, FS_EmptySet
    <2>5. /\ load'[e] = IF load[e] > 0 THEN load[e] - 1 ELSE load[e]
          /\ \A f \in Engines : f # e => load'[f] = load[f]
      BY <2>2 DEF GTypeOK
    <2>6. /\ load[e] \in Nat /\ Cardinality(Users(e)) \in Nat
          /\ load[e] <= Cardinality(Users(e))
          /\ e \notin Removable => load[e] = Cardinality(Users(e))
      BY UsersFinite DEF GTypeOK, CountsMatch
    <2>7. /\ load'[e] <= Cardinality(Users(e))'
          /\ e \notin Removable => load'[e] = Cardinality(Users(e))'
      BY <2>4, <2>5, <2>6
    <2>. QED
      BY <2>3, <2>5, <2>7 DEF CountsMatch
  <1>6. CASE \/ AgentStep \/ UNCHANGED gvars
             \/ \E c \in Daemons : RouteRestored(c)
             \/ \E e \in Engines : RegisterRemote(e)
    BY <1>1, <1>6 DEF AgentStep, RouteRestored, RegisterRemote, gvars, routing, chat
  <1>. QED
    BY <1>2, <1>3, <1>4, <1>5, <1>6 DEF GNext, ChatStep

(* However requests fail and interleave, an engine's counter is the number *)
(* of requests that hold it, and never more if it is unregistered.         *)
THEOREM CountsMatchHolds == GSpec => []CountsMatch
PROOF
  <1>1. GInit => CountsMatch
    BY GInitInv
  <1>2. GInv => GTypeOK
    BY DEF GInv
  <1>. QED
    BY <1>1, <1>2, CountsStep, GInvariance, PTL DEF GSpec

-----------------------------------------------------------------------------
(* What the agent's list is good for. *)

(* A request that came before the engine was unloaded may find it; one     *)
(* that came after has it from the static table only.                      *)
Fresh ==
  \A q \in Chats :
    /\ \A d \in dead[q] : eng[d] = "unloaded"
    /\ at[q] \in {"list", "lookup", "sort"} => found[q] \cap dead[q] \subseteq Routed
    /\ picked[q] \in dead[q] => picked[q] \in Routed

LEMMA FreshStep ==
  ASSUME GInv, GInv', Fresh, [GNext]_gvars
  PROVE  Fresh'
PROOF
  <1>0. GTypeOK /\ GTypeOK' /\ TypeOK /\ TypeOK'
    BY DEF GInv, IInv
  <1>1. \A q \in Chats : \A d \in dead[q] : eng'[d] = "unloaded"
    <2>1. Kept
      BY AgentMoves, AgentKeeps DEF GInv
    <2>. QED
      BY <1>0, <2>1 DEF Kept, Fresh, GTypeOK
  <1>2. Routed \subseteq Routed'
    BY DEF Routed, GNext, AgentStep, RouteRestored, RegisterRemote, UnregisterEngine, ChatStep,
           Arrive, ReadTable, ListReady, LookUp, Refuse, Choose, Acquire, ChatEnds,
           Answer, Release, routing, gvars
  <1>3. ASSUME UNCHANGED <<at, found, picked, dead>>
        PROVE  Fresh'
    BY <1>1, <1>2, <1>3 DEF Fresh
  <1>4. ASSUME NEW q \in Chats, Arrive(q)
        PROVE  Fresh'
    <2>1. dead'[q] = Unloaded /\ at'[q] = "resolve" /\ UNCHANGED <<found, picked, eng>>
      BY <1>0, <1>4 DEF Arrive, GTypeOK, vars
    <2>2. \A p \in Chats \ {q} : at'[p] = at[p] /\ dead'[p] = dead[p]
      BY <1>0, <1>4 DEF Arrive, GTypeOK
    <2>3. picked'[q] = None /\ None \notin Deploys
      BY <1>0, <1>4, <2>1, AgentAssumption DEF Arrive, GTypeOK
    <2>. QED
      BY <1>1, <1>2, <2>1, <2>2, <2>3 DEF Fresh, Unloaded
  <1>5. ASSUME NEW q \in Chats, UNCHANGED dead,
               \A p \in Chats \ {q} : /\ at'[p] = at[p] /\ found'[p] = found[p]
                                      /\ picked'[p] = picked[p],
               at'[q] \in {"list", "lookup", "sort"} =>
                 found'[q] \cap dead[q] \subseteq Routed',
               picked'[q] \in dead[q] => picked'[q] \in Routed'
        PROVE  Fresh'
    BY <1>1, <1>2, <1>5 DEF Fresh
  <1>6. ASSUME NEW q \in Chats, ReadTable(q)
        PROVE  Fresh'
    <2>1. /\ found'[q] = table /\ UNCHANGED <<dead, picked, table>>
          /\ \A p \in Chats \ {q} : at'[p] = at[p] /\ found'[p] = found[p]
      BY <1>0, <1>6 DEF ReadTable, GTypeOK, Quiet, routing
    <2>. QED
      BY <1>5, <2>1 DEF Fresh, Routed
  <1>7. ASSUME NEW q \in Chats, ListReady(q) \/ Refuse(q) \/ Acquire(q) \/ ChatEnds(q)
        PROVE  Fresh'
    <2>1. /\ UNCHANGED <<dead, picked, found>>
          /\ \A p \in Chats \ {q} : at'[p] = at[p]
          /\ at'[q] \in {"list", "lookup", "sort"} => at[q] = "list"
      BY <1>0, <1>7 DEF ListReady, Refuse, Acquire, ChatEnds, GTypeOK, Quiet
    <2>. QED
      BY <1>2, <1>5, <2>1 DEF Fresh
  <1>8. ASSUME NEW q \in Chats, NEW id \in Ids, LookUp(q, id)
        PROVE  Fresh'
    <2>1. /\ at[q] = "lookup" /\ UNCHANGED <<dead, picked, at, table>>
          /\ found'[q] = found[q] \cup ({engines[id]} \ {None})
          /\ \A p \in Chats \ {q} : found'[p] = found[p]
      BY <1>0, <1>8 DEF LookUp, GTypeOK, Quiet, routing
    <2>2. engines[id] # None => engines[id] \notin dead[q]
      BY DEF GInv, IInv, RegisteredOK, Fresh
    <2>. QED
      BY <1>2, <1>5, <2>1, <2>2 DEF Fresh
  <1>9. ASSUME NEW q \in Chats, Choose(q)
        PROVE  Fresh'
    <2>1. /\ at[q] \in {"lookup", "sort"} /\ at'[q] = "acquire" /\ picked'[q] \in found[q]
          /\ UNCHANGED <<dead, found, table>>
          /\ \A p \in Chats \ {q} : at'[p] = at[p] /\ picked'[p] = picked[p]
      BY <1>0, <1>9 DEF Choose, GTypeOK, Quiet, routing
    <2>. QED
      BY <1>2, <1>5, <2>1 DEF Fresh
  <1>10. ASSUME NEW q \in Chats, Answer(q)
         PROVE  Fresh'
    <2>1. /\ at'[q] = "idle" /\ picked'[q] = None /\ UNCHANGED <<dead, found>>
          /\ \A p \in Chats \ {q} : at'[p] = at[p] /\ picked'[p] = picked[p]
      BY <1>0, <1>10 DEF Answer, GTypeOK, Quiet
    <2>2. None \notin dead[q]
      BY <1>0, AgentAssumption DEF GTypeOK
    <2>. QED
      BY <1>5, <2>1, <2>2
  <1>11. CASE \/ AgentStep \/ UNCHANGED gvars
              \/ \E c \in Daemons : RouteRestored(c)
              \/ \E e \in Engines : RegisterRemote(e) \/ UnregisterEngine(e)
    BY <1>3, <1>11 DEF AgentStep, RouteRestored, RegisterRemote, UnregisterEngine,
                       Quiet, gvars, chat
  <1>. QED
    BY <1>4, <1>6, <1>7, <1>8, <1>9, <1>10, <1>11 DEF GNext, ChatStep

(* The agent leads no request to an engine unloaded before the request     *)
(* came, whatever is registered and unregistered meanwhile.                *)
THEOREM FallbackIsFreshHolds == GSpec => []FallbackIsFresh
PROOF
  <1>1. GInit => Fresh
    BY DEF GInit, Fresh
  <1>2. GInv /\ GInv' /\ Fresh /\ [GNext]_gvars => Fresh'
    BY FreshStep
  <1>3. Fresh => FallbackIsFresh
    BY DEF Fresh, FallbackIsFresh
  <1>. QED
    BY <1>1, <1>2, <1>3, GInvariance, PTL DEF GSpec

(* While a request looks engines up, what was ready all along is still to  *)
(* be asked for, unless something was found already.                       *)
Remembered ==
  \A q \in Chats :
    /\ steady[q] \subseteq Serving
    /\ at[q] = "lookup" /\ found[q] = {} => \A d \in steady[q] : idOf[d] \in ready[q]

LEMMA ServingKnown ==
  ASSUME IInv, NEW d \in Serving
  PROVE  /\ idOf[d] \in Listed /\ state[d] # "unborn"
         /\ instances[idOf[d]] = d /\ engines[idOf[d]] # None
  BY DEF Serving, Listed, IInv, ListedOK

LEMMA RememberedStep == GInv /\ GInv' /\ Remembered /\ [GNext]_gvars => Remembered'
PROOF
  <1> SUFFICES ASSUME GInv, GInv', Remembered, [GNext]_gvars
               PROVE  Remembered'
    OBVIOUS
  <1>0. GTypeOK /\ GTypeOK' /\ TypeOK /\ TypeOK' /\ IInv
    BY DEF GInv, IInv
  <1>1. CASE AgentStep
    <2>1. Kept
      BY AgentMoves, AgentKeeps DEF GInv
    <2>2. /\ UNCHANGED <<at, found, ready>>
          /\ \A q \in Chats : steady'[q] = steady[q] \cap Serving'
      BY <1>1 DEF AgentStep, chat
    <2>3. \A q \in Chats : \A d \in steady'[q] : idOf'[d] = idOf[d]
      <3>. SUFFICES ASSUME NEW q \in Chats, NEW d \in steady'[q]
                    PROVE  idOf'[d] = idOf[d]
        OBVIOUS
      <3>1. d \in Serving
        BY <2>2 DEF Remembered
      <3>2. d \in Deploys /\ state[d] # "unborn"
        BY <1>0, <3>1, ServingKnown, ServingType
      <3>. QED
        BY <2>1, <3>2 DEF Kept
    <2>. QED
      BY <2>2, <2>3 DEF Remembered
  <1>2. CASE ~AgentStep
    <2>1. UNCHANGED vars
      BY <1>2 DEF GNext, RouteRestored, RegisterRemote, UnregisterEngine, ChatStep,
                  Quiet, Arrive, ReadTable, ListReady, Refuse, Choose, Acquire, ChatEnds,
                  Answer, LookUp, gvars
    <2>2. Serving' = Serving /\ UNCHANGED <<idOf, engines, instances>>
      BY <2>1 DEF Serving, Listed, vars
    <2>3. ASSUME UNCHANGED <<at, found, ready, steady>>
          PROVE  Remembered'
      BY <2>2, <2>3 DEF Remembered
    <2>4. ASSUME NEW q \in Chats, UNCHANGED steady,
                 \A p \in Chats \ {q} : /\ at'[p] = at[p] /\ found'[p] = found[p]
                                        /\ ready'[p] = ready[p],
                 at'[q] = "lookup" /\ found'[q] = {} =>
                   \A d \in steady[q] : idOf[d] \in ready'[q]
          PROVE  Remembered'
      BY <2>2, <2>4 DEF Remembered
    <2>5. ASSUME NEW q \in Chats, Arrive(q)
          PROVE  Remembered'
      <3>1. /\ at'[q] = "resolve" /\ steady'[q] = Serving /\ UNCHANGED <<found, ready>>
            /\ \A p \in Chats \ {q} : at'[p] = at[p] /\ steady'[p] = steady[p]
        BY <1>0, <2>5 DEF Arrive, GTypeOK
      <3>. QED
        BY <2>2, <3>1 DEF Remembered
    <2>6. ASSUME NEW q \in Chats,
                 ReadTable(q) \/ Refuse(q) \/ Choose(q) \/ Acquire(q) \/ ChatEnds(q) \/ Answer(q)
          PROVE  Remembered'
      <3>1. /\ at'[q] # "lookup" /\ UNCHANGED <<ready, steady>>
            /\ \A p \in Chats \ {q} : at'[p] = at[p] /\ found'[p] = found[p]
        BY <1>0, <2>6 DEF ReadTable, Refuse, Choose, Acquire, ChatEnds, Answer, Quiet, GTypeOK
      <3>. QED
        BY <2>4, <3>1
    <2>7. ASSUME NEW q \in Chats, ListReady(q)
          PROVE  Remembered'
      <3>1. /\ ready'[q] = Listed /\ UNCHANGED <<found, steady>>
            /\ \A p \in Chats \ {q} : at'[p] = at[p] /\ ready'[p] = ready[p]
        BY <1>0, <2>7 DEF ListReady, Quiet, GTypeOK
      <3>2. \A d \in steady[q] : idOf[d] \in Listed
        BY <1>0, ServingKnown DEF Remembered
      <3>. QED
        BY <2>4, <3>1, <3>2
    <2>8. ASSUME NEW q \in Chats, NEW id \in Ids, LookUp(q, id)
          PROVE  Remembered'
      <3>1. /\ at[q] = "lookup" /\ UNCHANGED <<at, steady>>
            /\ ready'[q] = ready[q] \ {id}
            /\ found'[q] = found[q] \cup ({engines[id]} \ {None})
            /\ \A p \in Chats \ {q} : found'[p] = found[p] /\ ready'[p] = ready[p]
        BY <1>0, <2>8 DEF LookUp, Quiet, GTypeOK
      <3>2. ASSUME found'[q] = {}, NEW d \in steady[q]
            PROVE  idOf[d] \in ready'[q]
        <4>1. engines[id] = None /\ found[q] = {}
          BY <3>1, <3>2
        <4>2. idOf[d] # id
          BY <1>0, <4>1, ServingKnown DEF Remembered
        <4>. QED
          BY <3>1, <4>1, <4>2 DEF Remembered
      <3>. QED
        BY <2>4, <3>1, <3>2
    <2>9. CASE \/ UNCHANGED gvars
               \/ \E c \in Daemons : RouteRestored(c)
               \/ \E e \in Engines : RegisterRemote(e) \/ UnregisterEngine(e)
      BY <2>3, <2>9 DEF RouteRestored, RegisterRemote, UnregisterEngine, Quiet, gvars, chat
    <2>. QED
      BY <1>2, <2>5, <2>6, <2>7, <2>8, <2>9 DEF GNext, ChatStep
  <1>. QED
    BY <1>1, <1>2

(* A request is refused only if no instance was ready and available all    *)
(* the time since it came.                                                 *)
THEOREM RefusedOnlyIfUnservedHolds == GSpec => RefusedOnlyIfUnserved
PROOF
  <1>1. GInit => Remembered
    BY DEF GInit, Remembered
  <1>2. Remembered /\ [GNext]_gvars => [\A q \in Chats : Refuse(q) => steady[q] = {}]_gvars
    BY DEF Remembered, Refuse
  <1>. QED
    BY <1>1, <1>2, RememberedStep, GInvariance, PTL DEF GSpec, RefusedOnlyIfUnserved
=============================================================================
