---------------------------- MODULE AgentProofs ----------------------------
(***************************************************************************)
(* Proofs about the node agent for any number of instances, requests,      *)
(* daemon goroutines and deploys.                                          *)
(***************************************************************************)
EXTENDS Agent, TLAPS

PC == {"idle", "load", "wait", "register", "fail", "unload",
       "deploy", "sweep", "return", "heal", "probe", "stop"}

LEMMA AfterType ==
  ASSUME NEW c \in Callers, NEW rest
  PROVE  After(c, rest) \in {"idle", "return", "heal", "sweep"}
  BY DEF After

LEMMA ReturnsType ==
  ASSUME NEW c \in Callers, NEW rest \in SUBSET Ids, TypeOK, Returns(c, rest)
  PROVE  /\ pc' \in [Callers -> PC]
         /\ opId' \in [Callers -> Ids \cup {None}]
         /\ (\A k \in Callers : Between(k) \/ opId[k] \in Ids)'
         /\ hand' \in [Callers -> Deploys \cup {None}]
         /\ want' \in [Callers -> Specs \cup {None}]
         /\ todo' \in [Callers -> SUBSET Ids]
  <1>1. After(c, rest) \in {"idle", "return", "heal", "sweep"}
    BY AfterType
  <1>2. /\ pc'   = [pc EXCEPT ![c] = After(c, rest)]
        /\ opId' = [opId EXCEPT ![c] = None]
    BY DEF Returns
  <1>3. (\A k \in Callers : Between(k) \/ opId[k] \in Ids)'
    BY <1>1, <1>2 DEF Between, TypeOK
  <1>4. pc' \in [Callers -> PC]
    BY <1>1, <1>2 DEF TypeOK, PC
  <1>5. QED
    BY <1>3, <1>4 DEF Returns, TypeOK

LEMMA ClaimType ==
  ASSUME NEW c \in Callers, NEW id \in Ids, NEW s \in Specs \cup {None},
         TypeOK, Claim(c, id, s)
  PROVE  TypeOK'
  <1>1. CASE Taken(id) /\ Returns(c, todo[c]) /\ cur' = [cur EXCEPT ![c] = None]
             /\ UNCHANGED <<instances, objects>>
    <2>1. todo[c] \in SUBSET Ids
      BY DEF TypeOK
    <2>2. QED
      BY <1>1, <2>1, ReturnsType DEF Claim, TypeOK, PC, objects
  <1>2. CASE ~Taken(id)
    <2>1. /\ instances[id] = None
          /\ UNCHANGED <<engines, proc, ext, evicted>>
          /\ pc' = [pc EXCEPT ![c] = "load"]
          /\ opId' = [opId EXCEPT ![c] = id]
          /\ want' = [want EXCEPT ![c] = None]
          /\ UNCHANGED <<hand, todo>>
      BY <1>2 DEF Claim, Taken
    <2>2. PICK d \in Deploys :
             /\ instances' = [instances EXCEPT ![id] = d]
             /\ idOf'  = [idOf EXCEPT ![d] = id]
             /\ spec'  = [spec EXCEPT ![d] = s]
             /\ state' = [state EXCEPT ![d] = "loading"]
             /\ eng'   = [eng EXCEPT ![d] = "new"]
             /\ ctx'   = [ctx EXCEPT ![d] = IF c \in Requests THEN "request"
                                                              ELSE "daemon"]
             /\ cur'   = [cur EXCEPT ![c] = d]
      BY <1>2 DEF Claim
    <2>3. /\ instances' \in [Ids -> Deploys \cup {None}]
          /\ idOf' \in [Deploys -> Ids \cup {None}]
          /\ spec' \in [Deploys -> Specs \cup {None}]
          /\ cur' \in [Callers -> Deploys \cup {None}]
      BY <2>2 DEF TypeOK
    <2>4. /\ state' \in [Deploys -> {"unborn", "loading", "ready", "error", "stopped"}]
          /\ eng' \in [Deploys -> {"none", "new", "loaded", "unloaded"}]
          /\ ctx' \in [Deploys -> {"none", "request", "daemon", "done"}]
      BY <2>2 DEF TypeOK
    <2>5. /\ pc' \in [Callers -> PC]
          /\ (\A k \in Callers : Between(k) \/ opId[k] \in Ids)'
      BY <2>1 DEF TypeOK, PC, Between
    <2>6. QED
      BY <2>1, <2>3, <2>4, <2>5 DEF TypeOK, PC
  <1>3. QED
    BY <1>1, <1>2 DEF Claim

LEMMA StopReturnsType ==
  ASSUME NEW c \in Callers, NEW id \in Ids, NEW s \in Specs \cup {None},
         NEW rest \in SUBSET Ids, TypeOK, StopReturns(c, id, s, rest)
  PROVE  /\ pc' \in [Callers -> PC]
         /\ opId' \in [Callers -> Ids \cup {None}]
         /\ (\A k \in Callers : Between(k) \/ opId[k] \in Ids)'
         /\ cur' \in [Callers -> Deploys \cup {None}]
         /\ hand' \in [Callers -> Deploys \cup {None}]
         /\ want' \in [Callers -> Specs \cup {None}]
         /\ todo' \in [Callers -> SUBSET Ids]
  <1>1. cur' \in [Callers -> Deploys \cup {None}]
    BY DEF StopReturns, TypeOK
  <1>2. CASE s = None /\ Returns(c, rest)
    BY <1>1, <1>2, ReturnsType
  <1>3. CASE s # None
    BY <1>1, <1>3 DEF StopReturns, TypeOK, PC, Between
  <1>4. QED
    BY <1>2, <1>3 DEF StopReturns

LEMMA RemoveType ==
  ASSUME NEW c \in Callers, NEW id \in Ids, NEW s \in Specs \cup {None},
         NEW rest \in SUBSET Ids, TypeOK, Remove(c, id, s, rest)
  PROVE  TypeOK'
  <1>1. CASE instances[id] = None
    <2>1. StopReturns(c, id, s, rest) /\ UNCHANGED <<registry, evicted, objects, proc, ext>>
      BY <1>1 DEF Remove
    <2>2. QED
      BY <2>1, StopReturnsType DEF TypeOK, PC, registry, objects
  <1>2. CASE instances[id] # None
    BY <1>2 DEF Remove, Withdraw, TypeOK, objects, Between
  <1>3. QED
    BY <1>1, <1>2

LEMMA UnloadType ==
  ASSUME NEW e, TypeOK, Unload(e)
  PROVE  /\ eng'  \in [Deploys -> {"none", "new", "loaded", "unloaded"}]
         /\ proc' \in [Deploys -> {"none", "running", "serving", "crashed", "killed"}]
  BY DEF Unload, TypeOK

LEMMA TypeStep == TypeOK /\ [Next]_vars => TypeOK'
  <1> SUFFICES ASSUME TypeOK, [Next]_vars PROVE TypeOK'
    OBVIOUS
  <1> USE DEF registry, objects, goroutines, Between
  <1>1. ASSUME NEW c \in Callers, Step(c) PROVE TypeOK'
    <2>1. CASE Redeploy(c)
      BY <2>1, ClaimType DEF Redeploy, TypeOK
    <2>2. CASE DropRedeploy(c)
      <3>1. todo[c] \in SUBSET Ids
        BY DEF TypeOK
      <3>2. QED
        BY <2>2, <3>1, ReturnsType DEF DropRedeploy, TypeOK, PC
    <2>3. CASE LoadStart(c)
      BY <2>3 DEF LoadStart, TypeOK
    <2>4. CASE StartFails(c)
      BY <2>4 DEF StartFails, TypeOK
    <2>5. CASE WaitAnswered(c)
      BY <2>5 DEF WaitAnswered, TypeOK
    <2>6. CASE WaitFails(c)
      BY <2>6, UnloadType DEF WaitFails, TypeOK
    <2>7. CASE Register(c)
      <3>1. todo[c] \in SUBSET Ids
        BY DEF TypeOK
      <3>2. QED
        BY <2>7, <3>1, ReturnsType DEF Register, TypeOK, PC
    <2>8. CASE Fail(c)
      <3>1. todo[c] \in SUBSET Ids
        BY DEF TypeOK
      <3>2. QED
        BY <2>8, <3>1, ReturnsType DEF Fail, MarkError, TypeOK, PC
    <2>9. CASE FinishStop(c)
      <3>1. /\ todo[c] \in SUBSET Ids
            /\ opId[c] \in Ids
            /\ want[c] \in Specs \cup {None}
        BY <2>9 DEF FinishStop, TypeOK
      <3>2. StopReturns(c, opId[c], want[c], todo[c]) /\ Unload(hand[c])
        BY <2>9 DEF FinishStop
      <3>3. state' \in [Deploys -> {"unborn", "loading", "ready", "error", "stopped"}]
        BY <2>9 DEF FinishStop, TypeOK
      <3>4. UNCHANGED <<registry, idOf, spec, ctx, ext, evicted>>
        BY <2>9 DEF FinishStop
      <3>5. QED
        BY <3>1, <3>2, <3>3, <3>4, StopReturnsType, UnloadType DEF TypeOK, PC
    <2>10. QED
      BY <1>1, <2>1, <2>2, <2>3, <2>4, <2>5, <2>6, <2>7, <2>8, <2>9 DEF Step
  <1>2. ASSUME NEW r \in Requests, RequestStep(r) PROVE TypeOK'
    <2>1. r \in Callers
      BY DEF Callers
    <2>2. ASSUME NEW id \in Ids, SweepNext(r, id) PROVE TypeOK'
      <3>1. todo[r] \ {id} \in SUBSET Ids
        BY <2>1 DEF TypeOK
      <3>2. QED
        BY <2>1, <2>2, <3>1, RemoveType DEF SweepNext
    <2>3. CASE HandlerReturns(r)
      BY <2>1, <2>3 DEF HandlerReturns, TypeOK
    <2>4. QED
      BY <1>2, <2>2, <2>3 DEF RequestStep
  <1>3. ASSUME HealStep PROVE TypeOK'
    <2>1. Healer \in Callers
      BY DEF Callers
    <2>2. CASE HealTick
      BY <2>1, <2>2 DEF HealTick, TypeOK
    <2>3. CASE HealHealthy
      <3>1. todo[Healer] \in SUBSET Ids
        BY <2>1 DEF TypeOK
      <3>2. QED
        BY <2>1, <2>3, <3>1, ReturnsType DEF HealHealthy, TypeOK, PC
    <2>4. CASE HealUnhealthy
      BY <2>1, <2>4 DEF HealUnhealthy, TypeOK
    <2>5. CASE HealStop
      <3>1. /\ todo[Healer] \in SUBSET Ids
            /\ opId[Healer] \in Ids
            /\ want[Healer] \in Specs \cup {None}
        BY <2>1, <2>5 DEF HealStop, TypeOK
      <3>2. QED
        BY <2>1, <2>5, <3>1, RemoveType DEF HealStop
    <2>6. ASSUME NEW id \in Ids, HealRead(id) PROVE TypeOK'
      <3>1. /\ cur' = [cur EXCEPT ![Healer] = instances[id]]
            /\ UNCHANGED <<registry, objects, proc, ext, evicted>>
        BY <2>6 DEF HealRead
      <3>2. cur' \in [Callers -> Deploys \cup {None}]
        BY <3>1 DEF TypeOK
      <3>3. CASE Returns(Healer, todo[Healer] \ {id})
        <4>1. todo[Healer] \ {id} \in SUBSET Ids
          BY <2>1 DEF TypeOK
        <4>2. QED
          BY <2>1, <3>1, <3>2, <3>3, <4>1, ReturnsType DEF TypeOK, PC
      <3>4. CASE instances[id] # None
        BY <2>1, <2>6, <3>1, <3>2, <3>4 DEF HealRead, TypeOK
      <3>5. QED
        BY <2>6, <3>3, <3>4 DEF HealRead
    <2>7. QED
      BY <1>3, <2>2, <2>3, <2>4, <2>5, <2>6 DEF HealStep
  <1>4. ASSUME Arrival PROVE TypeOK'
    <2>1. ASSUME NEW c \in Requests \cup Daemons, NEW id \in Ids, NEW s \in Specs,
                 HandleDeploy(c, id, s)
          PROVE  TypeOK'
      BY <2>1, ClaimType DEF HandleDeploy, Callers
    <2>2. ASSUME NEW r \in Requests, NEW id \in Ids, HandleStop(r, id)
          PROVE  TypeOK'
      BY <2>2, RemoveType DEF HandleStop, Callers
    <2>3. ASSUME NEW r \in Requests, NEW id \in Ids, NEW s \in Specs,
                 HandleRedeploy(r, id, s)
          PROVE  TypeOK'
      BY <2>3, RemoveType DEF HandleRedeploy, Callers
    <2>4. ASSUME NEW r \in Requests, NEW ids \in SUBSET Ids, HandleStopModel(r, ids)
          PROVE  TypeOK'
      BY <2>4 DEF HandleStopModel, TypeOK, Callers
    <2>5. ASSUME NEW r \in Requests, ClientGone(r) PROVE TypeOK'
      BY <2>5 DEF ClientGone, TypeOK, Callers
    <2>6. QED
      BY <1>4, <2>1, <2>2, <2>3, <2>4, <2>5 DEF Arrival
  <1>5. ASSUME Outside PROVE TypeOK'
    BY <1>5 DEF Outside, ProcServes, ProcCrashes, ContextKills, OutsideService, TypeOK
  <1>6. CASE UNCHANGED vars
    BY <1>6 DEF vars, TypeOK
  <1>7. QED
    BY <1>1, <1>2, <1>3, <1>4, <1>5, <1>6 DEF Next

(* Every variable keeps its type: the sanity of the model, and what the    *)
(* other proofs stand on.                                                  *)
THEOREM TypeCorrect == Spec => []TypeOK
  <1>1. Init => TypeOK
    BY DEF Init, TypeOK, Between
  <1>2. QED
    BY <1>1, TypeStep, PTL DEF Spec

-----------------------------------------------------------------------------
(* The inductive invariant.  The properties are not inductive alone: that  *)
(* a late Register cannot hurt rests on who may hold which object.         *)

(* A goroutine inside DeployInstance is alone in holding its instance,     *)
(* which nobody has marked ready or failed yet; before it registers the    *)
(* engine, the engine is loaded.                                           *)
Deployers ==
  \A c \in Callers : InFlight(c) =>
    /\ cur[c] \in Deploys /\ idOf[cur[c]] = opId[c]
    /\ state[cur[c]] \in {"loading", "stopped"}
    /\ pc[c] = "register" => eng[cur[c]] = "loaded"
    /\ \A b \in Callers : InFlight(b) /\ cur[b] = cur[c] => b = c

(* A goroutine inside StopInstance holds an instance that is not listed    *)
(* any more and an engine that is neither registered nor being loaded.     *)
Stoppers ==
  \A c \in Callers : pc[c] = "unload" =>
    /\ cur[c] \in Deploys /\ state[cur[c]] # "unborn"
    /\ \A id \in Ids : instances[id] # cur[c]
    /\ hand[c] # None => state[hand[c]] # "unborn"
    /\ \A b \in Callers : InFlight(b) => cur[b] # hand[c]
    /\ \A id \in Ids : engines[id] # None => engines[id] # hand[c]

ListedOK ==
  \A id \in Ids : instances[id] # None =>
    /\ idOf[instances[id]] = id
    /\ state[instances[id]] \in {"loading", "ready", "error"}

RegisteredOK ==
  \A id \in Ids : engines[id] # None =>
    /\ idOf[engines[id]] = id
    /\ state[engines[id]] # "unborn"
    /\ eng[engines[id]] = "loaded"
    /\ \A c \in Callers : InFlight(c) => cur[c] # engines[id]

IInv == /\ TypeOK /\ Deployers /\ Stoppers /\ ListedOK /\ RegisteredOK
        /\ ReadyHasEngine /\ OnlyEvictionSplitsTheMaps /\ LoadingHasADeployer
-----------------------------------------------------------------------------
(* Steps of c that touch neither the registry nor the objects the          *)
(* invariant speaks of, and take c into no new deploy or stop.             *)
LEMMA QuietStep ==
  ASSUME IInv, TypeOK', NEW c \in Callers,
         UNCHANGED <<instances, engines, idOf, state, eng, evicted>>,
         \A k \in Callers \ {c} : /\ pc'[k] = pc[k] /\ cur'[k] = cur[k]
                                   /\ hand'[k] = hand[k] /\ opId'[k] = opId[k],
         \/ ~InFlight(c) /\ pc'[c] \notin {"load", "wait", "register", "fail", "unload"}
         \/ InFlight(c) /\ pc'[c] = "fail" /\ cur'[c] = cur[c] /\ opId'[c] = opId[c]
  PROVE  IInv'
  <1>1. \A k \in Callers : InFlight(k)' <=> InFlight(k)
    BY DEF InFlight
  <1>2. \A k \in Callers : InFlight(k) =>
           cur'[k] = cur[k] /\ opId'[k] = opId[k] /\ (pc'[k] = "register" => pc[k] = "register")
    BY DEF InFlight
  <1>3. \A k \in Callers : pc'[k] = "unload" =>
           pc[k] = "unload" /\ cur'[k] = cur[k] /\ hand'[k] = hand[k]
    BY DEF InFlight
  <1>4. Deployers'
    BY <1>1, <1>2 DEF IInv, Deployers
  <1>5. Stoppers'
    BY <1>1, <1>2, <1>3 DEF IInv, Stoppers
  <1>6. ListedOK' /\ RegisteredOK' /\ ReadyHasEngine'
    BY <1>1, <1>2 DEF IInv, ListedOK, RegisteredOK, ReadyHasEngine
  <1>7. OnlyEvictionSplitsTheMaps' /\ LoadingHasADeployer'
    BY <1>1, <1>2 DEF IInv, OnlyEvictionSplitsTheMaps, LoadingHasADeployer
  <1>8. QED
    BY <1>4, <1>5, <1>6, <1>7 DEF IInv

(* A call that returns leaves every other goroutine alone. *)
LEMMA ReturnsFrame ==
  ASSUME TypeOK, NEW c \in Callers, NEW rest, Returns(c, rest)
  PROVE  /\ pc'[c] \in {"idle", "return", "heal", "sweep"}
         /\ \A k \in Callers \ {c} : /\ pc'[k] = pc[k] /\ hand'[k] = hand[k]
                                       /\ opId'[k] = opId[k]
  BY AfterType DEF Returns, TypeOK
LEMMA ClaimInv ==
  ASSUME IInv, TypeOK', NEW c \in Callers, NEW id \in Ids, NEW s,
         ~InFlight(c), pc[c] # "unload", Claim(c, id, s)
  PROVE  IInv'
  <1>1. CASE Taken(id)
    <2>1. /\ Returns(c, todo[c])
          /\ cur' = [cur EXCEPT ![c] = None]
          /\ UNCHANGED <<instances, engines, objects, evicted>>
      BY <1>1 DEF Claim
    <2>2. QED
      BY <2>1, ReturnsFrame, QuietStep DEF IInv, objects, TypeOK
  <1>2. CASE ~Taken(id)
    <2>1. /\ instances[id] = None
          /\ UNCHANGED <<engines, evicted, hand>>
          /\ pc' = [pc EXCEPT ![c] = "load"]
          /\ opId' = [opId EXCEPT ![c] = id]
      BY <1>2 DEF Claim, Taken
    <2>2. PICK d \in Deploys :
             /\ state[d] = "unborn"
             /\ instances' = [instances EXCEPT ![id] = d]
             /\ idOf'  = [idOf EXCEPT ![d] = id]
             /\ state' = [state EXCEPT ![d] = "loading"]
             /\ eng'   = [eng EXCEPT ![d] = "new"]
             /\ cur'   = [cur EXCEPT ![c] = d]
      BY <1>2 DEF Claim
    <2>3. d # None
      BY AgentAssumption
    <2>4. \A k \in Callers : InFlight(k) => k # c /\ cur[k] # d
      BY <2>2 DEF IInv, Deployers
    <2>5. \A k \in Callers : InFlight(k)' <=> InFlight(k) \/ k = c
      BY <2>1 DEF InFlight, IInv, TypeOK
    <2>6. \A k \in Callers \ {c} : cur'[k] = cur[k] /\ pc'[k] = pc[k] /\ opId'[k] = opId[k]
      BY <2>1, <2>2 DEF IInv, TypeOK
    <2>7. cur'[c] = d /\ pc'[c] = "load" /\ opId'[c] = id
      BY <2>1, <2>2 DEF IInv, TypeOK
    <2>8. \A e \in Deploys \ {d} : /\ idOf'[e] = idOf[e] /\ state'[e] = state[e]
                                   /\ eng'[e] = eng[e]
      BY <2>2 DEF IInv, TypeOK
    <2>9. idOf'[d] = id /\ state'[d] = "loading"
      BY <2>2 DEF IInv, TypeOK
    <2>10. /\ instances'[id] = d
           /\ \A i \in Ids \ {id} : instances'[i] = instances[i]
      BY <2>2 DEF IInv, TypeOK
    <2>11. \A i \in Ids : instances[i] # d /\ engines[i] # d
      BY <2>2, <2>3 DEF IInv, ListedOK, RegisteredOK
    <2>12. Deployers'
      BY <2>4, <2>5, <2>6, <2>7, <2>8, <2>9 DEF IInv, Deployers, InFlight
    <2>13. Stoppers'
      <3> SUFFICES ASSUME NEW k \in Callers, pc'[k] = "unload"
                   PROVE  /\ cur'[k] \in Deploys /\ state'[cur'[k]] # "unborn"
                          /\ \A i \in Ids : instances'[i] # cur'[k]
                          /\ hand'[k] # None => state'[hand'[k]] # "unborn"
                          /\ \A b \in Callers : InFlight(b)' => cur'[b] # hand'[k]
                          /\ \A i \in Ids : engines'[i] # None => engines'[i] # hand'[k]
        BY DEF Stoppers
      <3>1. k # c /\ pc[k] = "unload" /\ cur'[k] = cur[k] /\ hand'[k] = hand[k]
        BY <2>1, <2>6, <2>7
      <3>2. /\ cur[k] \in Deploys /\ state[cur[k]] # "unborn"
            /\ \A i \in Ids : instances[i] # cur[k]
            /\ hand[k] # None => state[hand[k]] # "unborn"
            /\ \A b \in Callers : InFlight(b) => cur[b] # hand[k]
            /\ \A i \in Ids : engines[i] # None => engines[i] # hand[k]
        BY <3>1 DEF IInv, Stoppers
      <3>3. cur[k] # d /\ hand[k] # d
        BY <2>2, <2>3, <3>2
      <3>4. hand[k] \in Deploys \cup {None}
        BY DEF IInv, TypeOK
      <3>5. QED
        BY <2>1, <2>5, <2>6, <2>7, <2>8, <2>10, <3>1, <3>2, <3>3, <3>4
    <2>14. ListedOK'
      BY <2>8, <2>9, <2>10, <2>11 DEF IInv, ListedOK, TypeOK
    <2>15. RegisteredOK'
      BY <2>1, <2>5, <2>6, <2>7, <2>8, <2>11 DEF IInv, RegisteredOK, TypeOK
    <2>16. ReadyHasEngine'
      BY <2>1, <2>8, <2>9, <2>10, <2>11 DEF IInv, ReadyHasEngine, TypeOK
    <2>17. OnlyEvictionSplitsTheMaps'
      <3>1. \A k \in Callers : InFlight(k) => opId[k] \in Ids /\ cur[k] # None
        <4>1. \A k \in Callers : InFlight(k) => opId[k] \in Ids
          BY DEF IInv, TypeOK, Between, InFlight
        <4>2. \A k \in Callers : InFlight(k) => cur[k] \in Deploys
          BY DEF IInv, Deployers
        <4>3. QED
          BY <4>1, <4>2, AgentAssumption
      <3>2. \A k \in Callers : InFlight(k)' /\ cur'[k] \notin evicted'
                                => instances'[opId'[k]] = cur'[k]
        <4> SUFFICES ASSUME NEW k \in Callers, InFlight(k)', cur'[k] \notin evicted'
                     PROVE  instances'[opId'[k]] = cur'[k]
          OBVIOUS
        <4>1. CASE k = c
          BY <2>7, <2>10, <4>1
        <4>2. CASE k # c
          <5>1. InFlight(k) /\ cur'[k] = cur[k] /\ opId'[k] = opId[k]
            BY <2>5, <2>6, <4>2
          <5>2. instances[opId[k]] = cur[k]
            BY <2>1, <5>1 DEF IInv, OnlyEvictionSplitsTheMaps
          <5>3. QED
            BY <2>1, <2>10, <3>1, <5>1, <5>2
        <4>3. QED
          BY <4>1, <4>2
      <3>3. \A i \in Ids : engines'[i] # None /\ engines'[i] \notin evicted'
                               => instances'[i] = engines'[i]
        BY <2>1, <2>10 DEF IInv, OnlyEvictionSplitsTheMaps
      <3>4. QED
        BY <3>2, <3>3 DEF OnlyEvictionSplitsTheMaps
    <2>18. LoadingHasADeployer'
      BY <2>4, <2>5, <2>6, <2>7, <2>8, <2>9, <2>10 DEF IInv, LoadingHasADeployer, TypeOK
    <2>19. QED
      BY <2>12, <2>13, <2>14, <2>15, <2>16, <2>17, <2>18 DEF IInv
  <1>3. QED
    BY <1>1, <1>2

(* The steps inside Engine.Load: they touch the engine of the goroutine's  *)
(* own instance only.                                                      *)
LEMMA LoadInv ==
  ASSUME IInv, TypeOK', NEW c \in Callers,
         LoadStart(c) \/ WaitAnswered(c) \/ WaitFails(c)
  PROVE  IInv'
  <1>1. /\ InFlight(c)
        /\ UNCHANGED <<instances, engines, idOf, state, evicted, cur, hand, opId>>
    BY DEF LoadStart, WaitAnswered, WaitFails, InFlight, registry
  <1>2. /\ pc'[c] \in {"wait", "register", "fail"}
        /\ \A k \in Callers \ {c} : pc'[k] = pc[k]
    BY DEF LoadStart, WaitAnswered, WaitFails, IInv, TypeOK
  <1>3. \A d \in Deploys \ {cur[c]} : eng'[d] = eng[d]
    BY DEF LoadStart, WaitAnswered, WaitFails, Unload, IInv, TypeOK
  <1>4. cur[c] \in Deploys
    BY <1>1 DEF IInv, Deployers
  <1>5. pc'[c] = "register" => eng'[cur[c]] = "loaded"
    BY <1>4 DEF LoadStart, WaitAnswered, WaitFails, IInv, TypeOK, AwaitsHTTP
  <1>6. \A k \in Callers : InFlight(k)' <=> InFlight(k)
    BY <1>1, <1>2 DEF InFlight
  <1>7. Deployers'
    BY <1>1, <1>2, <1>3, <1>5, <1>6 DEF IInv, Deployers
  <1>8. Stoppers'
    BY <1>1, <1>2, <1>6 DEF IInv, Stoppers, InFlight
  <1>9. ListedOK' /\ ReadyHasEngine'
    BY <1>1 DEF IInv, ListedOK, ReadyHasEngine
  <1>10. RegisteredOK'
    BY <1>1, <1>3, <1>6 DEF IInv, RegisteredOK, TypeOK
  <1>11. OnlyEvictionSplitsTheMaps' /\ LoadingHasADeployer'
    BY <1>1, <1>6 DEF IInv, OnlyEvictionSplitsTheMaps, LoadingHasADeployer
  <1>12. QED
    BY <1>7, <1>8, <1>9, <1>10, <1>11 DEF IInv

LEMMA RegisterInv ==
  ASSUME IInv, TypeOK', NEW c \in Callers, Register(c)
  PROVE  IInv'
  <1> DEFINE d == cur[c]
             i == opId[c]
  <1>1. /\ pc[c] = "register" /\ InFlight(c)
        /\ Returns(c, todo[c])
        /\ engines' = [engines EXCEPT ![i] = d]
        /\ state' = [state EXCEPT ![d] = "ready"]
        /\ cur' = [cur EXCEPT ![c] = IF c \in Requests THEN @ ELSE None]
        /\ UNCHANGED <<instances, idOf, eng, evicted>>
    BY DEF Register, InFlight
  <1>2. /\ d \in Deploys /\ idOf[d] = i /\ eng[d] = "loaded"
        /\ \A b \in Callers \ {c} : InFlight(b) => cur[b] # d
    BY <1>1 DEF IInv, Deployers
  <1>3. i \in Ids
    BY <1>1 DEF IInv, TypeOK, Between
  <1>4. d # None
    BY <1>2, AgentAssumption
  <1>5. /\ engines'[i] = d
        /\ \A k \in Ids \ {i} : engines'[k] = engines[k]
    BY <1>1, <1>3 DEF IInv, TypeOK
  <1>6. /\ state'[d] = "ready"
        /\ \A e \in Deploys \ {d} : state'[e] = state[e]
    BY <1>1, <1>2 DEF IInv, TypeOK
  <1>7. \A k \in Callers : InFlight(k)' <=> InFlight(k) /\ k # c
    BY <1>1, ReturnsFrame DEF InFlight, IInv
  <1>8. \A k \in Callers \ {c} : /\ pc'[k] = pc[k] /\ cur'[k] = cur[k]
                                 /\ hand'[k] = hand[k] /\ opId'[k] = opId[k]
    BY <1>1, ReturnsFrame DEF IInv, TypeOK
  <1>9. pc'[c] # "unload"
    BY <1>1, ReturnsFrame DEF IInv
  <1>10. \A k \in Ids : instances[k] = d => k = i
    BY <1>2, <1>4 DEF IInv, ListedOK
  <1>11. Deployers'
    BY <1>1, <1>2, <1>6, <1>7, <1>8 DEF IInv, Deployers
  <1>12. Stoppers'
    BY <1>1, <1>2, <1>5, <1>6, <1>7, <1>8, <1>9 DEF IInv, Stoppers, TypeOK
  <1>13. ListedOK'
    BY <1>1, <1>6 DEF IInv, ListedOK, TypeOK
  <1>14. RegisteredOK'
    BY <1>1, <1>2, <1>5, <1>6, <1>7, <1>8 DEF IInv, RegisteredOK, TypeOK
  <1>15. ReadyHasEngine'
    BY <1>1, <1>4, <1>5, <1>6, <1>10 DEF IInv, ReadyHasEngine, TypeOK
  <1>16. OnlyEvictionSplitsTheMaps'
    BY <1>1, <1>5, <1>7, <1>8 DEF IInv, OnlyEvictionSplitsTheMaps
  <1>17. LoadingHasADeployer'
    BY <1>1, <1>6, <1>7, <1>8 DEF IInv, LoadingHasADeployer, TypeOK
  <1>18. QED
    BY <1>11, <1>12, <1>13, <1>14, <1>15, <1>16, <1>17 DEF IInv

LEMMA FailInv ==
  ASSUME IInv, TypeOK', NEW c \in Callers, Fail(c)
  PROVE  IInv'
  <1> DEFINE d == cur[c]
  <1>1. /\ InFlight(c)
        /\ Returns(c, todo[c])
        /\ state' = [state EXCEPT ![d] = "error"]
        /\ cur' = [cur EXCEPT ![c] = IF c \in Requests THEN @ ELSE None]
        /\ UNCHANGED <<instances, engines, idOf, eng, evicted>>
    BY DEF Fail, MarkError, InFlight, registry
  <1>2. /\ d \in Deploys
        /\ \A b \in Callers \ {c} : InFlight(b) => cur[b] # d
    BY <1>1 DEF IInv, Deployers
  <1>3. /\ state'[d] = "error"
        /\ \A e \in Deploys \ {d} : state'[e] = state[e]
    BY <1>1, <1>2 DEF IInv, TypeOK
  <1>4. \A k \in Callers : InFlight(k)' <=> InFlight(k) /\ k # c
    BY <1>1, ReturnsFrame DEF InFlight, IInv
  <1>5. \A k \in Callers \ {c} : /\ pc'[k] = pc[k] /\ cur'[k] = cur[k]
                                 /\ hand'[k] = hand[k] /\ opId'[k] = opId[k]
    BY <1>1, ReturnsFrame DEF IInv, TypeOK
  <1>6. pc'[c] # "unload"
    BY <1>1, ReturnsFrame DEF IInv
  <1>7. Deployers'
    BY <1>1, <1>2, <1>3, <1>4, <1>5 DEF IInv, Deployers
  <1>8. Stoppers'
    BY <1>1, <1>3, <1>4, <1>5, <1>6 DEF IInv, Stoppers, TypeOK
  <1>9. ListedOK'
    BY <1>1, <1>3 DEF IInv, ListedOK, TypeOK
  <1>10. RegisteredOK'
    BY <1>1, <1>3, <1>4, <1>5 DEF IInv, RegisteredOK, TypeOK
  <1>11. ReadyHasEngine'
    BY <1>1, <1>3 DEF IInv, ReadyHasEngine, TypeOK
  <1>12. OnlyEvictionSplitsTheMaps'
    BY <1>1, <1>4, <1>5 DEF IInv, OnlyEvictionSplitsTheMaps
  <1>13. LoadingHasADeployer'
    BY <1>1, <1>3, <1>4, <1>5 DEF IInv, LoadingHasADeployer, TypeOK
  <1>14. QED
    BY <1>7, <1>8, <1>9, <1>10, <1>11, <1>12, <1>13 DEF IInv
LEMMA RemoveInv ==
  ASSUME IInv, TypeOK', NEW c \in Callers, NEW id \in Ids, NEW s, NEW rest,
         ~InFlight(c), pc[c] # "unload", Remove(c, id, s, rest)
  PROVE  IInv'
  <1>1. CASE instances[id] = None
    <2>1. /\ StopReturns(c, id, s, rest)
          /\ UNCHANGED <<instances, engines, objects, evicted>>
      BY <1>1 DEF Remove, registry
    <2>2. /\ pc'[c] \notin {"load", "wait", "register", "fail", "unload"}
          /\ \A k \in Callers \ {c} : /\ pc'[k] = pc[k] /\ hand'[k] = hand[k]
                                      /\ opId'[k] = opId[k] /\ cur'[k] = cur[k]
      <3>1. cur' = [cur EXCEPT ![c] = None]
        BY <2>1 DEF StopReturns
      <3>2. CASE Returns(c, rest)
        <4>1. TypeOK
          BY DEF IInv
        <4>2. \A k \in Callers \ {c} : cur'[k] = cur[k]
          BY <3>1, <4>1 DEF TypeOK
        <4>3. QED
          BY <3>2, <4>1, <4>2, ReturnsFrame
      <3>3. CASE s # None
        BY <2>1, <3>3 DEF StopReturns, IInv, TypeOK
      <3>4. QED
        BY <2>1, <3>2, <3>3 DEF StopReturns
    <2>3. QED
      BY <2>1, <2>2, QuietStep DEF objects
  <1>2. CASE instances[id] # None
    <2> DEFINE d == instances[id]
    <2>1. /\ pc'   = [pc EXCEPT ![c] = "unload"]
          /\ opId' = [opId EXCEPT ![c] = id]
          /\ cur'  = [cur EXCEPT ![c] = d]
          /\ hand' = [hand EXCEPT ![c] = engines[id]]
          /\ instances' = [instances EXCEPT ![id] = None]
          /\ engines'   = [engines EXCEPT ![id] = None]
          /\ evicted' = IF state[d] = "loading" THEN evicted \cup {d} ELSE evicted
          /\ UNCHANGED <<idOf, state, eng>>
      BY <1>2 DEF Remove, Withdraw, objects
    <2>2. /\ pc'[c] = "unload" /\ cur'[c] = d /\ hand'[c] = engines[id]
          /\ \A k \in Callers \ {c} : /\ pc'[k] = pc[k] /\ cur'[k] = cur[k]
                                      /\ hand'[k] = hand[k] /\ opId'[k] = opId[k]
      BY <2>1 DEF IInv, TypeOK
    <2>3. \A k \in Callers : InFlight(k)' <=> InFlight(k)
      BY <2>2 DEF InFlight
    <2>4. \A k \in Callers : InFlight(k) => /\ k # c /\ cur'[k] = cur[k] /\ pc'[k] = pc[k]
                                            /\ opId'[k] = opId[k] /\ cur[k] \in Deploys
                                            /\ opId[k] \in Ids /\ idOf[cur[k]] = opId[k]
      <3>1. \A k \in Callers : InFlight(k) => opId[k] \in Ids
        BY DEF IInv, TypeOK, Between, InFlight
      <3>2. QED
        BY <2>2, <3>1 DEF IInv, Deployers
    <2>5. /\ instances'[id] = None /\ engines'[id] = None
          /\ \A i \in Ids \ {id} : instances'[i] = instances[i] /\ engines'[i] = engines[i]
      BY <2>1 DEF IInv, TypeOK
    <2>6. /\ d \in Deploys /\ idOf[d] = id /\ state[d] # "unborn"
          /\ \A i \in Ids \ {id} : instances[i] # d
      BY <1>2 DEF IInv, TypeOK, ListedOK
    <2>7. engines[id] # None =>
            /\ state[engines[id]] # "unborn"
            /\ \A k \in Callers : InFlight(k) => cur[k] # engines[id]
            /\ \A i \in Ids \ {id} : engines[i] # engines[id]
      BY DEF IInv, RegisteredOK
    <2>8. None \notin Deploys
      BY AgentAssumption
    <2>9. Deployers'
      BY <2>1, <2>3, <2>4 DEF IInv, Deployers
    <2>10. Stoppers'
      <3> SUFFICES ASSUME NEW k \in Callers, pc'[k] = "unload"
                   PROVE  /\ cur'[k] \in Deploys /\ state'[cur'[k]] # "unborn"
                          /\ \A i \in Ids : instances'[i] # cur'[k]
                          /\ hand'[k] # None => state'[hand'[k]] # "unborn"
                          /\ \A b \in Callers : InFlight(b)' => cur'[b] # hand'[k]
                          /\ \A i \in Ids : engines'[i] # None => engines'[i] # hand'[k]
        BY DEF Stoppers
      <3>1. CASE k = c
        <4>1. cur'[k] = d /\ hand'[k] = engines[id]
          BY <2>2, <3>1
        <4>2. d # None
          BY <1>2
        <4>3. /\ cur'[k] \in Deploys /\ state'[cur'[k]] # "unborn"
              /\ \A i \in Ids : instances'[i] # cur'[k]
          BY <2>1, <2>5, <2>6, <4>1, <4>2
        <4>4. hand'[k] # None => state'[hand'[k]] # "unborn"
          BY <2>1, <2>7, <4>1
        <4>5. \A b \in Callers : InFlight(b)' => cur'[b] # hand'[k]
          BY <2>3, <2>4, <2>7, <2>8, <4>1
        <4>6. \A i \in Ids : engines'[i] # None => engines'[i] # hand'[k]
          BY <2>5, <2>7, <4>1
        <4>7. QED
          BY <4>3, <4>4, <4>5, <4>6
      <3>2. CASE k # c
        <4>1. pc[k] = "unload" /\ cur'[k] = cur[k] /\ hand'[k] = hand[k]
          BY <2>2, <3>2
        <4>2. /\ cur[k] \in Deploys /\ state[cur[k]] # "unborn"
              /\ \A i \in Ids : instances[i] # cur[k]
              /\ hand[k] # None => state[hand[k]] # "unborn"
              /\ \A b \in Callers : InFlight(b) => cur[b] # hand[k]
              /\ \A i \in Ids : engines[i] # None => engines[i] # hand[k]
          BY <4>1 DEF IInv, Stoppers
        <4>3. QED
          BY <2>1, <2>3, <2>4, <2>5, <2>8, <4>1, <4>2
      <3>3. QED
        BY <3>1, <3>2
    <2>11. ListedOK' /\ ReadyHasEngine'
      BY <2>1, <2>5 DEF IInv, ListedOK, ReadyHasEngine
    <2>12. RegisteredOK'
      BY <2>1, <2>3, <2>4, <2>5 DEF IInv, RegisteredOK
    <2>13. OnlyEvictionSplitsTheMaps'
      <3>1. ASSUME NEW k \in Callers, InFlight(k)', cur'[k] \notin evicted'
            PROVE  instances'[opId'[k]] = cur'[k]
        <4>1. InFlight(k) /\ cur[k] \notin evicted
          BY <2>1, <2>3, <2>4, <3>1
        <4>2. instances[opId[k]] = cur[k]
          BY <4>1 DEF IInv, OnlyEvictionSplitsTheMaps
        <4>3. state[cur[k]] = "loading"
          BY <2>4, <2>8, <4>1, <4>2 DEF IInv, Deployers, ListedOK
        <4>4. opId[k] # id
          BY <2>1, <2>3, <2>4, <3>1, <4>2, <4>3
        <4>5. QED
          BY <2>4, <2>5, <4>1, <4>2, <4>4
      <3>2. ASSUME NEW i \in Ids, engines'[i] # None, engines'[i] \notin evicted'
            PROVE  instances'[i] = engines'[i]
        <4>1. engines[i] \notin evicted /\ i # id /\ engines'[i] = engines[i]
          BY <2>1, <2>5, <3>2
        <4>2. QED
          BY <2>5, <3>2, <4>1 DEF IInv, OnlyEvictionSplitsTheMaps
      <3>3. QED
        BY <3>1, <3>2 DEF OnlyEvictionSplitsTheMaps
    <2>14. LoadingHasADeployer'
      BY <2>1, <2>3, <2>4, <2>5 DEF IInv, LoadingHasADeployer
    <2>15. QED
      BY <2>9, <2>10, <2>11, <2>12, <2>13, <2>14 DEF IInv
  <1>3. QED
    BY <1>1, <1>2

LEMMA FinishStopInv ==
  ASSUME IInv, TypeOK', NEW c \in Callers, FinishStop(c)
  PROVE  IInv'
  <1> DEFINE d == cur[c]
             e == hand[c]
  <1>1. /\ pc[c] = "unload"
        /\ eng' = [x \in Deploys |-> IF x = e THEN "unloaded" ELSE eng[x]]
        /\ state' = [state EXCEPT ![d] = "stopped"]
        /\ StopReturns(c, opId[c], want[c], todo[c])
        /\ UNCHANGED <<instances, engines, idOf, evicted>>
    BY DEF FinishStop, Unload, registry
  <1>2. /\ d \in Deploys
        /\ \A i \in Ids : instances[i] # d
        /\ \A b \in Callers : InFlight(b) => cur[b] # e
        /\ \A i \in Ids : engines[i] # None => engines[i] # e
    BY <1>1 DEF IInv, Stoppers
  <1>3. /\ pc'[c] \notin {"load", "wait", "register", "fail", "unload"}
        /\ \A k \in Callers \ {c} : /\ pc'[k] = pc[k] /\ hand'[k] = hand[k]
                                    /\ opId'[k] = opId[k] /\ cur'[k] = cur[k]
    <2>1. cur' = [cur EXCEPT ![c] = None]
      BY <1>1 DEF StopReturns
    <2>2. CASE Returns(c, todo[c])
      BY <2>1, <2>2, ReturnsFrame DEF IInv, TypeOK
    <2>3. CASE want[c] # None
      BY <1>1, <2>1, <2>3 DEF StopReturns, IInv, TypeOK
    <2>4. QED
      BY <1>1, <2>2, <2>3 DEF StopReturns
  <1>4. /\ state'[d] = "stopped"
        /\ \A x \in Deploys \ {d} : state'[x] = state[x]
    BY <1>1, <1>2 DEF IInv, TypeOK
  <1>5. \A x \in Deploys : x # e => eng'[x] = eng[x]
    BY <1>1
  <1>6. ~InFlight(c) /\ \A k \in Callers : InFlight(k)' <=> InFlight(k)
    BY <1>1, <1>3 DEF InFlight
  <1>7. \A k \in Callers : InFlight(k) => k # c
    BY <1>6
  <1>8. Deployers'
    BY <1>1, <1>2, <1>3, <1>4, <1>5, <1>6, <1>7 DEF IInv, Deployers
  <1>9. Stoppers'
    BY <1>1, <1>3, <1>4, <1>6, <1>7 DEF IInv, Stoppers, TypeOK
  <1>10. ListedOK' /\ ReadyHasEngine'
    BY <1>1, <1>2, <1>4 DEF IInv, ListedOK, ReadyHasEngine, TypeOK
  <1>11. RegisteredOK'
    BY <1>1, <1>2, <1>3, <1>4, <1>5, <1>6, <1>7 DEF IInv, RegisteredOK, TypeOK
  <1>12. OnlyEvictionSplitsTheMaps'
    BY <1>1, <1>3, <1>6, <1>7 DEF IInv, OnlyEvictionSplitsTheMaps
  <1>13. LoadingHasADeployer'
    BY <1>1, <1>2, <1>3, <1>4, <1>6, <1>7 DEF IInv, LoadingHasADeployer, TypeOK
  <1>14. QED
    BY <1>8, <1>9, <1>10, <1>11, <1>12, <1>13 DEF IInv

LEMMA InitInv == Init => IInv
  <1> SUFFICES ASSUME Init PROVE IInv
    OBVIOUS
  <1>1. TypeOK
    BY DEF Init, TypeOK, Between
  <1>2. \A c \in Callers : pc[c] = "idle"
    BY DEF Init
  <1>3. \A id \in Ids : instances[id] = None /\ engines[id] = None
    BY DEF Init
  <1>4. QED
    BY <1>1, <1>2, <1>3 DEF IInv, Deployers, Stoppers, ListedOK, RegisteredOK,
       ReadyHasEngine, OnlyEvictionSplitsTheMaps, LoadingHasADeployer, InFlight

(* Steps that move no goroutine and touch nothing the invariant speaks of. *)
LEMMA StillStep ==
  ASSUME IInv, TypeOK',
         UNCHANGED <<instances, engines, idOf, state, eng, evicted,
                     pc, opId, cur, hand>>
  PROVE  IInv'
  BY DEF IInv, Deployers, Stoppers, ListedOK, RegisteredOK, ReadyHasEngine,
         OnlyEvictionSplitsTheMaps, LoadingHasADeployer, InFlight

LEMMA InvStep == IInv /\ [Next]_vars => IInv'
  <1> SUFFICES ASSUME IInv, [Next]_vars PROVE IInv'
    OBVIOUS
  <1>1. TypeOK /\ TypeOK'
    BY TypeStep DEF IInv
  <1>2. ASSUME NEW c \in Callers, Step(c) PROVE IInv'
    <2>1. CASE Redeploy(c)
      <3>1. opId[c] \in Ids /\ ~InFlight(c) /\ pc[c] # "unload"
        BY <1>1, <2>1 DEF Redeploy, TypeOK, Between, InFlight
      <3>2. QED
        BY <1>1, <2>1, <3>1, ClaimInv DEF Redeploy
    <2>2. CASE DropRedeploy(c)
      <3>1. /\ Returns(c, todo[c]) /\ cur' = [cur EXCEPT ![c] = None]
            /\ UNCHANGED <<instances, engines, idOf, state, eng, evicted>>
            /\ ~InFlight(c)
        BY <2>2 DEF DropRedeploy, registry, objects, InFlight
      <3>2. \A k \in Callers \ {c} : cur'[k] = cur[k]
        BY <1>1, <3>1 DEF TypeOK
      <3>3. QED
        BY <1>1, <3>1, <3>2, ReturnsFrame, QuietStep
    <2>3. CASE LoadStart(c) \/ WaitAnswered(c) \/ WaitFails(c)
      BY <1>1, <2>3, LoadInv
    <2>4. CASE StartFails(c)
      <3>1. /\ InFlight(c) /\ pc' = [pc EXCEPT ![c] = "fail"]
            /\ UNCHANGED <<instances, engines, idOf, state, eng, evicted,
                           cur, hand, opId>>
        BY <2>4 DEF StartFails, registry, objects, InFlight
      <3>2. pc'[c] = "fail" /\ \A k \in Callers \ {c} : pc'[k] = pc[k]
        BY <1>1, <3>1 DEF TypeOK
      <3>3. QED
        BY <1>1, <3>1, <3>2, QuietStep
    <2>5. CASE Register(c)
      BY <1>1, <2>5, RegisterInv
    <2>6. CASE Fail(c)
      BY <1>1, <2>6, FailInv
    <2>7. CASE FinishStop(c)
      BY <1>1, <2>7, FinishStopInv
    <2>8. QED
      BY <1>2, <2>1, <2>2, <2>3, <2>4, <2>5, <2>6, <2>7 DEF Step
  <1>3. ASSUME NEW r \in Requests, RequestStep(r) PROVE IInv'
    <2>1. r \in Callers
      BY DEF Callers
    <2>2. ASSUME NEW id \in Ids, SweepNext(r, id) PROVE IInv'
      BY <1>1, <2>1, <2>2, RemoveInv DEF SweepNext, InFlight
    <2>3. CASE HandlerReturns(r)
      <3>1. /\ ~InFlight(r) /\ pc' = [pc EXCEPT ![r] = "idle"]
            /\ cur' = [cur EXCEPT ![r] = None]
            /\ UNCHANGED <<instances, engines, idOf, state, eng, evicted, hand, opId>>
        BY <2>3 DEF HandlerReturns, registry, InFlight
      <3>2. /\ pc'[r] = "idle"
            /\ \A k \in Callers \ {r} : pc'[k] = pc[k] /\ cur'[k] = cur[k]
        BY <1>1, <2>1, <3>1 DEF TypeOK
      <3>3. QED
        BY <1>1, <2>1, <3>1, <3>2, QuietStep
    <2>4. QED
      BY <1>3, <2>2, <2>3 DEF RequestStep
  <1>4. ASSUME HealStep PROVE IInv'
    <2>1. Healer \in Callers
      BY DEF Callers
    <2>2. CASE HealTick \/ HealUnhealthy
      <3>1. /\ ~InFlight(Healer)
            /\ UNCHANGED <<instances, engines, idOf, state, eng, evicted, cur, hand, opId>>
            /\ \/ pc' = [pc EXCEPT ![Healer] = "heal"]
               \/ pc' = [pc EXCEPT ![Healer] = "stop"]
        BY <2>2 DEF HealTick, HealUnhealthy, registry, objects, InFlight
      <3>2. /\ pc'[Healer] \in {"heal", "stop"}
            /\ \A k \in Callers \ {Healer} : pc'[k] = pc[k]
        BY <1>1, <2>1, <3>1 DEF TypeOK
      <3>3. QED
        BY <1>1, <2>1, <3>1, <3>2, QuietStep
    <2>3. CASE HealHealthy
      <3>1. /\ ~InFlight(Healer) /\ Returns(Healer, todo[Healer])
            /\ cur' = [cur EXCEPT ![Healer] = None]
            /\ UNCHANGED <<instances, engines, idOf, state, eng, evicted>>
        BY <2>3 DEF HealHealthy, registry, objects, InFlight
      <3>2. \A k \in Callers \ {Healer} : cur'[k] = cur[k]
        BY <1>1, <3>1 DEF TypeOK
      <3>3. QED
        BY <1>1, <2>1, <3>1, <3>2, ReturnsFrame, QuietStep
    <2>4. CASE HealStop
      <3>1. opId[Healer] \in Ids /\ ~InFlight(Healer) /\ pc[Healer] # "unload"
        BY <1>1, <2>1, <2>4 DEF HealStop, TypeOK, Between, InFlight
      <3>2. QED
        BY <1>1, <2>1, <2>4, <3>1, RemoveInv DEF HealStop
    <2>5. ASSUME NEW id \in Ids, HealRead(id) PROVE IInv'
      <3>1. /\ ~InFlight(Healer)
            /\ cur' = [cur EXCEPT ![Healer] = instances[id]]
            /\ UNCHANGED <<instances, engines, idOf, state, eng, evicted>>
        BY <2>5 DEF HealRead, registry, objects, InFlight
      <3>2. \A k \in Callers \ {Healer} : cur'[k] = cur[k]
        BY <1>1, <3>1 DEF TypeOK
      <3>3. CASE Returns(Healer, todo[Healer] \ {id})
        BY <1>1, <2>1, <3>1, <3>2, <3>3, ReturnsFrame, QuietStep
      <3>4. CASE instances[id] # None
        <4>1. /\ \/ pc' = [pc EXCEPT ![Healer] = "stop"]
                 \/ pc' = [pc EXCEPT ![Healer] = "probe"]
              /\ opId' = [opId EXCEPT ![Healer] = id]
              /\ hand' = [hand EXCEPT ![Healer] = engines[id]]
          BY <2>5, <3>4, ReturnsFrame, <1>1, <2>1 DEF HealRead, Returns
        <4>2. /\ pc'[Healer] \in {"stop", "probe"}
              /\ \A k \in Callers \ {Healer} : /\ pc'[k] = pc[k] /\ hand'[k] = hand[k]
                                               /\ opId'[k] = opId[k]
          BY <1>1, <2>1, <4>1 DEF TypeOK
        <4>3. QED
          BY <1>1, <2>1, <3>1, <3>2, <4>2, QuietStep
      <3>5. QED
        BY <2>5, <3>3, <3>4 DEF HealRead
    <2>6. QED
      BY <1>4, <2>2, <2>3, <2>4, <2>5 DEF HealStep
  <1>5. ASSUME Arrival PROVE IInv'
    <2>1. ASSUME NEW c \in Requests \cup Daemons, NEW id \in Ids, NEW s \in Specs,
                 HandleDeploy(c, id, s)
          PROVE  IInv'
      BY <1>1, <2>1, ClaimInv DEF HandleDeploy, Callers, InFlight
    <2>2. ASSUME NEW r \in Requests, NEW id \in Ids, HandleStop(r, id)
          PROVE  IInv'
      BY <1>1, <2>2, RemoveInv DEF HandleStop, Callers, InFlight
    <2>3. ASSUME NEW r \in Requests, NEW id \in Ids, NEW s \in Specs,
                 HandleRedeploy(r, id, s)
          PROVE  IInv'
      BY <1>1, <2>3, RemoveInv DEF HandleRedeploy, Callers, InFlight
    <2>4. ASSUME NEW r \in Requests, NEW ids \in SUBSET Ids, HandleStopModel(r, ids)
          PROVE  IInv'
      <3>1. /\ ~InFlight(r) /\ r \in Callers /\ pc' = [pc EXCEPT ![r] = "sweep"]
            /\ UNCHANGED <<instances, engines, idOf, state, eng, evicted, cur, hand, opId>>
        BY <2>4 DEF HandleStopModel, registry, objects, InFlight, Callers
      <3>2. pc'[r] = "sweep" /\ \A k \in Callers \ {r} : pc'[k] = pc[k]
        BY <1>1, <3>1 DEF TypeOK
      <3>3. QED
        BY <1>1, <3>1, <3>2, QuietStep
    <2>5. ASSUME NEW r \in Requests, ClientGone(r) PROVE IInv'
      BY <1>1, <2>5, StillStep DEF ClientGone, registry, goroutines
    <2>6. QED
      BY <1>5, <2>1, <2>2, <2>3, <2>4, <2>5 DEF Arrival
  <1>6. ASSUME Outside PROVE IInv'
    BY <1>1, <1>6, StillStep DEF Outside, ProcServes, ProcCrashes, ContextKills,
       OutsideService, registry, objects, goroutines
  <1>7. CASE UNCHANGED vars
    BY <1>1, <1>7, StillStep DEF vars
  <1>8. QED
    BY <1>2, <1>3, <1>4, <1>5, <1>6, <1>7 DEF Next

LEMMA Invariance == Spec => []IInv
  BY InitInv, InvStep, PTL DEF Spec

(* The pair a router reads in two critical sections, the ready state and   *)
(* the engine, is always there together.                                   *)
THEOREM ReadyHasEngineHolds == Spec => []ReadyHasEngine
  <1>1. IInv => ReadyHasEngine
    BY DEF IInv
  <1>2. QED
    BY <1>1, Invariance, PTL

(* GetEngine never hands out an engine that is not loaded yet or that a    *)
(* stop has already unloaded.                                              *)
THEOREM RegisteredIsLoadedHolds == Spec => []RegisteredIsLoaded
  <1>1. IInv => RegisteredIsLoaded
    BY DEF IInv, RegisteredOK, RegisteredIsLoaded
  <1>2. QED
    BY <1>1, Invariance, PTL

(* Only the stop of a loading instance can make the two maps disagree.     *)
THEOREM OnlyEvictionSplitsTheMapsHolds == Spec => []OnlyEvictionSplitsTheMaps
  <1>1. IInv => OnlyEvictionSplitsTheMaps
    BY DEF IInv
  <1>2. QED
    BY <1>1, Invariance, PTL

(* No id is stranded in the loading state. *)
THEOREM LoadingHasADeployerHolds == Spec => []LoadingHasADeployer
  <1>1. IInv => LoadingHasADeployer
    BY DEF IInv
  <1>2. QED
    BY <1>1, Invariance, PTL

-----------------------------------------------------------------------------
(* No process is lost.  The argument needs who may have a live process:    *)
(* never an object nobody has created, nor an instance whose process has   *)
(* still to be started or whose Load has failed.                           *)
ProcessesKnown ==
  \A d \in Deploys : Live(d) => state[d] # "unborn" /\ spec[d].kind \in Spawning

StartersDead == \A c \in Callers : pc[c] \in {"load", "fail"} => ~Live(cur[c])

EvictedBorn == \A e \in evicted : state[e] # "unborn"

Ownership == /\ ProcessesKnown /\ StartersDead /\ EvictedBorn
             /\ LiveProcessIsOwned

(* A step of c that starts no process and leaves the maps alone loses      *)
(* nothing, if c is outside DeployInstance and StopInstance, or inside     *)
(* Load and stays there.                                                   *)
LEMMA QuietOwnership ==
  ASSUME Ownership, IInv, NEW c \in Callers,
         UNCHANGED <<engines, idOf, spec, state, evicted>>,
         \A d \in Deploys : Live(d)' => Live(d),
         \A k \in Callers \ {c} : pc'[k] = pc[k] /\ cur'[k] = cur[k] /\ hand'[k] = hand[k],
         \/ /\ ~InFlight(c) /\ pc[c] # "unload"
            /\ pc'[c] \notin {"load", "wait", "register", "fail"}
         \/ /\ InFlight(c) /\ cur'[c] = cur[c]
            /\ pc'[c] \in {"wait", "register", "fail"}
            /\ pc'[c] = "fail" => ~Live(cur[c])'
  PROVE  Ownership'
  <1>1. ProcessesKnown' /\ EvictedBorn'
    BY DEF Ownership, ProcessesKnown, EvictedBorn
  <1>2. \A k \in Callers : pc[k] \in {"load", "fail"} => cur[k] \in Deploys
    BY DEF IInv, Deployers, InFlight
  <1>3. StartersDead'
    <2> SUFFICES ASSUME NEW k \in Callers, pc'[k] \in {"load", "fail"}
                 PROVE  ~Live(cur[k])'
      BY DEF StartersDead
    <2>1. CASE k = c
      BY <2>1
    <2>2. CASE k # c
      <3>1. pc[k] \in {"load", "fail"} /\ cur'[k] = cur[k]
        BY <2>2
      <3>2. cur[k] \in Deploys /\ ~Live(cur[k])
        BY <1>2, <3>1 DEF Ownership, StartersDead
      <3>3. QED
        BY <3>1, <3>2 DEF Live
    <2>3. QED
      BY <2>1, <2>2
  <1>4. \A k \in Callers : InFlight(k) => InFlight(k)' /\ cur'[k] = cur[k]
    BY DEF InFlight
  <1>5. \A k \in Callers : pc[k] = "unload" => pc'[k] = "unload" /\ hand'[k] = hand[k]
    BY DEF InFlight
  <1>6. LiveProcessIsOwned'
    BY <1>4, <1>5 DEF Ownership, LiveProcessIsOwned
  <1>7. QED
    BY <1>1, <1>3, <1>6 DEF Ownership

LEMMA ClaimOwnership ==
  ASSUME Ownership, IInv, NEW c \in Callers, NEW id \in Ids, NEW s,
         ~InFlight(c), pc[c] # "unload", Claim(c, id, s)
  PROVE  Ownership'
  <1>1. CASE Taken(id)
    <2>1. /\ Returns(c, todo[c])
          /\ cur' = [cur EXCEPT ![c] = None]
          /\ UNCHANGED <<engines, idOf, spec, state, proc, evicted>>
      BY <1>1 DEF Claim, objects
    <2>2. \A k \in Callers \ {c} : cur'[k] = cur[k]
      BY <2>1 DEF IInv, TypeOK
    <2>3. \A d \in Deploys : Live(d)' => Live(d)
      BY <2>1 DEF Live
    <2>4. QED
      BY <2>1, <2>2, <2>3, ReturnsFrame, QuietOwnership DEF IInv
  <1>2. CASE ~Taken(id)
    <2>1. /\ UNCHANGED <<engines, proc, evicted, hand>>
          /\ pc' = [pc EXCEPT ![c] = "load"]
      BY <1>2 DEF Claim
    <2>2. PICK n \in Deploys :
             /\ state[n] = "unborn"
             /\ idOf'  = [idOf EXCEPT ![n] = id]
             /\ spec'  = [spec EXCEPT ![n] = s]
             /\ state' = [state EXCEPT ![n] = "loading"]
             /\ cur'   = [cur EXCEPT ![c] = n]
      BY <1>2 DEF Claim
    <2>3. /\ pc'[c] = "load" /\ cur'[c] = n
          /\ \A k \in Callers \ {c} : pc'[k] = pc[k] /\ cur'[k] = cur[k]
      BY <2>1, <2>2 DEF IInv, TypeOK
    <2>4. \A d \in Deploys \ {n} : /\ idOf'[d] = idOf[d] /\ spec'[d] = spec[d]
                                   /\ state'[d] = state[d]
      BY <2>2 DEF IInv, TypeOK
    <2>5. state'[n] = "loading"
      BY <2>2 DEF IInv, TypeOK
    <2>6. \A d : Live(d)' <=> Live(d)
      BY <2>1 DEF Live
    <2>7. ~Live(n) /\ n \notin evicted
      BY <2>2 DEF Ownership, ProcessesKnown, EvictedBorn
    <2>8. ProcessesKnown'
      BY <2>4, <2>6, <2>7 DEF Ownership, ProcessesKnown
    <2>9. StartersDead'
      <3> SUFFICES ASSUME NEW k \in Callers, pc'[k] \in {"load", "fail"}
                   PROVE  ~Live(cur[k])'
        BY DEF StartersDead
      <3>1. CASE k = c
        BY <2>1, <2>3, <2>7, <3>1 DEF Live
      <3>2. CASE k # c
        <4>1. pc[k] \in {"load", "fail"} /\ cur'[k] = cur[k]
          BY <2>3, <3>2
        <4>2. ~Live(cur[k])
          BY <4>1 DEF Ownership, StartersDead
        <4>3. QED
          BY <2>1, <4>1, <4>2 DEF Live
      <3>3. QED
        BY <3>1, <3>2
    <2>10. EvictedBorn'
      <3>1. evicted \subseteq Deploys
        BY DEF IInv, TypeOK
      <3>2. QED
        BY <2>1, <2>4, <2>7, <3>1 DEF Ownership, EvictedBorn
    <2>11. LiveProcessIsOwned'
      <3> SUFFICES ASSUME NEW d \in Deploys, Live(d)'
                   PROVE  \/ \E k \in Callers : InFlight(k)' /\ cur'[k] = d
                          \/ \E i \in Ids : engines'[i] = d
                          \/ \E k \in Callers : pc'[k] = "unload" /\ hand'[k] = d
                          \/ \E e \in evicted' : idOf'[e] = idOf'[d]
        BY DEF LiveProcessIsOwned
      <3>1. Live(d) /\ d # n /\ idOf'[d] = idOf[d]
        BY <2>4, <2>6, <2>7
      <3>2. CASE \E k \in Callers : InFlight(k) /\ cur[k] = d
        BY <2>3, <3>2 DEF InFlight
      <3>3. CASE \E i \in Ids : engines[i] = d
        BY <2>1, <3>3
      <3>4. CASE \E k \in Callers : pc[k] = "unload" /\ hand[k] = d
        BY <2>1, <2>3, <3>4
      <3>5. CASE \E e \in evicted : idOf[e] = idOf[d]
        <4>1. PICK e \in evicted : idOf[e] = idOf[d]
          BY <3>5
        <4>2. e \in Deploys \ {n}
          BY <2>7 DEF IInv, TypeOK
        <4>3. QED
          BY <2>1, <2>4, <3>1, <4>1, <4>2
      <3>6. QED
        BY <3>1, <3>2, <3>3, <3>4, <3>5 DEF Ownership, LiveProcessIsOwned
    <2>12. QED
      BY <2>8, <2>9, <2>10, <2>11 DEF Ownership
  <1>3. QED
    BY <1>1, <1>2

(* Inside Load: a process is started for the goroutine's own instance, and *)
(* none is left when waitReady gives up.                                   *)
LEMMA LoadOwnership ==
  ASSUME Ownership, IInv, NEW c \in Callers,
         LoadStart(c) \/ StartFails(c) \/ WaitAnswered(c) \/ WaitFails(c)
  PROVE  Ownership'
  <1>1. /\ InFlight(c) /\ cur[c] \in Deploys
        /\ UNCHANGED <<engines, idOf, spec, state, evicted, cur, hand>>
    BY DEF LoadStart, StartFails, WaitAnswered, WaitFails, InFlight, registry,
           objects, IInv, Deployers
  <1>2. CASE LoadStart(c)
    <2>1. /\ pc[c] = "load"
          /\ pc' = [pc EXCEPT ![c] = IF spec[cur[c]].kind \in AwaitsHTTP
                                     THEN "wait" ELSE "register"]
          /\ proc' = [proc EXCEPT ![cur[c]] = IF spec[cur[c]].kind \in Spawning
                                              THEN "running" ELSE @]
      BY <1>2 DEF LoadStart
    <2>2. /\ pc'[c] \in {"wait", "register"}
          /\ \A k \in Callers \ {c} : pc'[k] = pc[k]
      BY <2>1 DEF IInv, TypeOK
    <2>3. \A d \in Deploys \ {cur[c]} : Live(d)' <=> Live(d)
      BY <2>1 DEF IInv, TypeOK, Live
    <2>4. state[cur[c]] # "unborn"
      BY <1>1 DEF IInv, Deployers
    <2>5. ~Live(cur[c])
      BY <2>1 DEF Ownership, StartersDead
    <2>6. ASSUME Live(cur[c])' PROVE spec[cur[c]].kind \in Spawning
      BY <1>1, <2>1, <2>5, <2>6 DEF IInv, TypeOK, Live
    <2>7. ProcessesKnown'
      <3> SUFFICES ASSUME NEW d \in Deploys, Live(d)'
                   PROVE  state[d] # "unborn" /\ spec[d].kind \in Spawning
        BY <1>1 DEF ProcessesKnown
      <3>1. CASE d = cur[c]
        BY <1>1, <2>4, <2>6, <3>1 DEF Live
      <3>2. CASE d # cur[c]
        BY <2>3, <3>2 DEF Ownership, ProcessesKnown
      <3>3. QED
        BY <3>1, <3>2
    <2>8. StartersDead'
      <3> SUFFICES ASSUME NEW k \in Callers, pc'[k] \in {"load", "fail"}
                   PROVE  ~Live(cur[k])'
        BY DEF StartersDead
      <3>1. k # c /\ pc[k] \in {"load", "fail"}
        BY <2>2
      <3>2. cur[k] \in Deploys \ {cur[c]} /\ ~Live(cur[k])
        BY <1>1, <3>1 DEF IInv, Deployers, InFlight, Ownership, StartersDead
      <3>3. QED
        BY <1>1, <2>3, <3>2 DEF Live
    <2>9. EvictedBorn'
      BY <1>1 DEF Ownership, EvictedBorn
    <2>10. \A k \in Callers : InFlight(k)' <=> InFlight(k)
      BY <1>1, <2>2 DEF InFlight
    <2>11. \A k \in Callers : pc[k] = "unload" => pc'[k] = "unload"
      BY <2>1, <2>2
    <2>12. LiveProcessIsOwned'
      BY <1>1, <2>3, <2>10, <2>11 DEF Ownership, LiveProcessIsOwned
    <2>13. QED
      BY <2>7, <2>8, <2>9, <2>12 DEF Ownership
  <1>3. CASE StartFails(c) \/ WaitAnswered(c)
    <2>1. /\ \/ pc[c] = "load" /\ pc' = [pc EXCEPT ![c] = "fail"]
             \/ pc' = [pc EXCEPT ![c] = "register"]
          /\ UNCHANGED proc
      BY <1>3 DEF StartFails, WaitAnswered
    <2>2. /\ pc'[c] = "register" \/ (pc[c] = "load" /\ pc'[c] = "fail")
          /\ \A k \in Callers \ {c} : pc'[k] = pc[k]
      BY <2>1 DEF IInv, TypeOK
    <2>3. pc[c] = "load" => ~Live(cur[c])
      BY DEF Ownership, StartersDead
    <2>4. \A d : Live(d)' <=> Live(d)
      BY <2>1 DEF Live
    <2>5. QED
      BY <1>1, <2>2, <2>3, <2>4, QuietOwnership
  <1>4. CASE WaitFails(c)
    <2>1. /\ pc' = [pc EXCEPT ![c] = "fail"]
          /\ \/ spec[cur[c]].kind \in Spawning /\ Unload(cur[c])
             \/ spec[cur[c]].kind \notin Spawning /\ UNCHANGED proc
      BY <1>4 DEF WaitFails
    <2>2. pc'[c] = "fail" /\ \A k \in Callers \ {c} : pc'[k] = pc[k]
      BY <2>1 DEF IInv, TypeOK
    <2>3. \A d \in Deploys : Live(d)' => Live(d)
      BY <2>1 DEF Unload, Live
    <2>4. ~(proc'[cur[c]] \in {"running", "serving"})
      <3>1. CASE Unload(cur[c])
        BY <1>1, <3>1 DEF Unload, Live
      <3>2. CASE spec[cur[c]].kind \notin Spawning /\ UNCHANGED proc
        <4>1. ~Live(cur[c])
          BY <1>1, <3>2 DEF Ownership, ProcessesKnown
        <4>2. QED
          BY <3>2, <4>1 DEF Live
      <3>3. QED
        BY <2>1, <3>1, <3>2
    <2>5. ~Live(cur[c])'
      BY <1>1, <2>4 DEF Live
    <2>6. QED
      BY <1>1, <2>2, <2>3, <2>5, QuietOwnership
  <1>5. QED
    BY <1>2, <1>3, <1>4

(* The end of DeployInstance.  Registering may drop an engine another      *)
(* instance of the id had registered: only if one of them was evicted.     *)
LEMMA RegisterOwnership ==
  ASSUME Ownership, IInv, NEW c \in Callers, Register(c)
  PROVE  Ownership'
  <1> DEFINE n == cur[c]
             i == opId[c]
  <1>1. /\ pc[c] = "register" /\ InFlight(c)
        /\ Returns(c, todo[c])
        /\ engines' = [engines EXCEPT ![i] = n]
        /\ state' = [state EXCEPT ![n] = "ready"]
        /\ cur' = [cur EXCEPT ![c] = IF c \in Requests THEN @ ELSE None]
        /\ UNCHANGED <<idOf, spec, proc, evicted>>
    BY DEF Register, InFlight
  <1>2. n \in Deploys /\ idOf[n] = i
    BY <1>1 DEF IInv, Deployers
  <1>3. i \in Ids
    BY <1>1 DEF IInv, TypeOK, Between
  <1>4. engines'[i] = n /\ \A k \in Ids \ {i} : engines'[k] = engines[k]
    BY <1>1, <1>3 DEF IInv, TypeOK
  <1>5. \A d \in Deploys : state[d] # "unborn" => state'[d] # "unborn"
    BY <1>1 DEF IInv, TypeOK
  <1>6. /\ pc'[c] \notin {"load", "fail"}
        /\ \A k \in Callers \ {c} : pc'[k] = pc[k] /\ cur'[k] = cur[k] /\ hand'[k] = hand[k]
    BY <1>1, ReturnsFrame DEF IInv, TypeOK
  <1>7. \A d : Live(d)' <=> Live(d)
    BY <1>1 DEF Live
  <1>8. ProcessesKnown'
    BY <1>1, <1>5, <1>7 DEF Ownership, ProcessesKnown
  <1>9. StartersDead'
    <2> SUFFICES ASSUME NEW k \in Callers, pc'[k] \in {"load", "fail"}
                 PROVE  ~Live(cur[k])'
      BY DEF StartersDead
    <2>1. k # c /\ pc[k] \in {"load", "fail"} /\ cur'[k] = cur[k]
      BY <1>6
    <2>2. ~Live(cur[k])
      BY <2>1 DEF Ownership, StartersDead
    <2>3. QED
      BY <1>1, <2>1, <2>2 DEF Live
  <1>10. EvictedBorn'
    BY <1>1, <1>5 DEF Ownership, EvictedBorn, IInv, TypeOK
  <1>11. LiveProcessIsOwned'
    <2> SUFFICES ASSUME NEW d \in Deploys, Live(d)'
                 PROVE  \/ \E k \in Callers : InFlight(k)' /\ cur'[k] = d
                        \/ \E k \in Ids : engines'[k] = d
                        \/ \E k \in Callers : pc'[k] = "unload" /\ hand'[k] = d
                        \/ \E e \in evicted' : idOf'[e] = idOf'[d]
      BY DEF LiveProcessIsOwned
    <2>1. CASE \E k \in Callers : InFlight(k) /\ cur[k] = d
      BY <1>3, <1>4, <1>6, <2>1 DEF InFlight
    <2>2. CASE \E k \in Ids : engines[k] = d
      <3>1. PICK k \in Ids : engines[k] = d
        BY <2>2
      <3>2. d # None
        BY AgentAssumption
      <3>3. idOf[d] = k /\ d # n
        BY <1>1, <3>1, <3>2 DEF IInv, RegisteredOK
      <3>4. CASE k = i /\ d \notin evicted
        <4>1. instances[i] = d
          BY <3>1, <3>2, <3>4 DEF IInv, OnlyEvictionSplitsTheMaps
        <4>2. n \in evicted
          BY <1>1, <3>3, <4>1 DEF IInv, OnlyEvictionSplitsTheMaps
        <4>3. QED
          BY <1>1, <1>2, <3>3, <3>4, <4>2
      <3>5. QED
        BY <1>1, <1>4, <3>1, <3>4
    <2>3. CASE \E k \in Callers : pc[k] = "unload" /\ hand[k] = d
      BY <1>1, <1>6, <2>3
    <2>4. CASE \E e \in evicted : idOf[e] = idOf[d]
      BY <1>1, <2>4
    <2>5. QED
      BY <1>7, <2>1, <2>2, <2>3, <2>4 DEF Ownership, LiveProcessIsOwned
  <1>12. QED
    BY <1>8, <1>9, <1>10, <1>11 DEF Ownership

LEMMA FailOwnership ==
  ASSUME Ownership, IInv, NEW c \in Callers, Fail(c)
  PROVE  Ownership'
  <1>1. /\ pc[c] = "fail"
        /\ Returns(c, todo[c])
        /\ state' = [state EXCEPT ![cur[c]] = "error"]
        /\ cur' = [cur EXCEPT ![c] = IF c \in Requests THEN @ ELSE None]
        /\ UNCHANGED <<engines, idOf, spec, proc, evicted>>
    BY DEF Fail, MarkError, registry
  <1>2. ~Live(cur[c])
    BY <1>1 DEF Ownership, StartersDead
  <1>3. \A d \in Deploys : state[d] # "unborn" => state'[d] # "unborn"
    BY <1>1 DEF IInv, TypeOK
  <1>4. /\ pc'[c] \notin {"load", "fail"}
        /\ \A k \in Callers \ {c} : pc'[k] = pc[k] /\ cur'[k] = cur[k] /\ hand'[k] = hand[k]
    BY <1>1, ReturnsFrame DEF IInv, TypeOK
  <1>5. \A d : Live(d)' <=> Live(d)
    BY <1>1 DEF Live
  <1>6. ProcessesKnown'
    BY <1>1, <1>3, <1>5 DEF Ownership, ProcessesKnown
  <1>7. StartersDead'
    <2> SUFFICES ASSUME NEW k \in Callers, pc'[k] \in {"load", "fail"}
                 PROVE  ~Live(cur[k])'
      BY DEF StartersDead
    <2>1. k # c /\ pc[k] \in {"load", "fail"} /\ cur'[k] = cur[k]
      BY <1>4
    <2>2. ~Live(cur[k])
      BY <2>1 DEF Ownership, StartersDead
    <2>3. QED
      BY <1>1, <2>1, <2>2 DEF Live
  <1>8. EvictedBorn'
    BY <1>1, <1>3 DEF Ownership, EvictedBorn, IInv, TypeOK
  <1>9. LiveProcessIsOwned'
    <2> SUFFICES ASSUME NEW d \in Deploys, Live(d)'
                 PROVE  \/ \E k \in Callers : InFlight(k)' /\ cur'[k] = d
                        \/ \E k \in Ids : engines'[k] = d
                        \/ \E k \in Callers : pc'[k] = "unload" /\ hand'[k] = d
                        \/ \E e \in evicted' : idOf'[e] = idOf'[d]
      BY DEF LiveProcessIsOwned
    <2>1. Live(d) /\ d # cur[c]
      BY <1>2, <1>5
    <2>2. CASE \E k \in Callers : InFlight(k) /\ cur[k] = d
      BY <1>4, <2>1, <2>2 DEF InFlight
    <2>3. CASE \E k \in Callers : pc[k] = "unload" /\ hand[k] = d
      BY <1>1, <1>4, <2>3
    <2>4. QED
      BY <1>1, <2>1, <2>2, <2>3 DEF Ownership, LiveProcessIsOwned
  <1>10. QED
    BY <1>6, <1>7, <1>8, <1>9 DEF Ownership

(* StopInstance: the engine it takes out of the map is the one it holds    *)
(* until it has killed its process.                                        *)
LEMMA RemoveOwnership ==
  ASSUME Ownership, IInv, NEW c \in Callers, NEW id \in Ids, NEW s, NEW rest,
         ~InFlight(c), pc[c] # "unload", Remove(c, id, s, rest)
  PROVE  Ownership'
  <1>1. UNCHANGED <<idOf, spec, state, proc>> /\ \A d : Live(d)' <=> Live(d)
    BY DEF Remove, objects, Live
  <1>2. CASE instances[id] = None
    <2>1. StopReturns(c, id, s, rest) /\ UNCHANGED <<engines, evicted>>
      BY <1>2 DEF Remove, registry
    <2>2. /\ pc'[c] \notin {"load", "wait", "register", "fail"}
          /\ \A k \in Callers \ {c} : pc'[k] = pc[k] /\ cur'[k] = cur[k] /\ hand'[k] = hand[k]
      <3>1. cur' = [cur EXCEPT ![c] = None]
        BY <2>1 DEF StopReturns
      <3>2. CASE Returns(c, rest)
        <4>1. TypeOK
          BY DEF IInv
        <4>2. \A k \in Callers \ {c} : cur'[k] = cur[k]
          BY <3>1, <4>1 DEF TypeOK
        <4>3. QED
          BY <3>2, <4>1, <4>2, ReturnsFrame
      <3>3. CASE s # None
        BY <2>1, <3>3 DEF StopReturns, IInv, TypeOK
      <3>4. QED
        BY <2>1, <3>2, <3>3 DEF StopReturns
    <2>3. QED
      BY <1>1, <2>1, <2>2, QuietOwnership
  <1>3. CASE instances[id] # None
    <2> DEFINE n == instances[id]
    <2>1. /\ pc'   = [pc EXCEPT ![c] = "unload"]
          /\ cur'  = [cur EXCEPT ![c] = n]
          /\ hand' = [hand EXCEPT ![c] = engines[id]]
          /\ engines' = [engines EXCEPT ![id] = None]
          /\ evicted' = IF state[n] = "loading" THEN evicted \cup {n} ELSE evicted
      BY <1>3 DEF Remove, Withdraw
    <2>2. /\ pc'[c] = "unload" /\ hand'[c] = engines[id]
          /\ \A k \in Callers \ {c} : pc'[k] = pc[k] /\ cur'[k] = cur[k] /\ hand'[k] = hand[k]
          /\ \A i \in Ids \ {id} : engines'[i] = engines[i]
      BY <2>1 DEF IInv, TypeOK
    <2>3. evicted \subseteq evicted'
      BY <2>1
    <2>4. ProcessesKnown'
      BY <1>1 DEF Ownership, ProcessesKnown
    <2>5. StartersDead'
      <3> SUFFICES ASSUME NEW k \in Callers, pc'[k] \in {"load", "fail"}
                   PROVE  ~Live(cur[k])'
        BY DEF StartersDead
      <3>1. k # c /\ pc[k] \in {"load", "fail"} /\ cur'[k] = cur[k]
        BY <2>2
      <3>2. ~Live(cur[k])
        BY <3>1 DEF Ownership, StartersDead
      <3>3. QED
        BY <1>1, <3>1, <3>2 DEF Live
    <2>6. EvictedBorn'
      BY <1>1, <2>1 DEF Ownership, EvictedBorn
    <2>7. LiveProcessIsOwned'
      <3> SUFFICES ASSUME NEW d \in Deploys, Live(d)'
                   PROVE  \/ \E k \in Callers : InFlight(k)' /\ cur'[k] = d
                          \/ \E k \in Ids : engines'[k] = d
                          \/ \E k \in Callers : pc'[k] = "unload" /\ hand'[k] = d
                          \/ \E e \in evicted' : idOf'[e] = idOf'[d]
        BY DEF LiveProcessIsOwned
      <3>1. CASE \E k \in Callers : InFlight(k) /\ cur[k] = d
        BY <2>2, <3>1 DEF InFlight
      <3>2. CASE \E k \in Ids : engines[k] = d
        BY <2>2, <3>2
      <3>3. CASE \E k \in Callers : pc[k] = "unload" /\ hand[k] = d
        BY <2>2, <3>3
      <3>4. CASE \E e \in evicted : idOf[e] = idOf[d]
        BY <1>1, <2>3, <3>4
      <3>5. QED
        BY <1>1, <3>1, <3>2, <3>3, <3>4 DEF Ownership, LiveProcessIsOwned
    <2>8. QED
      BY <2>4, <2>5, <2>6, <2>7 DEF Ownership
  <1>4. QED
    BY <1>2, <1>3

LEMMA FinishStopOwnership ==
  ASSUME Ownership, IInv, NEW c \in Callers, FinishStop(c)
  PROVE  Ownership'
  <1>1. /\ pc[c] = "unload"
        /\ Unload(hand[c])
        /\ state' = [state EXCEPT ![cur[c]] = "stopped"]
        /\ StopReturns(c, opId[c], want[c], todo[c])
        /\ UNCHANGED <<engines, idOf, spec, evicted>>
    BY DEF FinishStop, registry
  <1>2. /\ \A d \in Deploys : Live(d)' => Live(d) /\ d # hand[c]
        /\ \A d \in Deploys : state[d] # "unborn" => state'[d] # "unborn"
    BY <1>1 DEF Unload, Live, IInv, TypeOK
  <1>3. /\ pc'[c] \notin {"load", "wait", "register", "fail", "unload"}
        /\ \A k \in Callers \ {c} : pc'[k] = pc[k] /\ cur'[k] = cur[k] /\ hand'[k] = hand[k]
    <2>1. cur' = [cur EXCEPT ![c] = None]
      BY <1>1 DEF StopReturns
    <2>2. CASE Returns(c, todo[c])
      BY <2>1, <2>2, ReturnsFrame DEF IInv, TypeOK
    <2>3. CASE want[c] # None
      BY <1>1, <2>1, <2>3 DEF StopReturns, IInv, TypeOK
    <2>4. QED
      BY <1>1, <2>2, <2>3 DEF StopReturns
  <1>4. ProcessesKnown' /\ EvictedBorn'
    BY <1>1, <1>2 DEF Ownership, ProcessesKnown, EvictedBorn, IInv, TypeOK
  <1>5. StartersDead'
    <2> SUFFICES ASSUME NEW k \in Callers, pc'[k] \in {"load", "fail"}
                 PROVE  ~Live(cur[k])'
      BY DEF StartersDead
    <2>1. k # c /\ pc[k] \in {"load", "fail"} /\ cur'[k] = cur[k]
      BY <1>3
    <2>2. cur[k] \in Deploys /\ ~Live(cur[k])
      BY <2>1 DEF IInv, Deployers, InFlight, Ownership, StartersDead
    <2>3. QED
      BY <1>2, <2>1, <2>2 DEF Live
  <1>6. LiveProcessIsOwned'
    <2> SUFFICES ASSUME NEW d \in Deploys, Live(d)'
                 PROVE  \/ \E k \in Callers : InFlight(k)' /\ cur'[k] = d
                        \/ \E k \in Ids : engines'[k] = d
                        \/ \E k \in Callers : pc'[k] = "unload" /\ hand'[k] = d
                        \/ \E e \in evicted' : idOf'[e] = idOf'[d]
      BY DEF LiveProcessIsOwned
    <2>1. CASE \E k \in Callers : InFlight(k) /\ cur[k] = d
      BY <1>1, <1>3, <2>1 DEF InFlight
    <2>2. CASE \E k \in Callers : pc[k] = "unload" /\ hand[k] = d
      BY <1>2, <1>3, <2>2
    <2>3. QED
      BY <1>1, <1>2, <2>1, <2>2 DEF Ownership, LiveProcessIsOwned
  <1>7. QED
    BY <1>4, <1>5, <1>6 DEF Ownership

LEMMA StillOwnership ==
  ASSUME Ownership, IInv,
         UNCHANGED <<engines, idOf, spec, state, evicted, pc, cur, hand>>,
         \A d \in Deploys : Live(d)' => Live(d)
  PROVE  Ownership'
  <1>1. ProcessesKnown' /\ EvictedBorn'
    BY DEF Ownership, ProcessesKnown, EvictedBorn
  <1>2. \A c \in Callers : pc[c] \in {"load", "fail"} => cur[c] \in Deploys
    BY DEF IInv, Deployers, InFlight
  <1>3. StartersDead'
    <2> SUFFICES ASSUME NEW c \in Callers, pc[c] \in {"load", "fail"}
                 PROVE  ~Live(cur[c])'
      BY DEF StartersDead
    <2>1. cur[c] \in Deploys /\ ~Live(cur[c])
      BY <1>2 DEF Ownership, StartersDead
    <2>2. QED
      BY <2>1 DEF Live
  <1>4. LiveProcessIsOwned'
    BY DEF Ownership, LiveProcessIsOwned, InFlight
  <1>5. QED
    BY <1>1, <1>3, <1>4 DEF Ownership

LEMMA OwnershipStep == Ownership /\ IInv /\ [Next]_vars => Ownership'
  <1> SUFFICES ASSUME Ownership, IInv, [Next]_vars PROVE Ownership'
    OBVIOUS
  <1>1. TypeOK
    BY DEF IInv
  <1>2. ASSUME NEW c \in Callers, Step(c) PROVE Ownership'
    <2>1. CASE Redeploy(c)
      <3>1. opId[c] \in Ids /\ ~InFlight(c) /\ pc[c] # "unload"
        BY <1>1, <2>1 DEF Redeploy, TypeOK, Between, InFlight
      <3>2. QED
        BY <2>1, <3>1, ClaimOwnership DEF Redeploy
    <2>2. CASE DropRedeploy(c)
      <3>1. /\ Returns(c, todo[c]) /\ cur' = [cur EXCEPT ![c] = None]
            /\ UNCHANGED <<engines, idOf, spec, state, proc, evicted>>
            /\ ~InFlight(c) /\ pc[c] # "unload"
        BY <2>2 DEF DropRedeploy, registry, objects, InFlight
      <3>2. \A k \in Callers \ {c} : cur'[k] = cur[k]
        BY <1>1, <3>1 DEF TypeOK
      <3>3. \A d \in Deploys : Live(d)' => Live(d)
        BY <3>1 DEF Live
      <3>4. QED
        BY <1>1, <3>1, <3>2, <3>3, ReturnsFrame, QuietOwnership
    <2>3. CASE LoadStart(c) \/ StartFails(c) \/ WaitAnswered(c) \/ WaitFails(c)
      BY <2>3, LoadOwnership
    <2>4. CASE Register(c)
      BY <2>4, RegisterOwnership
    <2>5. CASE Fail(c)
      BY <2>5, FailOwnership
    <2>6. CASE FinishStop(c)
      BY <2>6, FinishStopOwnership
    <2>7. QED
      BY <1>2, <2>1, <2>2, <2>3, <2>4, <2>5, <2>6 DEF Step
  <1>3. ASSUME NEW r \in Requests, RequestStep(r) PROVE Ownership'
    <2>1. r \in Callers
      BY DEF Callers
    <2>2. ASSUME NEW id \in Ids, SweepNext(r, id) PROVE Ownership'
      BY <2>1, <2>2, RemoveOwnership DEF SweepNext, InFlight
    <2>3. CASE HandlerReturns(r)
      <3>1. /\ ~InFlight(r) /\ pc[r] # "unload" /\ pc' = [pc EXCEPT ![r] = "idle"]
            /\ cur' = [cur EXCEPT ![r] = None]
            /\ UNCHANGED <<engines, idOf, spec, state, proc, evicted, hand>>
        BY <2>3 DEF HandlerReturns, registry, InFlight
      <3>2. /\ pc'[r] = "idle"
            /\ \A k \in Callers \ {r} : pc'[k] = pc[k] /\ cur'[k] = cur[k]
        BY <1>1, <2>1, <3>1 DEF TypeOK
      <3>3. \A d \in Deploys : Live(d)' => Live(d)
        BY <3>1 DEF Live
      <3>4. QED
        BY <2>1, <3>1, <3>2, <3>3, QuietOwnership
    <2>4. QED
      BY <1>3, <2>2, <2>3 DEF RequestStep
  <1>4. ASSUME HealStep PROVE Ownership'
    <2>1. Healer \in Callers
      BY DEF Callers
    <2>2. CASE HealTick \/ HealUnhealthy
      <3>1. /\ ~InFlight(Healer) /\ pc[Healer] # "unload"
            /\ UNCHANGED <<engines, idOf, spec, state, proc, evicted, cur, hand>>
            /\ \/ pc' = [pc EXCEPT ![Healer] = "heal"]
               \/ pc' = [pc EXCEPT ![Healer] = "stop"]
        BY <2>2 DEF HealTick, HealUnhealthy, registry, objects, InFlight
      <3>2. /\ pc'[Healer] \in {"heal", "stop"}
            /\ \A k \in Callers \ {Healer} : pc'[k] = pc[k]
        BY <1>1, <2>1, <3>1 DEF TypeOK
      <3>3. \A d \in Deploys : Live(d)' => Live(d)
        BY <3>1 DEF Live
      <3>4. QED
        BY <2>1, <3>1, <3>2, <3>3, QuietOwnership
    <2>3. CASE HealHealthy
      <3>1. /\ ~InFlight(Healer) /\ pc[Healer] # "unload"
            /\ Returns(Healer, todo[Healer])
            /\ cur' = [cur EXCEPT ![Healer] = None]
            /\ UNCHANGED <<engines, idOf, spec, state, proc, evicted>>
        BY <2>3 DEF HealHealthy, registry, objects, InFlight
      <3>2. \A k \in Callers \ {Healer} : cur'[k] = cur[k]
        BY <1>1, <3>1 DEF TypeOK
      <3>3. \A d \in Deploys : Live(d)' => Live(d)
        BY <3>1 DEF Live
      <3>4. QED
        BY <1>1, <2>1, <3>1, <3>2, <3>3, ReturnsFrame, QuietOwnership
    <2>4. CASE HealStop
      <3>1. opId[Healer] \in Ids /\ ~InFlight(Healer) /\ pc[Healer] # "unload"
        BY <1>1, <2>1, <2>4 DEF HealStop, TypeOK, Between, InFlight
      <3>2. QED
        BY <2>1, <2>4, <3>1, RemoveOwnership DEF HealStop
    <2>5. ASSUME NEW id \in Ids, HealRead(id) PROVE Ownership'
      <3>1. /\ ~InFlight(Healer) /\ pc[Healer] # "unload"
            /\ cur' = [cur EXCEPT ![Healer] = instances[id]]
            /\ UNCHANGED <<engines, idOf, spec, state, proc, evicted>>
        BY <2>5 DEF HealRead, registry, objects, InFlight
      <3>2. \A k \in Callers \ {Healer} : cur'[k] = cur[k]
        BY <1>1, <3>1 DEF TypeOK
      <3>3. \A d \in Deploys : Live(d)' => Live(d)
        BY <3>1 DEF Live
      <3>4. CASE Returns(Healer, todo[Healer] \ {id})
        BY <1>1, <2>1, <3>1, <3>2, <3>3, <3>4, ReturnsFrame, QuietOwnership
      <3>5. CASE instances[id] # None
        <4>1. /\ \/ pc' = [pc EXCEPT ![Healer] = "stop"]
                 \/ pc' = [pc EXCEPT ![Healer] = "probe"]
              /\ hand' = [hand EXCEPT ![Healer] = engines[id]]
          BY <2>5, <3>5 DEF HealRead
        <4>2. /\ pc'[Healer] \in {"stop", "probe"}
              /\ \A k \in Callers \ {Healer} : pc'[k] = pc[k] /\ hand'[k] = hand[k]
          BY <1>1, <2>1, <4>1 DEF TypeOK
        <4>3. QED
          BY <2>1, <3>1, <3>2, <3>3, <4>2, QuietOwnership
      <3>6. QED
        BY <2>5, <3>4, <3>5 DEF HealRead
    <2>6. QED
      BY <1>4, <2>2, <2>3, <2>4, <2>5 DEF HealStep
  <1>5. ASSUME Arrival PROVE Ownership'
    <2>1. ASSUME NEW c \in Requests \cup Daemons, NEW id \in Ids, NEW s \in Specs,
                 HandleDeploy(c, id, s)
          PROVE  Ownership'
      BY <2>1, ClaimOwnership DEF HandleDeploy, Callers, InFlight
    <2>2. ASSUME NEW r \in Requests, NEW id \in Ids, HandleStop(r, id)
          PROVE  Ownership'
      BY <2>2, RemoveOwnership DEF HandleStop, Callers, InFlight
    <2>3. ASSUME NEW r \in Requests, NEW id \in Ids, NEW s \in Specs,
                 HandleRedeploy(r, id, s)
          PROVE  Ownership'
      BY <2>3, RemoveOwnership DEF HandleRedeploy, Callers, InFlight
    <2>4. ASSUME NEW r \in Requests, NEW ids \in SUBSET Ids, HandleStopModel(r, ids)
          PROVE  Ownership'
      <3>1. /\ ~InFlight(r) /\ pc[r] # "unload" /\ r \in Callers
            /\ pc' = [pc EXCEPT ![r] = "sweep"]
            /\ UNCHANGED <<engines, idOf, spec, state, proc, evicted, cur, hand>>
        BY <2>4 DEF HandleStopModel, registry, objects, InFlight, Callers
      <3>2. pc'[r] = "sweep" /\ \A k \in Callers \ {r} : pc'[k] = pc[k]
        BY <1>1, <3>1 DEF TypeOK
      <3>3. \A d \in Deploys : Live(d)' => Live(d)
        BY <3>1 DEF Live
      <3>4. QED
        BY <3>1, <3>2, <3>3, QuietOwnership
    <2>5. ASSUME NEW r \in Requests, ClientGone(r) PROVE Ownership'
      <3>1. UNCHANGED <<engines, idOf, spec, state, proc, evicted, pc, cur, hand>>
        BY <2>5 DEF ClientGone, registry, goroutines
      <3>2. QED
        BY <3>1, StillOwnership DEF Live
    <2>6. QED
      BY <1>5, <2>1, <2>2, <2>3, <2>4, <2>5 DEF Arrival
  <1>6. ASSUME Outside PROVE Ownership'
    <2>1. UNCHANGED <<engines, idOf, spec, state, evicted, pc, cur, hand>>
      BY <1>6 DEF Outside, ProcServes, ProcCrashes, ContextKills, OutsideService,
         registry, objects, goroutines
    <2>2. \A d \in Deploys : Live(d)' => Live(d)
      BY <1>1, <1>6 DEF Outside, ProcServes, ProcCrashes, ContextKills,
         OutsideService, Live, TypeOK
    <2>3. QED
      BY <2>1, <2>2, StillOwnership
  <1>7. CASE UNCHANGED vars
    BY <1>7, StillOwnership DEF vars, Live
  <1>8. QED
    BY <1>2, <1>3, <1>4, <1>5, <1>6, <1>7 DEF Next

(* Every process the daemon has spawned and not killed belongs to a        *)
(* deployment in progress, to a registered engine or to the stop that is   *)
(* about to kill it, but for the one leak there is: the late registration  *)
(* of an instance that was stopped while it was loading.                   *)
THEOREM LiveProcessIsOwnedHolds == Spec => []LiveProcessIsOwned
  <1>1. Init => Ownership
    BY DEF Init, Ownership, ProcessesKnown, StartersDead, EvictedBorn,
           LiveProcessIsOwned, Live
  <1>2. Spec => []Ownership
    BY <1>1, OwnershipStep, Invariance, PTL DEF Spec
  <1>3. Ownership => LiveProcessIsOwned
    BY DEF Ownership
  <1>4. QED
    BY <1>2, <1>3, PTL

-----------------------------------------------------------------------------
(* The agent implements the promised life cycle. *)

(* Steps that leave the registry and the state of listed instances alone   *)
(* cannot be seen by those who list instances.                             *)
LEMMA HiddenStep ==
  ASSUME UNCHANGED <<instances, engines>>,
         \A id \in Ids : instances[id] # None => state'[instances[id]] = state[instances[id]]
  PROVE  UNCHANGED Lifecycle!vars
  <1>1. \A id \in Ids : Shown(id)' = Shown(id)
    BY DEF Shown
  <1>2. QED
    BY <1>1 DEF Lifecycle!vars

LEMMA ClaimAppears ==
  ASSUME IInv, NEW c \in Callers, NEW id \in Ids, NEW s, Claim(c, id, s)
  PROVE  Lifecycle!Next \/ UNCHANGED Lifecycle!vars
  <1>1. CASE Taken(id)
    BY <1>1, HiddenStep DEF Claim, objects
  <1>2. CASE ~Taken(id)
    <2>1. PICK d \in Deploys :
             /\ state[d] = "unborn"
             /\ instances' = [instances EXCEPT ![id] = d]
             /\ state' = [state EXCEPT ![d] = "loading"]
      BY <1>2 DEF Claim
    <2>2. instances[id] = None /\ UNCHANGED engines /\ d # None
      BY <1>2, AgentAssumption DEF Claim, Taken
    <2>3. Shown(id) = "none" /\ Shown(id)' = "loading"
      BY <2>1, <2>2 DEF Shown, IInv, TypeOK
    <2>4. \A i \in Ids \ {id} : Shown(i)' = Shown(i)
      BY <2>1, <2>2 DEF Shown, IInv, TypeOK, ListedOK
    <2>5. Lifecycle!Appear(id)
      BY <2>2, <2>3, <2>4 DEF Lifecycle!Appear
    <2>6. QED
      BY <2>5 DEF Lifecycle!Next
  <1>3. QED
    BY <1>1, <1>2

LEMMA RemoveVanishes ==
  ASSUME IInv, NEW c \in Callers, NEW id \in Ids, NEW s, NEW rest,
         Remove(c, id, s, rest)
  PROVE  Lifecycle!Next \/ UNCHANGED Lifecycle!vars
  <1>1. CASE instances[id] = None
    BY <1>1, HiddenStep DEF Remove, objects, registry
  <1>2. CASE instances[id] # None
    <2>1. /\ instances' = [instances EXCEPT ![id] = None]
          /\ engines' = [engines EXCEPT ![id] = None]
          /\ UNCHANGED state
      BY <1>2 DEF Remove, Withdraw, objects
    <2>2. Shown(id) # "none" /\ Shown(id)' = "none"
      BY <1>2, <2>1 DEF Shown, IInv, TypeOK, ListedOK
    <2>3. \A i \in Ids \ {id} : Shown(i)' = Shown(i) /\ engines'[i] = engines[i]
      BY <2>1 DEF Shown, IInv, TypeOK
    <2>4. engines'[id] = None
      BY <2>1 DEF IInv, TypeOK
    <2>5. Lifecycle!Vanish(id)
      BY <2>2, <2>3, <2>4 DEF Lifecycle!Vanish
    <2>6. QED
      BY <2>5 DEF Lifecycle!Next
  <1>3. QED
    BY <1>1, <1>2

LEMMA RegisterPublishes ==
  ASSUME IInv, NEW c \in Callers, Register(c),
         NEW i \in Ids, i = opId[c], NEW d \in Deploys, d = cur[c]
  PROVE  Lifecycle!Next
  <1>1. /\ engines' = [engines EXCEPT ![i] = d]
        /\ state' = [state EXCEPT ![d] = "ready"]
        /\ UNCHANGED instances
        /\ InFlight(c)
    BY DEF Register, InFlight
  <1>2. idOf[d] = i /\ state[d] \in {"loading", "stopped"}
    BY <1>1 DEF IInv, TypeOK, Between, InFlight, Deployers
  <1>3. d # None
    BY <1>2, AgentAssumption
  <1>4. engines'[i] # None /\ \A j \in Ids \ {i} : engines'[j] = engines[j]
    BY <1>1, <1>2, <1>3 DEF IInv, TypeOK
  <1>5. \A j \in Ids \ {i} : Shown(j)' = Shown(j)
    BY <1>1, <1>2, <1>3 DEF Shown, IInv, TypeOK, ListedOK
  <1>6. CASE instances[i] = d
    <2>1. Shown(i) = "loading" /\ Shown(i)' = "ready"
      BY <1>1, <1>2, <1>3, <1>6 DEF Shown, IInv, TypeOK, ListedOK
    <2>2. Lifecycle!BecomeReady(i)
      BY <1>2, <1>4, <1>5, <2>1 DEF Lifecycle!BecomeReady
    <2>3. QED
      BY <1>2, <2>2 DEF Lifecycle!Next
  <1>7. CASE instances[i] # d
    <2>1. Shown(i)' = Shown(i)
      BY <1>1, <1>2, <1>7 DEF Shown, IInv, TypeOK
    <2>2. Lifecycle!LateEngine(i)
      BY <1>2, <1>4, <1>5, <2>1 DEF Lifecycle!LateEngine
    <2>3. QED
      BY <1>2, <2>2 DEF Lifecycle!Next
  <1>8. QED
    BY <1>6, <1>7

LEMMA FailShows ==
  ASSUME IInv, NEW c \in Callers, Fail(c),
         NEW i \in Ids, i = opId[c], NEW d \in Deploys, d = cur[c]
  PROVE  Lifecycle!Next \/ UNCHANGED Lifecycle!vars
  <1>1. /\ state' = [state EXCEPT ![d] = "error"]
        /\ UNCHANGED <<instances, engines>>
        /\ InFlight(c)
    BY DEF Fail, MarkError, registry, InFlight
  <1>2. idOf[d] = i /\ state[d] \in {"loading", "stopped"}
    BY <1>1 DEF IInv, TypeOK, Between, InFlight, Deployers
  <1>3. d # None
    BY <1>2, AgentAssumption
  <1>4. \A j \in Ids \ {i} : Shown(j)' = Shown(j)
    BY <1>1, <1>2, <1>3 DEF Shown, IInv, TypeOK, ListedOK
  <1>5. CASE instances[i] = d
    <2>1. Shown(i) = "loading" /\ Shown(i)' = "error"
      BY <1>1, <1>2, <1>3, <1>5 DEF Shown, IInv, TypeOK, ListedOK
    <2>2. Lifecycle!BecomeFailed(i)
      BY <1>1, <1>2, <1>4, <2>1 DEF Lifecycle!BecomeFailed
    <2>3. QED
      BY <1>2, <2>2 DEF Lifecycle!Next
  <1>6. CASE instances[i] # d
    <2>1. Shown(i)' = Shown(i)
      BY <1>1, <1>2, <1>6 DEF Shown, IInv, TypeOK
    <2>2. QED
      BY <1>1, <1>4, <2>1 DEF Lifecycle!vars
  <1>7. QED
    BY <1>5, <1>6

LEMMA LifecycleStep ==
  IInv /\ [Next]_vars => [Lifecycle!Next]_(Lifecycle!vars)
  <1> SUFFICES ASSUME IInv, [Next]_vars
               PROVE  Lifecycle!Next \/ UNCHANGED Lifecycle!vars
    OBVIOUS
  <1>1. ASSUME NEW c \in Callers, Step(c)
        PROVE  Lifecycle!Next \/ UNCHANGED Lifecycle!vars
    <2>1. CASE Redeploy(c)
      <3>1. opId[c] \in Ids
        BY <2>1 DEF Redeploy, IInv, TypeOK, Between
      <3>2. QED
        BY <2>1, <3>1, ClaimAppears DEF Redeploy
    <2>2. CASE DropRedeploy(c) \/ LoadStart(c) \/ StartFails(c) \/ WaitAnswered(c)
               \/ WaitFails(c)
      BY <2>2, HiddenStep DEF DropRedeploy, LoadStart, StartFails, WaitAnswered,
         WaitFails, registry, objects
    <2>3. CASE Register(c)
      <3>1. opId[c] \in Ids /\ cur[c] \in Deploys
        BY <2>3 DEF Register, IInv, TypeOK, Between, InFlight, Deployers
      <3>2. QED
        BY <2>3, <3>1, RegisterPublishes
    <2>4. CASE Fail(c)
      <3>1. opId[c] \in Ids /\ cur[c] \in Deploys
        BY <2>4 DEF Fail, IInv, TypeOK, Between, InFlight, Deployers
      <3>2. QED
        BY <2>4, <3>1, FailShows
    <2>5. CASE FinishStop(c)
      <3>1. /\ UNCHANGED <<instances, engines>> /\ pc[c] = "unload"
            /\ state' = [state EXCEPT ![cur[c]] = "stopped"]
        BY <2>5 DEF FinishStop, registry
      <3>2. \A id \in Ids : instances[id] # cur[c]
        BY <3>1 DEF IInv, Stoppers
      <3>3. QED
        BY <3>1, <3>2, HiddenStep DEF IInv, TypeOK
    <2>6. QED
      BY <1>1, <2>1, <2>2, <2>3, <2>4, <2>5 DEF Step
  <1>2. ASSUME NEW r \in Requests, RequestStep(r)
        PROVE  Lifecycle!Next \/ UNCHANGED Lifecycle!vars
    <2>1. ASSUME NEW id \in Ids, SweepNext(r, id)
          PROVE  Lifecycle!Next \/ UNCHANGED Lifecycle!vars
      BY <2>1, RemoveVanishes DEF SweepNext, Callers
    <2>2. CASE HandlerReturns(r)
      BY <2>2, HiddenStep DEF HandlerReturns, registry
    <2>3. QED
      BY <1>2, <2>1, <2>2 DEF RequestStep
  <1>3. ASSUME HealStep
        PROVE  Lifecycle!Next \/ UNCHANGED Lifecycle!vars
    <2>1. CASE HealStop
      <3>1. opId[Healer] \in Ids /\ Healer \in Callers
        BY <2>1 DEF HealStop, IInv, TypeOK, Between, Callers
      <3>2. QED
        BY <2>1, <3>1, RemoveVanishes DEF HealStop
    <2>2. CASE HealTick \/ HealHealthy \/ HealUnhealthy \/ \E id \in Ids : HealRead(id)
      BY <2>2, HiddenStep DEF HealTick, HealHealthy, HealUnhealthy, HealRead,
         registry, objects
    <2>3. QED
      BY <1>3, <2>1, <2>2 DEF HealStep
  <1>4. ASSUME Arrival
        PROVE  Lifecycle!Next \/ UNCHANGED Lifecycle!vars
    <2>1. ASSUME NEW c \in Requests \cup Daemons, NEW id \in Ids, NEW s \in Specs,
                 HandleDeploy(c, id, s)
          PROVE  Lifecycle!Next \/ UNCHANGED Lifecycle!vars
      BY <2>1, ClaimAppears DEF HandleDeploy, Callers
    <2>2. ASSUME NEW r \in Requests, NEW id \in Ids, HandleStop(r, id)
          PROVE  Lifecycle!Next \/ UNCHANGED Lifecycle!vars
      BY <2>2, RemoveVanishes DEF HandleStop, Callers
    <2>3. ASSUME NEW r \in Requests, NEW id \in Ids, NEW s \in Specs,
                 HandleRedeploy(r, id, s)
          PROVE  Lifecycle!Next \/ UNCHANGED Lifecycle!vars
      BY <2>3, RemoveVanishes DEF HandleRedeploy, Callers
    <2>4. ASSUME NEW r \in Requests, NEW ids \in SUBSET Ids, HandleStopModel(r, ids)
          PROVE  UNCHANGED Lifecycle!vars
      BY <2>4, HiddenStep DEF HandleStopModel, registry, objects
    <2>5. ASSUME NEW r \in Requests, ClientGone(r)
          PROVE  UNCHANGED Lifecycle!vars
      BY <2>5, HiddenStep DEF ClientGone, registry
    <2>6. QED
      BY <1>4, <2>1, <2>2, <2>3, <2>4, <2>5 DEF Arrival
  <1>5. CASE Outside
    BY <1>5, HiddenStep DEF Outside, ProcServes, ProcCrashes, ContextKills,
       OutsideService, registry, objects
  <1>6. CASE UNCHANGED vars
    BY <1>6, HiddenStep DEF vars
  <1>7. QED
    BY <1>1, <1>2, <1>3, <1>4, <1>5, <1>6 DEF Next

(* Seen through ListInstances and GetEngine, every id goes through the     *)
(* life cycle of InstanceLifecycle: state and engine are published and     *)
(* withdrawn together, and a failed or ready id is deployed again only     *)
(* after it was stopped.                                                   *)
THEOREM ImplementsLifecycleHolds == Spec => ImplementsLifecycle
  <1>1. Init => Lifecycle!Init
    <2> SUFFICES ASSUME Init PROVE Lifecycle!Init
      OBVIOUS
    <2>1. \A id \in Ids : Shown(id) = "none"
      BY DEF Init, Shown
    <2>2. \A id \in Ids : (engines[id] # None) = FALSE
      BY DEF Init
    <2>3. QED
      BY <2>1, <2>2, Zenon DEF Lifecycle!Init
  <1>2. QED
    BY <1>1, LifecycleStep, Invariance, PTL DEF Spec, ImplementsLifecycle, Lifecycle!Spec
=============================================================================
