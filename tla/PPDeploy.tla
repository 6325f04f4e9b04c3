------------------------------ MODULE PPDeploy ------------------------------
(***************************************************************************)
(* Pipeline-parallel deployment of one model (internal/scheduler/pp.go):   *)
(* Deploy asks the agents of Ranks nodes, concurrently and over HTTP, to   *)
(* load one rank each, waits for all the answers and stops the ranks that  *)
(* succeeded if one did not.  Around it: other deployments of the model,   *)
(* the sweep that stops it on every node (internal/console/deploy.go), the *)
(* health loop of each agent, restarts of nodes, answers that never come   *)
(* and callers that go away.  An agent is what InstanceLifecycle promises  *)
(* of it: the instance of rank i has the id "inst-<model>-pp<i>".          *)
(***************************************************************************)
EXTENDS Naturals, FiniteSets

CONSTANTS
  Nodes,    \* nodes of the cluster
  PP,       \* the model's PipelineParallel
  Calls,    \* calls of Deploy, each made once
  Home,     \* the node that makes them
  Healed,   \* nodes whose health loop acts; in the code, all
  Healer,   \* the maker of instances restarted by a health loop
  Upsets,   \* bound: restarts, sweeps, health loops' stops
  Losses,   \* bound: requests and answers lost
  None

Ranks == 0 .. PP - 1

ASSUME PPAssumption ==
  /\ IsFiniteSet(Nodes)
  /\ PP \in Nat /\ PP > 1
  /\ Home \in Nodes /\ Healed \subseteq Nodes /\ Upsets \in Nat /\ Losses \in Nat
  /\ Healer \notin Calls /\ None \notin Calls \cup {Healer} \cup Nodes \cup Ranks

VARIABLES
  at,      \* where each call is
  node,    \* the node it gave each rank to: Result.Nodes
  got,     \* its goroutines: the answer each has
  ids,     \* Result.InstanceIDs: the rank whose id is at each index
  next,    \* index the rollback is at
  job,     \* the deployment of each rank at its agent, and its answer
  maker,   \* who deployed the instance listed by the agent, if any
  shown,   \* its state
  healing, \* the rank the health loop restarts, or None
  visit,   \* nodes the sweep has still to list
  hit,     \* listed instances it has still to stop
  upsets,  \* how many there were
  losses,  \* how many of these
  lost,    \* history: answers that did not come, while the agent did act
  taken    \* history: instances that others than their call have stopped

coord  == <<at, node, got, ids, next>>
agents == <<maker, shown>>
sweep  == <<visit, hit>>
counts == <<upsets, losses>>
vars   == <<coord, job, agents, healing, sweep, counts, lost, taken>>

Running(c) == at[c] \in {"wait", "rollback"}
Slots == Nodes \X Ranks

Init ==
  /\ at = [c \in Calls |-> "idle"]
  /\ node = [c \in Calls |-> [i \in Ranks |-> None]]
  /\ got = [c \in Calls |-> [i \in Ranks |-> "none"]]
  /\ ids = [c \in Calls |-> [i \in Ranks |-> None]]
  /\ next = [c \in Calls |-> 0]
  /\ job = [c \in Calls |-> [i \in Ranks |-> "none"]]
  /\ maker = [s \in Slots |-> None]
  /\ shown = [s \in Slots |-> "none"]
  /\ healing = [n \in Nodes |-> None]
  /\ visit = {} /\ hit = {} /\ upsets = 0 /\ losses = 0
  /\ lost = [c \in Calls |-> {}]
  /\ taken = [c \in Calls |-> {}]

(* One more of the events that the bounds count. *)
Upset == upsets < Upsets /\ upsets' = upsets + 1 /\ UNCHANGED losses
Loss  == losses < Losses /\ losses' = losses + 1 /\ UNCHANGED upsets

-----------------------------------------------------------------------------
(* The agents, as others see them. *)

(* StopInstance of some slots, by someone who is the call c or no call.    *)
Vacate(S, c) ==
  /\ maker' = [s \in Slots |-> IF s \in S THEN None ELSE maker[s]]
  /\ shown' = [s \in Slots |-> IF s \in S THEN "none" ELSE shown[s]]
  /\ taken' = [d \in Calls |-> taken[d] \cup
                 (IF d = c THEN {} ELSE {s[2] : s \in {t \in S : maker[t] = d}})]

(* DeployInstance takes a free id. *)
Occupy(s, m) ==
  /\ maker' = [maker EXCEPT ![s] = m]
  /\ shown' = [shown EXCEPT ![s] = "loading"]

(* The load ends: its own instance shows how, if it is still listed.  The  *)
(* mutant looks the instance up by its id.                                 *)
ShowById(s, m, how) == shown' = [shown EXCEPT ![s] = how]
Show(s, m, how) == shown' = [shown EXCEPT ![s] = IF maker[s] = m THEN how ELSE @]

(* The slot of a call's rank. *)
At(c, i) == <<node[c][i], i>>

(* The answer goes to the goroutine if that still waits for it. *)
Heard(c, i, a) == IF at[c] = "wait" /\ got[c][i] = "waiting" THEN a ELSE "none"

(* POST /api/deploy: refused if the id is taken. *)
AgentDeploys(c, i) ==
  /\ job[c][i] = "sent"
  /\ \/ /\ maker[At(c, i)] = None
        /\ Occupy(At(c, i), c)
        /\ job' = [job EXCEPT ![c][i] = "loading"]
     \/ /\ maker[At(c, i)] # None
        /\ job' = [job EXCEPT ![c][i] = Heard(c, i, "no")]
        /\ UNCHANGED agents
  /\ UNCHANGED <<coord, healing, sweep, lost, taken, counts>>

(* The load ends well or badly. *)
AgentAnswers(c, i) ==
  /\ job[c][i] = "loading"
  /\ \/ /\ Show(At(c, i), c, "ready")
        /\ job' = [job EXCEPT ![c][i] = Heard(c, i, "yes")]
     \/ /\ Show(At(c, i), c, "error")
        /\ job' = [job EXCEPT ![c][i] = Heard(c, i, "no")]
  /\ UNCHANGED <<coord, maker, healing, sweep, lost, taken, counts>>

(* HealthCheck stops an instance that has failed or looks failed, ... *)
HealStop(n, i) ==
  /\ n \in Healed /\ healing[n] = None /\ maker[<<n, i>>] # None
  /\ Vacate({<<n, i>>}, None)
  /\ healing' = [healing EXCEPT ![n] = [to |-> "deploy", rank |-> i]]
  /\ Upset
  /\ UNCHANGED <<coord, job, sweep, lost>>

(* ... deploys it again unless someone else has, ... *)
HealDeploy(n) ==
  /\ healing[n] # None /\ healing[n].to = "deploy"
  /\ LET s == <<n, healing[n].rank>> IN
     \/ /\ maker[s] = None
        /\ Occupy(s, Healer)
        /\ healing' = [healing EXCEPT ![n].to = "load"]
     \/ /\ maker[s] # None
        /\ healing' = [healing EXCEPT ![n] = None]
        /\ UNCHANGED agents
  /\ UNCHANGED <<coord, job, sweep, lost, taken, counts>>

(* ... and waits until that ends. *)
HealEnds(n) ==
  /\ healing[n] # None /\ healing[n].to = "load"
  /\ \E how \in {"ready", "error"} : Show(<<n, healing[n].rank>>, Healer, how)
  /\ healing' = [healing EXCEPT ![n] = None]
  /\ UNCHANGED <<coord, job, maker, sweep, lost, taken, counts>>

(* The variables of calls that return an error, or die, are gone. *)
Forget(D) ==
  /\ got' = [c \in Calls |-> IF c \in D THEN [i \in Ranks |-> "none"] ELSE got[c]]
  /\ ids' = [c \in Calls |-> IF c \in D THEN [i \in Ranks |-> None] ELSE ids[c]]
  /\ next' = [c \in Calls |-> IF c \in D THEN 0 ELSE next[c]]

(* A node restarts: its instances are gone, and with them what its agent   *)
(* was doing; the calls made from it die, as do the routes of those that   *)
(* succeeded.                                                              *)
Restart(n) ==
  /\ Vacate({n} \X Ranks, None)
  /\ healing' = [healing EXCEPT ![n] = None]
  /\ job' = [c \in Calls |-> [i \in Ranks |->
               IF node[c][i] = n THEN "none" ELSE job[c][i]]]
  /\ LET D == IF n = Home THEN {c \in Calls : Running(c) \/ at[c] = "ok"} ELSE {} IN
       /\ at' = [c \in Calls |-> IF c \in D THEN "dead" ELSE at[c]]
       /\ Forget(D)
  /\ visit' = IF n = Home THEN {} ELSE visit
  /\ hit' = IF n = Home THEN {} ELSE hit
  /\ Upset
  /\ UNCHANGED <<node, lost>>

-----------------------------------------------------------------------------
(* PPCoordinator.Deploy. *)

(* The nodes come in any order (memberlist shuffles them), PP different    *)
(* ones.  With fewer alive the call fails at once.                         *)
Start(c) ==
  /\ at[c] = "idle"
  /\ \/ /\ \E f \in [Ranks -> Nodes] :
             /\ \A i, j \in Ranks : f[i] = f[j] => i = j
             /\ node' = [node EXCEPT ![c] = f]
        /\ at' = [at EXCEPT ![c] = "wait"]
        /\ got' = [got EXCEPT ![c] = [i \in Ranks |-> "waiting"]]
        /\ job' = [job EXCEPT ![c] = [i \in Ranks |-> "sent"]]
     \/ /\ at' = [at EXCEPT ![c] = "failed"]
        /\ UNCHANGED <<node, got, job>>
  /\ UNCHANGED <<ids, next, agents, healing, sweep, lost, taken, counts>>

(* A goroutine has the answer "created": it notes the id under its rank.   *)
(* The mutants append it to the list, and note the id whatever the answer. *)
Appended(c, i) ==
  LET free == {k \in Ranks : ids[c][k] = None} IN
  ids' = [ids EXCEPT ![c][CHOOSE k \in free : \A l \in free : k <= l] = i]
Noted(c, i) == ids' = [ids EXCEPT ![c][i] = i]
NotedAlways(c, i) == Noted(c, i)
NotedNever(c, i) == UNCHANGED ids

AnswerYes(c, i) ==
  /\ at[c] = "wait" /\ got[c][i] = "waiting" /\ job[c][i] = "yes"
  /\ Noted(c, i)
  /\ got' = [got EXCEPT ![c][i] = "yes"]
  /\ job' = [job EXCEPT ![c][i] = "none"]
  /\ UNCHANGED <<at, node, next, agents, healing, sweep, lost, taken, counts>>

(* It has a refusal or a failure. *)
AnswerNo(c, i) ==
  /\ at[c] = "wait" /\ got[c][i] = "waiting" /\ job[c][i] = "no"
  /\ NotedNever(c, i)
  /\ got' = [got EXCEPT ![c][i] = "no"]
  /\ job' = [job EXCEPT ![c][i] = "none"]
  /\ UNCHANGED <<at, node, next, agents, healing, sweep, lost, taken, counts>>

(* It has an error instead of an answer: the connection breaks, ten        *)
(* minutes have passed, or the context has ended.  What the agent has      *)
(* begun goes on; a request not handled yet may still be.                  *)
NoAnswer(c, i) ==
  /\ at[c] = "wait" /\ got[c][i] = "waiting"
  /\ got' = [got EXCEPT ![c][i] = "no"]
  /\ \/ /\ job[c][i] = "none"
        /\ UNCHANGED <<job, lost, counts>>
     \/ /\ job[c][i] \in {"sent", "no"}
        /\ job' = [job EXCEPT ![c][i] = "none"]
        /\ Loss
        /\ UNCHANGED lost
     \/ /\ job[c][i] \in {"sent", "loading", "yes"}
        /\ job' = [job EXCEPT ![c][i] = IF @ = "yes" THEN "none" ELSE @]
        /\ lost' = [lost EXCEPT ![c] = @ \cup {i}]
        /\ Loss
  /\ UNCHANGED <<at, node, ids, next, agents, healing, sweep, taken>>

(* All goroutines are done: success, or the rollback.  The mutant waits    *)
(* for the first only.                                                     *)
SomeIn(c) == \E i \in Ranks : got[c][i] # "waiting"
AllIn(c)  == \A i \in Ranks : got[c][i] # "waiting"
Wait(c) ==
  /\ at[c] = "wait" /\ AllIn(c)
  /\ at' = [at EXCEPT ![c] = IF \E i \in Ranks : got[c][i] = "no" THEN "rollback" ELSE "ok"]
  /\ UNCHANGED <<node, got, ids, next, job, agents, healing, sweep, lost, taken, counts>>

(* One turn of the rollback: stop the id at this index, on the node of     *)
(* this index.  Its outcome is ignored: the request may be lost, and with  *)
(* the context of the call ended it is never sent.  The mutant advances  *)
(* once more where there is nothing to stop.                               *)
AdvanceTwice(c) ==
  next' = [next EXCEPT ![c] = IF ids[c][@] = None THEN @ + 2 ELSE @ + 1]
Advance(c) == next' = [next EXCEPT ![c] = @ + 1]
Rollback(c) ==
  /\ at[c] = "rollback" /\ next[c] < PP
  /\ LET k == next[c] IN
     \/ /\ ids[c][k] = None
        /\ UNCHANGED <<agents, lost, taken, counts>>
     \/ /\ ids[c][k] # None
        /\ Vacate({<<node[c][k], ids[c][k]>>}, c)
        /\ UNCHANGED <<lost, counts>>
     \/ /\ ids[c][k] # None
        /\ lost' = [lost EXCEPT ![c] = @ \cup {k}]
        /\ Loss
        /\ UNCHANGED <<agents, taken>>
  /\ Advance(c)
  /\ UNCHANGED <<at, node, got, ids, job, healing, sweep>>

RolledBack(c) ==
  /\ at[c] = "rollback" /\ next[c] = PP
  /\ at' = [at EXCEPT ![c] = "failed"]
  /\ Forget({c})
  /\ UNCHANGED <<node, job, agents, healing, sweep, lost, taken, counts>>

-----------------------------------------------------------------------------
(* stopModelEverywhere: each node, this one first, lists the model's       *)
(* instances, and each of them is stopped.  What other nodes do not answer *)
(* is passed over.                                                         *)
SweepStart ==
  /\ visit = {} /\ hit = {}
  /\ visit' = Nodes
  /\ Upset
  /\ UNCHANGED <<coord, job, agents, healing, hit, lost, taken>>

SweepList(n) ==
  /\ n \in visit /\ hit = {}
  /\ Home \in visit => n = Home
  /\ visit' = visit \ {n}
  /\ \/ hit' = {s \in {n} \X Ranks : maker[s] # None}
     \/ n # Home /\ UNCHANGED hit
  /\ UNCHANGED <<coord, job, agents, healing, lost, taken, counts>>

SweepStop(s) ==
  /\ s \in hit
  /\ hit' = hit \ {s}
  /\ \/ Vacate({s}, None)
     \/ s[1] # Home /\ UNCHANGED <<agents, taken>>
  /\ UNCHANGED <<coord, job, healing, visit, lost, counts>>

-----------------------------------------------------------------------------
Deploying(c) ==
  \/ Start(c) \/ Wait(c) \/ Rollback(c) \/ RolledBack(c)
  \/ \E i \in Ranks : \/ AgentDeploys(c, i) \/ AgentAnswers(c, i)
                      \/ AnswerYes(c, i) \/ AnswerNo(c, i) \/ NoAnswer(c, i)

Next ==
  \/ \E c \in Calls : Deploying(c)
  \/ \E n \in Nodes : \/ \E i \in Ranks : HealStop(n, i)
                      \/ HealDeploy(n) \/ HealEnds(n) \/ Restart(n) \/ SweepList(n)
  \/ SweepStart
  \/ \E s \in Slots : SweepStop(s)

Spec == Init /\ [][Next]_vars
-----------------------------------------------------------------------------
(* Properties. *)

(* Every variable has its type; the rollback stays within the list. *)
TypeOK ==
  /\ at \in [Calls -> {"idle", "wait", "rollback", "ok", "failed", "dead"}]
  /\ node \in [Calls -> [Ranks -> Nodes \cup {None}]]
  /\ got \in [Calls -> [Ranks -> {"none", "waiting", "yes", "no"}]]
  /\ ids \in [Calls -> [Ranks -> Ranks \cup {None}]]
  /\ next \in [Calls -> 0 .. PP]
  /\ job \in [Calls -> [Ranks -> {"none", "sent", "loading", "yes", "no"}]]
  /\ maker \in [Slots -> Calls \cup {Healer, None}]
  /\ shown \in [Slots -> {"none", "loading", "ready", "error"}]
  /\ healing \in [Nodes -> [to : {"deploy", "load"}, rank : Ranks] \cup {None}]
  /\ visit \subseteq Nodes /\ hit \subseteq Slots /\ upsets \in 0 .. Upsets
  /\ losses \in 0 .. Losses
  /\ lost \in [Calls -> SUBSET Ranks] /\ taken \in [Calls -> SUBSET Ranks]

(* A call that succeeds has deployed every rank, each on the node noted    *)
(* for it, and it is ready there unless somebody has stopped it since.     *)
SuccessIsWhole ==
  \A c \in Calls : at[c] = "ok" =>
    \A i \in Ranks \ taken[c] : maker[At(c, i)] = c /\ shown[At(c, i)] = "ready"

(* A call that fails leaves none of its own instances loading or ready, on *)
(* whatever nodes and in whatever order they were deployed, except those   *)
(* it had no answer about.                                                 *)
FailureIsRolledBack ==
  \A c \in Calls : at[c] = "failed" =>
    \A i \in Ranks \ lost[c] :
      node[c][i] # None /\ maker[At(c, i)] = c => shown[At(c, i)] = "error"

(* A rollback stops the instances of its own call; it hits another's only  *)
(* if that took the place of one of its own that somebody stopped.         *)
RollbackSparesOthers ==
  [][\A c \in Calls : Rollback(c) =>
       \A i \in Ranks : node[c][i] # None /\ maker[At(c, i)] \notin {c, None}
                        /\ maker'[At(c, i)] = None => i \in taken[c]]_vars
(* What has become of a rank of a call: its agent is asked for it, loads   *)
(* it or has it ready; or the rank was refused, has failed or is stopped.  *)
RankOf(c, i) ==
  IF at[c] = "idle" THEN "idle"
  ELSE IF job[c][i] = "sent" THEN "asked"
  ELSE IF /\ node[c][i] # None
          /\ maker[At(c, i)] = c /\ shown[At(c, i)] \in {"loading", "ready"}
       THEN shown[At(c, i)]
  ELSE "gone"

RanksOf(c) == [i \in Ranks |-> RankOf(c, i)]

Atomic(c) == INSTANCE AtomicDeploy WITH
  outcome <- at[c], rank <- RanksOf(c), lost <- lost[c], taken <- taken[c]

(* Every call is all or nothing as AtomicDeploy has it: a step of the      *)
(* coordinator, an agent, a sweep, a health loop or a restart is a step of *)
(* the abstract deployment, or changes nothing in it.                      *)
ImplementsAtomic ==
  /\ \A c \in Calls : Atomic(c)!Init
  /\ [][\A c \in Calls : UNCHANGED Atomic(c)!vars \/ Atomic(c)!Next]_vars
=============================================================================
