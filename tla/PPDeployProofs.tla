--------------------------- MODULE PPDeployProofs ---------------------------
(***************************************************************************)
(* What a pipeline-parallel deployment leaves behind, for any number of    *)
(* nodes, ranks and calls, and however often nodes restart, answers are    *)
(* lost, and sweeps and health loops interfere.  Types first, then the     *)
(* inductive invariant IInv, what others may do to a call (Spared), one    *)
(* lemma per action, and the theorems; then the refinement of AtomicDeploy *)
(* with the invariant of its mapping (MapInv) and, again, one lemma per    *)
(* action; last, all of it again among the agents of OpenDeploy.           *)
(***************************************************************************)
EXTENDS OpenDeploy, TLAPS

USE DEF counts

(* A step of PPDeploy keeps the types.  The bound of the rollback is what   *)
(* takes a look: the index moves only below PP.                            *)
LEMMA TypeStep ==
  ASSUME TypeOK, [Next]_vars
  PROVE  TypeOK'
<1>1. ASSUME NEW c \in Calls, NEW i \in Ranks, AgentDeploys(c, i) PROVE TypeOK'
  <2>1. job' \in [Calls -> [Ranks -> {"none", "sent", "loading", "yes", "no"}]]
    <3>1. \E v \in {"loading", "no", "none"} : job' = [job EXCEPT ![c][i] = v]
      BY <1>1 DEF AgentDeploys, Heard
    <3>2. QED
      BY <3>1 DEF TypeOK
  <2>2. /\ maker' \in [Slots -> Calls \cup {Healer, None}]
        /\ shown' \in [Slots -> {"none", "loading", "ready", "error"}]
    <3>1. \/ /\ maker' = [maker EXCEPT ![At(c, i)] = c]
             /\ shown' = [shown EXCEPT ![At(c, i)] = "loading"]
          \/ UNCHANGED <<maker, shown>>
      BY <1>1 DEF AgentDeploys, Occupy, agents
    <3>2. QED
      BY <3>1 DEF TypeOK
  <2>3. QED
    BY <1>1, <2>1, <2>2 DEF AgentDeploys, TypeOK, coord, sweep
<1>2. ASSUME NEW c \in Calls, NEW i \in Ranks, AgentAnswers(c, i) PROVE TypeOK'
  <2>1. job' \in [Calls -> [Ranks -> {"none", "sent", "loading", "yes", "no"}]]
    <3>1. \E v \in {"yes", "no", "none"} : job' = [job EXCEPT ![c][i] = v]
      BY <1>2 DEF AgentAnswers, Heard
    <3>2. QED
      BY <3>1 DEF TypeOK
  <2>2. shown' \in [Slots -> {"none", "loading", "ready", "error"}]
    <3>1. PICK how \in {"ready", "error"} : Show(At(c, i), c, how)
      BY <1>2 DEF AgentAnswers
    <3>2. QED
      BY <3>1 DEF Show, TypeOK
  <2>3. QED
    BY <1>2, <2>1, <2>2 DEF AgentAnswers, TypeOK, coord, sweep
<1>3. ASSUME NEW n \in Nodes, NEW i \in Ranks, HealStop(n, i) PROVE TypeOK'
  BY <1>3, PPAssumption DEF HealStop, Vacate, Upset, TypeOK, coord, sweep, Slots
<1>4. ASSUME NEW n \in Nodes, HealDeploy(n) PROVE TypeOK'
  <2>1. healing[n] \in [to : {"deploy", "load"}, rank : Ranks]
    BY <1>4 DEF HealDeploy, TypeOK
  <2>2. healing' \in [Nodes -> [to : {"deploy", "load"}, rank : Ranks] \cup {None}]
    BY <1>4, <2>1 DEF HealDeploy, TypeOK
  <2>3. /\ maker' \in [Slots -> Calls \cup {Healer, None}]
        /\ shown' \in [Slots -> {"none", "loading", "ready", "error"}]
    BY <1>4 DEF HealDeploy, Occupy, TypeOK, agents
  <2>4. QED
    BY <1>4, <2>2, <2>3 DEF HealDeploy, TypeOK, coord, sweep
<1>5. ASSUME NEW n \in Nodes, HealEnds(n) PROVE TypeOK'
  <2>1. PICK how \in {"ready", "error"} : Show(<<n, healing[n].rank>>, Healer, how)
    BY <1>5 DEF HealEnds
  <2>2. shown' \in [Slots -> {"none", "loading", "ready", "error"}]
    BY <2>1 DEF Show, TypeOK
  <2>3. QED
    BY <1>5, <2>2 DEF HealEnds, TypeOK, coord, sweep
<1>6. ASSUME NEW n \in Nodes, Restart(n) PROVE TypeOK'
  BY <1>6, PPAssumption DEF Restart, Vacate, Forget, Upset, TypeOK, Slots
<1>7. ASSUME NEW c \in Calls, Start(c) PROVE TypeOK'
  <2>1. /\ at' \in [Calls -> {"idle", "wait", "rollback", "ok", "failed", "dead"}]
        /\ node' \in [Calls -> [Ranks -> Nodes \cup {None}]]
    <3>1. at' = [at EXCEPT ![c] = "wait"] \/ at' = [at EXCEPT ![c] = "failed"]
      BY <1>7 DEF Start
    <3>2. \/ \E f \in [Ranks -> Nodes] : node' = [node EXCEPT ![c] = f]
          \/ UNCHANGED node
      BY <1>7 DEF Start
    <3>3. at' \in [Calls -> {"idle", "wait", "rollback", "ok", "failed", "dead"}]
      BY <3>1 DEF TypeOK
    <3>4. ASSUME NEW f \in [Ranks -> Nodes], node' = [node EXCEPT ![c] = f]
          PROVE  node' \in [Calls -> [Ranks -> Nodes \cup {None}]]
      <4>1. f \in [Ranks -> Nodes \cup {None}]
        OBVIOUS
      <4>2. QED
        BY <3>4, <4>1 DEF TypeOK
    <3>5. QED
      BY <3>2, <3>3, <3>4 DEF TypeOK
  <2>2. /\ got' \in [Calls -> [Ranks -> {"none", "waiting", "yes", "no"}]]
        /\ job' \in [Calls -> [Ranks -> {"none", "sent", "loading", "yes", "no"}]]
    <3>1. \/ /\ got' = [got EXCEPT ![c] = [i \in Ranks |-> "waiting"]]
             /\ job' = [job EXCEPT ![c] = [i \in Ranks |-> "sent"]]
          \/ UNCHANGED <<got, job>>
      BY <1>7 DEF Start
    <3>2. /\ [i \in Ranks |-> "waiting"] \in [Ranks -> {"none", "waiting", "yes", "no"}]
          /\ [i \in Ranks |-> "sent"]
                \in [Ranks -> {"none", "sent", "loading", "yes", "no"}]
      OBVIOUS
    <3>3. got' \in [Calls -> [Ranks -> {"none", "waiting", "yes", "no"}]]
      BY <3>1, <3>2 DEF TypeOK
    <3>4. job' \in [Calls -> [Ranks -> {"none", "sent", "loading", "yes", "no"}]]
      BY <3>1, <3>2 DEF TypeOK
    <3>5. QED
      BY <3>3, <3>4
  <2>3. QED
    BY <1>7, <2>1, <2>2 DEF Start, TypeOK, agents, sweep
<1>8. ASSUME NEW c \in Calls, NEW i \in Ranks, AnswerYes(c, i) PROVE TypeOK'
  BY <1>8 DEF AnswerYes, Noted, TypeOK, agents, sweep
<1>9. ASSUME NEW c \in Calls, NEW i \in Ranks, AnswerNo(c, i) PROVE TypeOK'
  BY <1>9 DEF AnswerNo, NotedNever, TypeOK, agents, sweep
<1>10. ASSUME NEW c \in Calls, NEW i \in Ranks, NoAnswer(c, i) PROVE TypeOK'
  <2>1. /\ got' \in [Calls -> [Ranks -> {"none", "waiting", "yes", "no"}]]
        /\ job' \in [Calls -> [Ranks -> {"none", "sent", "loading", "yes", "no"}]]
    <3>1. \E v \in {"none", job[c][i]} :
            job' = [job EXCEPT ![c][i] = v] \/ UNCHANGED job
      BY <1>10 DEF NoAnswer
    <3>2. got' = [got EXCEPT ![c][i] = "no"]
      BY <1>10 DEF NoAnswer
    <3>3. job[c][i] \in {"none", "sent", "loading", "yes", "no"}
      BY DEF TypeOK
    <3>4. job' \in [Calls -> [Ranks -> {"none", "sent", "loading", "yes", "no"}]]
      <4>1. PICK v \in {"none", "sent", "loading", "yes", "no"} :
              job' = [job EXCEPT ![c][i] = v] \/ UNCHANGED job
        BY <3>1, <3>3
      <4>2. CASE job' = [job EXCEPT ![c][i] = v]
        BY <4>2 DEF TypeOK
      <4>3. CASE UNCHANGED job
        BY <4>3 DEF TypeOK
      <4>4. QED
        BY <4>1, <4>2, <4>3
    <3>5. got' \in [Calls -> [Ranks -> {"none", "waiting", "yes", "no"}]]
      BY <3>2 DEF TypeOK
    <3>6. QED
      BY <3>4, <3>5
  <2>2. lost' \in [Calls -> SUBSET Ranks] /\ upsets' \in 0 .. Upsets /\ losses' \in 0 .. Losses
    <3>1. \E S \in SUBSET Ranks : lost' = [lost EXCEPT ![c] = S]
      <4>1. lost[c] \in SUBSET Ranks /\ lost = [lost EXCEPT ![c] = lost[c]]
        BY DEF TypeOK
      <4>2. lost[c] \cup {i} \in SUBSET Ranks
        BY <4>1
      <4>3. lost' = [lost EXCEPT ![c] = lost[c] \cup {i}] \/ UNCHANGED lost
        BY <1>10 DEF NoAnswer
      <4>4. QED
        BY <4>1, <4>2, <4>3
    <3>2. Loss \/ UNCHANGED counts
      BY <1>10 DEF NoAnswer
    <3>3. lost' \in [Calls -> SUBSET Ranks]
      BY <3>1 DEF TypeOK
    <3>4. upsets' \in 0 .. Upsets /\ losses' \in 0 .. Losses
      BY <3>2, PPAssumption DEF Loss, TypeOK
    <3>5. QED
      BY <3>3, <3>4
  <2>3. QED
    BY <1>10, <2>1, <2>2 DEF NoAnswer, TypeOK, agents, sweep
<1>11. ASSUME NEW c \in Calls, Wait(c) PROVE TypeOK'
  BY <1>11 DEF Wait, TypeOK, agents, sweep
<1>12. ASSUME NEW c \in Calls, Rollback(c) PROVE TypeOK'
  <2>1. next' \in [Calls -> 0 .. PP]
    BY <1>12, PPAssumption DEF Rollback, Advance, TypeOK
  <2>2. next[c] \in Ranks
    BY <1>12, PPAssumption DEF Rollback, TypeOK, Ranks
  <2>3. lost' \in [Calls -> SUBSET Ranks] /\ upsets' \in 0 .. Upsets /\ losses' \in 0 .. Losses
    <3>1. \E S \in SUBSET Ranks : lost' = [lost EXCEPT ![c] = S]
      <4>1. lost[c] \in SUBSET Ranks /\ lost = [lost EXCEPT ![c] = lost[c]]
        BY DEF TypeOK
      <4>2. lost[c] \cup {next[c]} \in SUBSET Ranks
        BY <2>2, <4>1
      <4>3. lost' = [lost EXCEPT ![c] = lost[c] \cup {next[c]}] \/ UNCHANGED lost
        BY <1>12 DEF Rollback
      <4>4. QED
        BY <4>1, <4>2, <4>3
    <3>2. Loss \/ UNCHANGED counts
      BY <1>12 DEF Rollback
    <3>3. lost' \in [Calls -> SUBSET Ranks]
      BY <3>1 DEF TypeOK
    <3>4. upsets' \in 0 .. Upsets /\ losses' \in 0 .. Losses
      BY <3>2, PPAssumption DEF Loss, TypeOK
    <3>5. QED
      BY <3>3, <3>4
  <2>4. ids[c][next[c]] # None => ids[c][next[c]] \in Ranks
    BY <2>2 DEF TypeOK
  <2>5. /\ maker' \in [Slots -> Calls \cup {Healer, None}]
        /\ shown' \in [Slots -> {"none", "loading", "ready", "error"}]
    BY <1>12 DEF Rollback, Vacate, TypeOK, agents
  <2>6. taken' \in [Calls -> SUBSET Ranks]
    BY <1>12, <2>2, <2>4 DEF Rollback, Vacate, TypeOK
  <2>7. QED
    BY <1>12, <2>1, <2>3, <2>5, <2>6 DEF Rollback, TypeOK, sweep
<1>13. ASSUME NEW c \in Calls, RolledBack(c) PROVE TypeOK'
  BY <1>13, PPAssumption DEF RolledBack, Forget, TypeOK, agents, sweep
<1>14. CASE SweepStart
  BY <1>14, PPAssumption DEF SweepStart, Upset, TypeOK, coord, agents
<1>15. ASSUME NEW n \in Nodes, SweepList(n) PROVE TypeOK'
  BY <1>15 DEF SweepList, TypeOK, coord, agents, Slots
<1>16. ASSUME NEW s \in Slots, SweepStop(s) PROVE TypeOK'
  BY <1>16 DEF SweepStop, Vacate, TypeOK, coord, agents, Slots
<1>17. CASE UNCHANGED vars
  BY <1>17 DEF vars, coord, agents, sweep, TypeOK
<1>18. QED
  BY <1>1, <1>2, <1>3, <1>4, <1>5, <1>6, <1>7, <1>8, <1>9, <1>10, <1>11, <1>12,
     <1>13, <1>14, <1>15, <1>16, <1>17 DEF Next, Deploying

LEMMA TypeInit == Init => TypeOK
BY PPAssumption DEF Init, TypeOK, Ranks

(* TypeOK holds.                                                           *)
THEOREM TypeCorrect == Spec => []TypeOK
<1>1. TypeOK /\ [Next]_vars => TypeOK'
  BY TypeStep
<1>2. QED
  BY <1>1, TypeInit, PTL DEF Spec

-----------------------------------------------------------------------------
(* The inductive invariant, one rank of one call at a time. *)

Placed(c, i) == node[c][i] \in Nodes
Mine(c, i)   == maker[At(c, i)] = c
Live(c, i)   == Mine(c, i) /\ shown[At(c, i)] # "error"

(* The instance is ready, or somebody has stopped it. *)
Kept(c, i) == i \in taken[c] \/ (Mine(c, i) /\ shown[At(c, i)] = "ready")

(* No instance is left, nor an agent that may still make one, or the call  *)
(* was not told.                                                           *)
Cleared(c, i) == i \in lost[c] \/ (job[c][i] = "none" /\ ~Live(c, i))

(* What a goroutine has written agrees with what the agents have.          *)
Accounted(c, i) ==
  /\ got[c][i] = "waiting" =>
       /\ ids[c][i] = None
       /\ job[c][i] = "yes" => Kept(c, i)
       /\ job[c][i] \in {"no", "none"} => ~Live(c, i)
  /\ got[c][i] = "yes" => ids[c][i] = i /\ job[c][i] = "none" /\ Kept(c, i)
  /\ got[c][i] = "no" => ids[c][i] = None /\ Cleared(c, i)

RankInv(c, i) ==
  /\ at[c] = "idle" => job[c][i] = "none" /\ ids[c][i] = None /\ node[c][i] = None
  /\ job[c][i] = "sent" => Placed(c, i) /\ ~Mine(c, i)
  /\ job[c][i] = "loading" => Placed(c, i) /\ (Mine(c, i) \/ i \in taken[c])
  /\ at[c] = "wait" => Placed(c, i) /\ got[c][i] # "none" /\ Accounted(c, i)
  /\ at[c] = "rollback" =>
       /\ Placed(c, i) /\ got[c][i] \in {"yes", "no"}
       /\ i >= next[c] => Accounted(c, i)
       /\ i < next[c] => Cleared(c, i)
  /\ at[c] = "ok" => Placed(c, i) /\ job[c][i] = "none" /\ Kept(c, i)
  /\ at[c] = "failed" => node[c][i] = None \/ Cleared(c, i)

CallInv(c) ==
  /\ at[c] \in {"idle", "wait"} => next[c] = 0
  /\ at[c] = "idle" => \A s \in Slots : maker[s] # c
  /\ \A i \in Ranks : RankInv(c, i)

IInv == TypeOK /\ \A c \in Calls : CallInv(c)

-----------------------------------------------------------------------------
(* What others may do to a call: they make no instance in its name and     *)
(* change none that is in its name, except to stop it, which taken notes.  *)
Spared(c, s) ==
  /\ maker'[s] = c => maker[s] = c /\ shown'[s] = shown[s]
  /\ maker[s] = c /\ maker'[s] # c => s[2] \in taken'[c]

(* StopInstance by anybody else spares a call's slots: taken notes it.     *)
LEMMA VacateSpares ==
  ASSUME TypeOK, NEW S \in SUBSET Slots, NEW d, Vacate(S, d),
         NEW c \in Calls, NEW s \in Slots, c # d \/ s \notin S
  PROVE  Spared(c, s)
<1>1. maker'[s] = (IF s \in S THEN None ELSE maker[s])
      /\ shown'[s] = (IF s \in S THEN "none" ELSE shown[s])
  BY DEF Vacate
<1>2. CASE s \in S
  <2>1. maker'[s] # c
    BY <1>1, <1>2, PPAssumption
  <2>2. ASSUME maker[s] = c PROVE s[2] \in taken'[c]
    <3>1. s[2] \in {t[2] : t \in {u \in S : maker[u] = c}}
      BY <1>2, <2>2
    <3>2. taken'[c] = taken[c] \cup {t[2] : t \in {u \in S : maker[u] = c}}
      BY <1>2 DEF Vacate
    <3>3. QED
      BY <3>1, <3>2
  <2>3. QED
    BY <2>1, <2>2 DEF Spared
<1>3. CASE s \notin S
  BY <1>1, <1>3 DEF Spared
<1>4. QED
  BY <1>2, <1>3

(* What taken notes stays noted.                                           *)
LEMMA VacateNotes ==
  ASSUME TypeOK, NEW S, NEW d, Vacate(S, d), NEW c \in Calls
  PROVE  taken[c] \subseteq taken'[c]
BY DEF Vacate

(* DeployInstance of another slot, or by another, spares a call's slot: it *)
(* never replaces an instance.                                             *)
LEMMA OccupySpares ==
  ASSUME TypeOK, NEW t \in Slots, NEW m, Occupy(t, m), maker[t] = None,
         NEW c \in Calls, NEW s \in Slots, s # t \/ c # m
  PROVE  Spared(c, s)
BY PPAssumption DEF Occupy, Spared, TypeOK

(* A load that ends changes the state of its own instance only.            *)
LEMMA ShowSpares ==
  ASSUME TypeOK, NEW t \in Slots, NEW m, NEW how, Show(t, m, how), UNCHANGED maker,
         NEW c \in Calls, NEW s \in Slots, s # t \/ c # m
  PROVE  Spared(c, s)
BY DEF Show, Spared, TypeOK

(* The invariant of a rank survives a step that leaves the rank's own      *)
(* state alone and spares its slot; a rollback may pass over other ranks.  *)
LEMMA RankFrame ==
  ASSUME TypeOK, NEW c \in Calls, NEW i \in Ranks, RankInv(c, i),
         at'[c] = at[c], node'[c][i] = node[c][i], got'[c][i] = got[c][i],
         ids'[c][i] = ids[c][i], job'[c][i] = job[c][i], lost[c] \subseteq lost'[c],
         i < next'[c] <=> i < next[c], i >= next'[c] <=> i >= next[c],
         taken[c] \subseteq taken'[c],
         \A s \in Slots : s = At(c, i) => Spared(c, s)
  PROVE  RankInv(c, i)'
<1>1. At(c, i)' = At(c, i) /\ At(c, i)[2] = i
  BY DEF At
<1>2. ASSUME Placed(c, i)
      PROVE  /\ Mine(c, i)' => Mine(c, i)
             /\ Live(c, i)' => Live(c, i)
             /\ Kept(c, i) => Kept(c, i)'
             /\ Mine(c, i) \/ i \in taken[c] => Mine(c, i)' \/ i \in taken'[c]
             /\ Cleared(c, i) => Cleared(c, i)'
  <2>1. PICK s \in Slots : s = At(c, i)
    BY <1>2 DEF Placed, Slots, At
  <2>2. Spared(c, s) /\ s[2] = i
    BY <1>1, <2>1
  <2>3. /\ maker'[s] = c => maker[s] = c /\ shown'[s] = shown[s]
        /\ maker[s] = c /\ maker'[s] # c => i \in taken'[c]
    BY <2>2 DEF Spared
  <2>4. /\ Mine(c, i) <=> maker[s] = c
        /\ Mine(c, i)' <=> maker'[s] = c
        /\ Live(c, i) <=> maker[s] = c /\ shown[s] # "error"
        /\ Live(c, i)' <=> maker'[s] = c /\ shown'[s] # "error"
        /\ Kept(c, i) <=> i \in taken[c] \/ (maker[s] = c /\ shown[s] = "ready")
        /\ Kept(c, i)' <=> i \in taken'[c] \/ (maker'[s] = c /\ shown'[s] = "ready")
    BY <1>1, <2>1 DEF Mine, Live, Kept
  <2>5. /\ Cleared(c, i) <=> i \in lost[c] \/ (job[c][i] = "none" /\ ~Live(c, i))
        /\ Cleared(c, i)' <=> i \in lost'[c] \/ (job'[c][i] = "none" /\ ~Live(c, i)')
    BY DEF Cleared
  <2>6. QED
    BY <2>3, <2>4, <2>5
<1>3. Placed(c, i)' <=> Placed(c, i)
  BY DEF Placed
<1>4. ASSUME Placed(c, i), Accounted(c, i) PROVE Accounted(c, i)'
  BY <1>2, <1>4 DEF Accounted
<1>5. ASSUME node[c][i] # None PROVE Placed(c, i)
  BY <1>5 DEF Placed, TypeOK
<1>6. QED
  BY <1>2, <1>3, <1>4, <1>5 DEF RankInv

(* The invariant of a call survives what only others do. *)
LEMMA CallFrame ==
  ASSUME TypeOK, NEW c \in Calls, CallInv(c),
         at'[c] = at[c], node'[c] = node[c], got'[c] = got[c], ids'[c] = ids[c],
         job'[c] = job[c], next'[c] = next[c], lost'[c] = lost[c],
         taken[c] \subseteq taken'[c],
         \A s \in Slots : Spared(c, s)
  PROVE  CallInv(c)'
<1>1. ASSUME NEW i \in Ranks PROVE RankInv(c, i)'
  BY RankFrame DEF CallInv
<1>2. ASSUME at[c] = "idle", NEW s \in Slots PROVE maker'[s] # c
  BY <1>2 DEF CallInv, Spared
<1>3. Slots' = Slots /\ Ranks' = Ranks
  BY DEF Slots, Ranks
<1>4. QED
  BY <1>1, <1>2, <1>3 DEF CallInv

(* A step that writes what belongs to rank i of call c, and nothing else   *)
(* of any call but the notes that only grow.                               *)
OnlyRank(c, i) ==
  /\ UNCHANGED <<at, node, next>>
  /\ \A d \in Calls : taken[d] \subseteq taken'[d] /\ lost[d] \subseteq lost'[d]
  /\ \A d \in Calls \ {c} : /\ got'[d] = got[d] /\ ids'[d] = ids[d]
                             /\ job'[d] = job[d] /\ lost'[d] = lost[d]
  /\ \A j \in Ranks \ {i} : /\ got'[c][j] = got[c][j] /\ ids'[c][j] = ids[c][j]
                             /\ job'[c][j] = job[c][j]

(* A step at one rank of one call leaves every call its invariant, if it   *)
(* leaves it to that rank and touches nothing else.                        *)
LEMMA RankStep ==
  ASSUME TypeOK, \A d \in Calls : CallInv(d),
         NEW c \in Calls, NEW i \in Ranks, at[c] # "idle", OnlyRank(c, i),
         \A d \in Calls, s \in Slots : Spared(d, s) \/ (d = c /\ s = At(c, i)),
         RankInv(c, i)'
  PROVE  \A d \in Calls : CallInv(d)'
<1>1. ASSUME NEW d \in Calls \ {c} PROVE CallInv(d)'
  BY <1>1, CallFrame DEF OnlyRank
<1>2. ASSUME NEW j \in Ranks \ {i} PROVE RankInv(c, j)'
  <2>1. \A s \in Slots : s = At(c, j) => Spared(c, s)
    BY DEF At
  <2>2. RankInv(c, j)
    BY DEF CallInv
  <2>3. QED
    BY <2>1, <2>2, RankFrame DEF OnlyRank
<1>3. CallInv(c)'
  <2>1. Ranks' = Ranks
    BY DEF Ranks
  <2>2. QED
    BY <1>2, <2>1 DEF CallInv, OnlyRank
<1>4. QED
  BY <1>1, <1>3

-----------------------------------------------------------------------------
(* The actions of a call and its agents. *)

(* An agent that takes a rank's request, or refuses it.                    *)
LEMMA AgentDeploysKeeps ==
  ASSUME TypeOK, \A d \in Calls : CallInv(d),
         NEW c \in Calls, NEW i \in Ranks, AgentDeploys(c, i)
  PROVE  \A d \in Calls : CallInv(d)'
<1>1. RankInv(c, i) /\ job[c][i] = "sent"
  BY DEF AgentDeploys, CallInv
<1>2. PICK s \in Slots : s = At(c, i) /\ s = <<node[c][i], i>>
  BY <1>1 DEF RankInv, Placed, Slots, At
<1>3. at[c] # "idle" /\ Placed(c, i)
  BY <1>1 DEF RankInv
<1>4. At(c, i)' = s
  BY <1>2 DEF At, AgentDeploys, coord
<1>5. CASE maker[s] = None
  <2>1. Occupy(s, c) /\ job' = [job EXCEPT ![c][i] = "loading"]
    BY <1>2, <1>5 DEF AgentDeploys
  <2>2. \A d \in Calls, t \in Slots : Spared(d, t) \/ (d = c /\ t = At(c, i))
    BY <1>2, <1>5, <2>1, OccupySpares
  <2>3. maker'[s] = c /\ job'[c][i] = "loading"
    BY <2>1 DEF Occupy, TypeOK
  <2>4. RankInv(c, i)'
    BY <1>1, <1>3, <1>4, <2>3
    DEF AgentDeploys, coord, RankInv, Accounted, Placed, Mine, Kept, Cleared
  <2>5. OnlyRank(c, i)
    BY <2>1 DEF OnlyRank, AgentDeploys, Occupy, agents, coord, TypeOK
  <2>6. QED
    BY <1>3, <2>2, <2>4, <2>5, RankStep
<1>6. CASE maker[s] # None
  <2>1. job' = [job EXCEPT ![c][i] = Heard(c, i, "no")] /\ UNCHANGED agents
    BY <1>2, <1>6 DEF AgentDeploys
  <2>2. \A d \in Calls, t \in Slots : Spared(d, t) \/ (d = c /\ t = At(c, i))
    BY <2>1 DEF agents, Spared
  <2>3. job'[c][i] \in {"no", "none"} /\ maker'[s] # c
    BY <1>1, <1>2, <2>1 DEF TypeOK, Heard, agents, RankInv, Mine
  <2>4. RankInv(c, i)'
    BY <1>1, <1>3, <1>4, <2>3
    DEF AgentDeploys, coord, RankInv, Accounted, Placed, Mine, Live, Kept, Cleared
  <2>5. OnlyRank(c, i)
    BY <2>1 DEF OnlyRank, AgentDeploys, Occupy, agents, coord, TypeOK
  <2>6. QED
    BY <1>3, <2>2, <2>4, <2>5, RankStep
<1>7. QED
  BY <1>5, <1>6

(* An agent whose load has ended answers what the instance shows.          *)
LEMMA AgentAnswersKeeps ==
  ASSUME TypeOK, \A d \in Calls : CallInv(d),
         NEW c \in Calls, NEW i \in Ranks, AgentAnswers(c, i)
  PROVE  \A d \in Calls : CallInv(d)'
<1>1. RankInv(c, i) /\ job[c][i] = "loading"
  BY DEF AgentAnswers, CallInv
<1>2. PICK s \in Slots : s = At(c, i) /\ s = <<node[c][i], i>>
  BY <1>1 DEF RankInv, Placed, Slots, At
<1>3. at[c] # "idle" /\ Placed(c, i) /\ (maker[s] = c \/ i \in taken[c])
  BY <1>1, <1>2 DEF RankInv, Mine
<1>4. At(c, i)' = s
  BY <1>2 DEF At, AgentAnswers, coord
<1>5. PICK how \in {"ready", "error"}, a \in {"yes", "no"} :
        /\ Show(s, c, how) /\ (how = "ready" <=> a = "yes")
        /\ job' = [job EXCEPT ![c][i] = Heard(c, i, a)]
  BY <1>2 DEF AgentAnswers
<1>6. \A d \in Calls, t \in Slots : Spared(d, t) \/ (d = c /\ t = At(c, i))
  BY <1>2, <1>5, ShowSpares DEF AgentAnswers
<1>7. /\ job'[c][i] = IF at[c] = "wait" /\ got[c][i] = "waiting" THEN a ELSE "none"
      /\ maker'[s] = maker[s]
      /\ shown'[s] = IF maker[s] = c THEN how ELSE shown[s]
  BY <1>5 DEF AgentAnswers, Show, Heard, TypeOK
<1>8. RankInv(c, i)'
  BY <1>1, <1>3, <1>4, <1>5, <1>7
  DEF AgentAnswers, coord, RankInv, Accounted, Placed, Mine, Live, Kept, Cleared
<1>9. OnlyRank(c, i)
  BY <1>5 DEF OnlyRank, AgentAnswers, Show, coord, TypeOK
<1>10. QED
  BY <1>3, <1>6, <1>8, <1>9, RankStep

(* The goroutine that hears "created" notes the id under its own rank.     *)
LEMMA AnswerYesKeeps ==
  ASSUME TypeOK, \A d \in Calls : CallInv(d),
         NEW c \in Calls, NEW i \in Ranks, AnswerYes(c, i)
  PROVE  \A d \in Calls : CallInv(d)'
<1>1. RankInv(c, i) /\ Accounted(c, i) /\ Placed(c, i)
  BY DEF AnswerYes, CallInv, RankInv
<1>2. Kept(c, i) /\ Kept(c, i)'
  BY <1>1 DEF AnswerYes, agents, Accounted, Kept, Mine, At
<1>3. got'[c][i] = "yes" /\ ids'[c][i] = i /\ job'[c][i] = "none"
  BY DEF AnswerYes, Noted, TypeOK
<1>4. RankInv(c, i)'
  BY <1>1, <1>2, <1>3 DEF AnswerYes, RankInv, Accounted, Placed
<1>5. \A d \in Calls, t \in Slots : Spared(d, t)
  BY DEF AnswerYes, agents, Spared
<1>6. OnlyRank(c, i)
  BY DEF OnlyRank, AnswerYes, Noted, agents, TypeOK
<1>7. at[c] # "idle"
  BY DEF AnswerYes
<1>8. QED
  BY <1>4, <1>5, <1>6, <1>7, RankStep

(* The goroutine that hears a refusal has nothing left at the agent.       *)
LEMMA AnswerNoKeeps ==
  ASSUME TypeOK, \A d \in Calls : CallInv(d),
         NEW c \in Calls, NEW i \in Ranks, AnswerNo(c, i)
  PROVE  \A d \in Calls : CallInv(d)'
<1>1. RankInv(c, i) /\ Accounted(c, i) /\ Placed(c, i)
  BY DEF AnswerNo, CallInv, RankInv
<1>2. ids[c][i] = None /\ ~Live(c, i) /\ ~Live(c, i)'
  BY <1>1 DEF AnswerNo, agents, Accounted, Live, Mine, At
<1>3. got'[c][i] = "no" /\ ids'[c][i] = None /\ job'[c][i] = "none"
  BY <1>2 DEF AnswerNo, NotedNever, TypeOK
<1>4. RankInv(c, i)'
  BY <1>1, <1>2, <1>3 DEF AnswerNo, RankInv, Accounted, Placed, Cleared
<1>5. \A d \in Calls, t \in Slots : Spared(d, t)
  BY DEF AnswerNo, agents, Spared
<1>6. OnlyRank(c, i)
  BY DEF OnlyRank, AnswerNo, NotedNever, agents, TypeOK
<1>7. at[c] # "idle"
  BY DEF AnswerNo
<1>8. QED
  BY <1>4, <1>5, <1>6, <1>7, RankStep

(* The goroutine without an answer: the agent has nothing, or lost notes   *)
(* the rank.                                                               *)
LEMMA NoAnswerKeeps ==
  ASSUME TypeOK, \A d \in Calls : CallInv(d),
         NEW c \in Calls, NEW i \in Ranks, NoAnswer(c, i)
  PROVE  \A d \in Calls : CallInv(d)'
<1>1. RankInv(c, i) /\ Accounted(c, i) /\ Placed(c, i)
  BY DEF NoAnswer, CallInv, RankInv
<1>2. ids[c][i] = None
  BY <1>1 DEF NoAnswer, Accounted
<1>3. /\ Mine(c, i)' <=> Mine(c, i)
      /\ Live(c, i)' <=> Live(c, i)
  BY DEF NoAnswer, agents, Live, Mine, At
<1>4. got'[c][i] = "no"
  BY DEF NoAnswer, TypeOK
<1>5. \/ job'[c][i] = job[c][i] /\ job[c][i] = "none" /\ lost' = lost
      \/ job'[c][i] = "none" /\ job[c][i] \in {"sent", "no"} /\ lost' = lost
      \/ /\ job'[c][i] \in {job[c][i], "none"}
         /\ lost' = [lost EXCEPT ![c] = @ \cup {i}] /\ i \in lost'[c]
  BY DEF NoAnswer, TypeOK
<1>6. Cleared(c, i)'
  <2>1. job[c][i] = "sent" => ~Live(c, i)
    BY <1>1 DEF RankInv, Live
  <2>2. job[c][i] \in {"no", "none"} => ~Live(c, i)
    BY <1>1 DEF NoAnswer, Accounted
  <2>3. QED
    BY <1>3, <1>5, <2>1, <2>2 DEF Cleared
<1>7. RankInv(c, i)'
  BY <1>1, <1>2, <1>3, <1>4, <1>5, <1>6 DEF NoAnswer, RankInv, Accounted, Placed
<1>8. \A d \in Calls, t \in Slots : Spared(d, t)
  BY DEF NoAnswer, agents, Spared
<1>9. \A d \in Calls : lost[d] \subseteq lost'[d] /\ (d # c => lost'[d] = lost[d])
  BY <1>5 DEF TypeOK
<1>10. /\ \A d \in Calls \ {c} : job'[d] = job[d]
       /\ \A j \in Ranks \ {i} : job'[c][j] = job[c][j]
  BY DEF NoAnswer, TypeOK
<1>11. OnlyRank(c, i)
  BY <1>9, <1>10 DEF OnlyRank, NoAnswer, agents, TypeOK
<1>12. at[c] # "idle"
  BY DEF NoAnswer
<1>13. QED
  BY <1>7, <1>8, <1>11, <1>12, RankStep

(* A call that starts has made nothing yet.                                *)
LEMMA StartKeeps ==
  ASSUME TypeOK, \A d \in Calls : CallInv(d), NEW c \in Calls, Start(c)
  PROVE  \A d \in Calls : CallInv(d)'
<1>1. \A d \in Calls, s \in Slots : Spared(d, s)
  BY DEF Start, agents, Spared
<1>2. ASSUME NEW d \in Calls \ {c} PROVE CallInv(d)'
  <2>1. UNCHANGED <<at[d], node[d], got[d], ids[d], job[d], next[d], lost[d], taken[d]>>
    BY <1>2 DEF Start, TypeOK
  <2>2. QED
    BY <1>1, <2>1, CallFrame
<1>3. CallInv(c)'
  <2>1. at[c] = "idle" /\ next[c] = 0 /\ next' = next /\ ids' = ids /\ maker' = maker
    BY DEF Start, CallInv, agents
  <2>2. ASSUME NEW i \in Ranks PROVE RankInv(c, i)'
    <3>1. job[c][i] = "none" /\ ids[c][i] = None /\ node[c][i] = None
      BY <2>1 DEF CallInv, RankInv
    <3>2. CASE at' = [at EXCEPT ![c] = "failed"] /\ UNCHANGED <<node, got, job>>
      BY <2>1, <3>1, <3>2 DEF TypeOK, RankInv
    <3>3. CASE /\ at' = [at EXCEPT ![c] = "wait"]
               /\ \E f \in [Ranks -> Nodes] : node' = [node EXCEPT ![c] = f]
               /\ got' = [got EXCEPT ![c] = [j \in Ranks |-> "waiting"]]
               /\ job' = [job EXCEPT ![c] = [j \in Ranks |-> "sent"]]
      <4>1. at'[c] = "wait" /\ got'[c][i] = "waiting" /\ job'[c][i] = "sent"
        BY <3>3 DEF TypeOK
      <4>2. Placed(c, i)'
        BY <3>3 DEF TypeOK, Placed
      <4>3. ~Mine(c, i)'
        <5>1. PICK s \in Slots : s = At(c, i)'
          BY <4>2 DEF Placed, At, Slots
        <5>2. maker'[s] # c
          BY <2>1 DEF CallInv
        <5>3. QED
          BY <5>1, <5>2 DEF Mine
      <4>4. QED
        BY <2>1, <3>1, <4>1, <4>2, <4>3 DEF RankInv, Accounted
    <3>4. QED
      BY <3>2, <3>3 DEF Start
  <2>3. at'[c] # "idle" /\ Ranks' = Ranks
    BY DEF Start, TypeOK, Ranks
  <2>4. QED
    BY <2>1, <2>2, <2>3 DEF CallInv
<1>4. QED
  BY <1>2, <1>3

(* After wg.Wait every rank has its answer.                                *)
LEMMA WaitKeeps ==
  ASSUME TypeOK, \A d \in Calls : CallInv(d), NEW c \in Calls, Wait(c)
  PROVE  \A d \in Calls : CallInv(d)'
<1>1. \A d \in Calls, s \in Slots : Spared(d, s)
  BY DEF Wait, agents, Spared
<1>2. ASSUME NEW d \in Calls \ {c} PROVE CallInv(d)'
  <2>1. UNCHANGED <<at[d], node[d], got[d], ids[d], job[d], next[d], lost[d], taken[d]>>
    BY <1>2 DEF Wait, TypeOK
  <2>2. QED
    BY <1>1, <2>1, CallFrame
<1>3. ASSUME NEW i \in Ranks PROVE RankInv(c, i)'
  <2>1. RankInv(c, i) /\ Placed(c, i) /\ Accounted(c, i) /\ got[c][i] \in {"yes", "no"}
        /\ next[c] = 0
    BY DEF Wait, AllIn, CallInv, RankInv, TypeOK
  <2>2. /\ at'[c] \in {"rollback", "ok"}
        /\ at'[c] = "ok" => got[c][i] = "yes"
    BY <2>1 DEF Wait, TypeOK
  <2>3. /\ Accounted(c, i)' /\ Placed(c, i)' /\ (Kept(c, i)' <=> Kept(c, i))
        /\ (Mine(c, i)' <=> Mine(c, i))
    BY <2>1 DEF Wait, agents, Accounted, Placed, Kept, Cleared, Live, Mine, At
  <2>4. i >= 0 /\ ~(i < 0)
    BY PPAssumption DEF Ranks
  <2>5. QED
    BY <2>1, <2>2, <2>3, <2>4 DEF Wait, RankInv, Accounted
<1>4. at'[c] \in {"rollback", "ok"} /\ Ranks' = Ranks
  BY DEF Wait, TypeOK, Ranks
<1>5. QED
  BY <1>2, <1>3, <1>4 DEF CallInv

(* A rollback that ends has been at every rank.                            *)
LEMMA RolledBackKeeps ==
  ASSUME TypeOK, \A d \in Calls : CallInv(d), NEW c \in Calls, RolledBack(c)
  PROVE  \A d \in Calls : CallInv(d)'
<1>1. \A d \in Calls, s \in Slots : Spared(d, s)
  BY DEF RolledBack, agents, Spared
<1>2. ASSUME NEW d \in Calls \ {c} PROVE CallInv(d)'
  <2>1. UNCHANGED <<at[d], node[d], got[d], ids[d], job[d], next[d], lost[d], taken[d]>>
    <3>1. at'[d] = at[d]
      BY <1>2 DEF RolledBack, TypeOK
    <3>2. UNCHANGED <<got[d], ids[d], next[d]>>
      BY <1>2 DEF RolledBack, Forget
    <3>3. QED
      BY <3>1, <3>2 DEF RolledBack
  <2>2. QED
    BY <1>1, <2>1, CallFrame
<1>3. at'[c] = "failed" /\ Ranks' = Ranks
  BY DEF RolledBack, TypeOK, Ranks
<1>4. ASSUME NEW i \in Ranks PROVE RankInv(c, i)'
  <2>1. RankInv(c, i) /\ i < next[c]
    BY PPAssumption DEF RolledBack, CallInv, Ranks
  <2>2. Cleared(c, i)
    BY <2>1 DEF RolledBack, RankInv
  <2>3. /\ Cleared(c, i)' /\ (Placed(c, i)' <=> Placed(c, i))
        /\ (Mine(c, i)' <=> Mine(c, i))
    BY <2>2 DEF RolledBack, agents, Cleared, Live, Mine, Placed, At
  <2>4. QED
    BY <1>3, <2>1, <2>3 DEF RolledBack, RankInv
<1>5. QED
  BY <1>2, <1>3, <1>4 DEF CallInv

(* The turn of the rollback that is at index k: what is there has been     *)
(* answered about, and what it stops is the slot of rank k or nothing.     *)
LEMMA RollbackTurn ==
  ASSUME TypeOK, NEW c \in Calls, CallInv(c), Rollback(c)
  PROVE  \E k \in Ranks :
           /\ k = next[c] /\ next'[c] = k + 1
           /\ Placed(c, k) /\ Accounted(c, k) /\ got[c][k] \in {"yes", "no"}
           /\ At(c, k) \in Slots
           /\ \/ ids[c][k] = None /\ UNCHANGED <<agents, lost, taken>>
              \/ /\ ids[c][k] # None /\ ids[c][k] = k
                 /\ Vacate({At(c, k)}, c) /\ lost' = lost
              \/ /\ ids[c][k] # None /\ k \in lost'[c]
                 /\ lost' = [lost EXCEPT ![c] = @ \cup {k}] /\ UNCHANGED <<agents, taken>>
<1>1. PICK k \in Ranks : k = next[c]
  BY PPAssumption DEF Rollback, TypeOK, Ranks
<1>2. RankInv(c, k) /\ next'[c] = k + 1 /\ k >= next[c]
  BY <1>1, PPAssumption DEF Rollback, Advance, CallInv, TypeOK, Ranks
<1>3. Placed(c, k) /\ Accounted(c, k) /\ got[c][k] \in {"yes", "no"}
  BY <1>2 DEF Rollback, RankInv
<1>4. ids[c][k] # None => ids[c][k] = k
  BY <1>3 DEF Accounted
<1>5. At(c, k) \in Slots
  BY <1>3 DEF Placed, At, Slots
<1>6. \/ ids[c][k] = None /\ UNCHANGED <<agents, lost, taken>>
      \/ /\ ids[c][k] # None
         /\ Vacate({<<node[c][k], ids[c][k]>>}, c) /\ lost' = lost
      \/ /\ ids[c][k] # None
         /\ lost' = [lost EXCEPT ![c] = @ \cup {k}] /\ UNCHANGED <<agents, taken>>
  BY <1>1 DEF Rollback
<1>7. CASE ids[c][k] # None /\ Vacate({<<node[c][k], ids[c][k]>>}, c) /\ lost' = lost
  <2>1. <<node[c][k], ids[c][k]>> = At(c, k)
    BY <1>4, <1>7 DEF At
  <2>2. Vacate({At(c, k)}, c)
    BY <1>7, <2>1
  <2>3. QED
    BY <1>1, <1>2, <1>3, <1>4, <1>5, <1>7, <2>2
<1>8. CASE /\ ids[c][k] # None
           /\ lost' = [lost EXCEPT ![c] = @ \cup {k}] /\ UNCHANGED <<agents, taken>>
  BY <1>1, <1>2, <1>3, <1>5, <1>8 DEF TypeOK
<1>9. QED
  BY <1>1, <1>2, <1>3, <1>5, <1>6, <1>7, <1>8

(* A turn of the rollback clears its rank and keeps the others.            *)
LEMMA RollbackKeeps ==
  ASSUME TypeOK, \A d \in Calls : CallInv(d), NEW c \in Calls, Rollback(c)
  PROVE  \A d \in Calls : CallInv(d)'
<1>1. PICK k \in Ranks :
        /\ k = next[c] /\ next'[c] = k + 1
        /\ Placed(c, k) /\ Accounted(c, k) /\ got[c][k] \in {"yes", "no"}
        /\ At(c, k) \in Slots
        /\ \/ ids[c][k] = None /\ UNCHANGED <<agents, lost, taken>>
           \/ /\ ids[c][k] # None /\ ids[c][k] = k
              /\ Vacate({At(c, k)}, c) /\ lost' = lost
           \/ /\ ids[c][k] # None /\ k \in lost'[c]
              /\ lost' = [lost EXCEPT ![c] = @ \cup {k}] /\ UNCHANGED <<agents, taken>>
  BY RollbackTurn
<1>2. PICK t \in Slots : t = At(c, k) /\ t[2] = k
  BY <1>1 DEF At
<1>3. (Vacate({t}, c) /\ lost' = lost) \/ UNCHANGED <<agents, taken>>
  BY <1>1, <1>2
<1>4. ASSUME NEW d \in Calls, NEW s \in Slots, d # c \/ s # t PROVE Spared(d, s)
  <2>1. CASE Vacate({t}, c)
    BY <1>4, <2>1, VacateSpares
  <2>2. CASE UNCHANGED agents
    BY <2>2 DEF agents, Spared
  <2>3. QED
    BY <1>3, <2>1, <2>2
<1>5. \A d \in Calls : taken[d] \subseteq taken'[d]
  BY <1>3, VacateNotes
<1>6. \A d \in Calls : lost[d] \subseteq lost'[d] /\ (d # c => lost'[d] = lost[d])
  BY <1>1 DEF TypeOK
<1>7. ASSUME NEW d \in Calls \ {c} PROVE CallInv(d)'
  <2>1. next'[d] = next[d]
    BY <1>7 DEF Rollback, Advance, TypeOK
  <2>2. UNCHANGED <<at[d], node[d], got[d], ids[d], job[d], lost[d]>>
    BY <1>6 DEF Rollback
  <2>3. QED
    BY <1>4, <1>5, <2>1, <2>2, CallFrame
<1>8. ASSUME NEW j \in Ranks \ {k} PROVE RankInv(c, j)'
  <2>1. \A s \in Slots : s = At(c, j) => Spared(c, s)
    BY <1>2, <1>4 DEF At
  <2>2. (j < next'[c] <=> j < next[c]) /\ (j >= next'[c] <=> j >= next[c])
    BY <1>1, PPAssumption DEF Ranks
  <2>3. RankInv(c, j)
    BY DEF CallInv
  <2>4. QED
    BY <1>5, <1>6, <2>1, <2>2, <2>3, RankFrame DEF Rollback
<1>9. RankInv(c, k)'
  <2>1. RankInv(c, k) /\ at[c] = "rollback" /\ k < next'[c] /\ ~(k >= next'[c])
    BY <1>1, PPAssumption DEF CallInv, Rollback, Ranks
  <2>2. At(c, k)' = t
    BY <1>2 DEF At, Rollback
  <2>3. Cleared(c, k)' /\ (Mine(c, k)' => Mine(c, k))
        /\ (Mine(c, k) /\ ~Mine(c, k)' => job[c][k] = "none")
    <3>1. CASE ids[c][k] = None /\ UNCHANGED <<agents, lost, taken>>
      <4>1. got[c][k] = "no"
        BY <1>1, <3>1, PPAssumption DEF Accounted
      <4>2. QED
        BY <1>1, <3>1, <4>1 DEF Rollback, agents, Accounted, Cleared, Live, Mine, At
    <3>2. CASE ids[c][k] # None /\ Vacate({t}, c)
      <4>1. job[c][k] = "none"
        BY <1>1, <3>2 DEF Accounted
      <4>2. maker'[t] # c
        BY <3>2, PPAssumption DEF Vacate
      <4>3. QED
        BY <2>2, <4>1, <4>2 DEF Rollback, Cleared, Live, Mine
    <3>3. CASE k \in lost'[c] /\ UNCHANGED <<agents, taken>>
      BY <3>3 DEF Rollback, agents, Cleared, Live, Mine, At
    <3>4. QED
      BY <1>1, <1>2, <3>1, <3>2, <3>3
  <2>4. Placed(c, k)' /\ UNCHANGED <<at, got, job>>
    BY <1>1 DEF Rollback, Placed
  <2>5. job[c][k] = "loading" => (Mine(c, k)' \/ k \in taken'[c])
    BY <1>5, <2>1, <2>3 DEF RankInv
  <2>6. QED
    BY <1>1, <2>1, <2>3, <2>4, <2>5 DEF RankInv
<1>10. QED
  <2>1. at'[c] = "rollback" /\ Ranks' = Ranks
    BY DEF Rollback, Ranks
  <2>2. CallInv(c)'
    BY <1>8, <1>9, <2>1 DEF CallInv
  <2>3. QED
    BY <1>7, <2>2

-----------------------------------------------------------------------------
(* The actions of others. *)

(* A restart takes what the node held, and the calls made from it.         *)
LEMMA RestartKeeps ==
  ASSUME TypeOK, \A d \in Calls : CallInv(d), NEW n \in Nodes, Restart(n)
  PROVE  \A d \in Calls : CallInv(d)'
<1> SUFFICES ASSUME NEW c \in Calls PROVE CallInv(c)'
  OBVIOUS
<1>1. Vacate({n} \X Ranks, None) /\ {n} \X Ranks \in SUBSET Slots
  BY DEF Restart, Slots
<1>2. \A s \in Slots : Spared(c, s)
  BY <1>1, VacateSpares, PPAssumption
<1>3. taken[c] \subseteq taken'[c]
  BY <1>1, VacateNotes
<1>4. UNCHANGED <<node, lost>> /\ Ranks' = Ranks /\ Slots' = Slots
  BY DEF Restart, Ranks, Slots
<1>5. \A i \in Ranks : job'[c][i] = IF node[c][i] = n THEN "none" ELSE job[c][i]
  BY DEF Restart
<1>6. \A s \in Slots : maker'[s] = c => maker[s] = c /\ shown'[s] = shown[s]
  BY <1>2 DEF Spared
<1>7. \/ UNCHANGED <<at[c], got[c], ids[c], next[c]>>
      \/ at[c] # "idle" /\ at'[c] = "dead"
  BY DEF Restart, Forget, Running
<1>8. ASSUME NEW i \in Ranks, Placed(c, i)
      PROVE  /\ Mine(c, i)' => Mine(c, i)
             /\ Live(c, i)' => Live(c, i)
             /\ Kept(c, i) => Kept(c, i)'
             /\ Mine(c, i) \/ i \in taken[c] => Mine(c, i)' \/ i \in taken'[c]
             /\ node[c][i] = n => ~Mine(c, i)'
  <2>1. PICK s \in Slots : s = At(c, i) /\ s[2] = i /\ s[1] = node[c][i]
    <3>1. At(c, i) \in Slots
      BY <1>8 DEF Placed, Slots, At
    <3>2. At(c, i)[2] = i /\ At(c, i)[1] = node[c][i]
      BY DEF At
    <3>3. QED
      BY <3>1, <3>2
  <2>2. At(c, i)' = s
    BY <1>4, <2>1 DEF At
  <2>3. /\ maker'[s] = c => maker[s] = c /\ shown'[s] = shown[s]
        /\ maker[s] = c /\ maker'[s] # c => i \in taken'[c]
    BY <1>2, <2>1 DEF Spared
  <2>4. node[c][i] = n => maker'[s] # c
    <3>1. node[c][i] = n => s \in {n} \X Ranks
      BY <2>1 DEF Slots
    <3>2. QED
      BY <1>1, <3>1, PPAssumption DEF Vacate
  <2>5. QED
    BY <1>3, <2>1, <2>2, <2>3, <2>4 DEF Mine, Live, Kept
<1>9. ASSUME NEW i \in Ranks PROVE RankInv(c, i)'
  <2>1. RankInv(c, i)
    BY DEF CallInv
  <2>2. CASE at[c] # "idle" /\ at'[c] = "dead"
    BY <1>4, <1>5, <1>8, <2>1, <2>2 DEF RankInv, Placed
  <2>3. CASE UNCHANGED <<at[c], got[c], ids[c], next[c]>> /\ node[c][i] # n
    BY <1>2, <1>3, <1>4, <1>5, <2>1, <2>3, RankFrame
  <2>4. CASE UNCHANGED <<at[c], got[c], ids[c], next[c]>> /\ node[c][i] = n
    <3>1. Placed(c, i) /\ Placed(c, i)' /\ job'[c][i] = "none" /\ ~Live(c, i)'
      BY <1>4, <1>5, <1>8, <2>4 DEF Placed, Live
    <3>2. Cleared(c, i)'
      BY <3>1 DEF Cleared
    <3>3. Accounted(c, i) => Accounted(c, i)'
      BY <1>8, <2>4, <3>1, <3>2 DEF Accounted
    <3>4. QED
      BY <1>4, <1>8, <2>1, <2>4, <3>1, <3>2, <3>3 DEF RankInv
  <2>5. QED
    BY <1>7, <2>2, <2>3, <2>4
<1>10. QED
  BY <1>4, <1>6, <1>7, <1>9 DEF CallInv

(* Health loops and sweeps touch no call's own state. *)
LEMMA OthersKeep ==
  ASSUME TypeOK, \A d \in Calls : CallInv(d), UNCHANGED <<coord, job, lost>>,
         \A d \in Calls : taken[d] \subseteq taken'[d],
         \A d \in Calls, s \in Slots : Spared(d, s)
  PROVE  \A d \in Calls : CallInv(d)'
BY CallFrame DEF coord

(* A stop by a health loop or a sweep.                                     *)
LEMMA StopKeeps ==
  ASSUME TypeOK, \A d \in Calls : CallInv(d), UNCHANGED <<coord, job, lost>>,
         NEW s \in Slots, Vacate({s}, None)
  PROVE  \A d \in Calls : CallInv(d)'
<1>1. \A d \in Calls, t \in Slots : Spared(d, t)
  BY VacateSpares, PPAssumption
<1>2. QED
  BY <1>1, VacateNotes, OthersKeep

(* A health loop deploys an instance in nobody's name.                     *)
LEMMA HealDeployKeeps ==
  ASSUME TypeOK, \A d \in Calls : CallInv(d), NEW n \in Nodes, HealDeploy(n)
  PROVE  \A d \in Calls : CallInv(d)'
<1>1. PICK s \in Slots : s = <<n, healing[n].rank>>
  BY DEF HealDeploy, TypeOK, Slots
<1>2. (maker[s] = None /\ Occupy(s, Healer)) \/ UNCHANGED agents
  BY <1>1 DEF HealDeploy
<1>3. \A d \in Calls, t \in Slots : Spared(d, t)
  <2>1. CASE maker[s] = None /\ Occupy(s, Healer)
    BY <2>1, OccupySpares, PPAssumption
  <2>2. CASE UNCHANGED agents
    BY <2>2 DEF agents, Spared
  <2>3. QED
    BY <1>2, <2>1, <2>2
<1>4. QED
  BY <1>3, OthersKeep DEF HealDeploy

(* A health loop's load ends.                                              *)
LEMMA HealEndsKeeps ==
  ASSUME TypeOK, \A d \in Calls : CallInv(d), NEW n \in Nodes, HealEnds(n)
  PROVE  \A d \in Calls : CallInv(d)'
<1>1. PICK s \in Slots : s = <<n, healing[n].rank>>
  BY DEF HealEnds, TypeOK, Slots
<1>2. PICK how \in {"ready", "error"} : Show(s, Healer, how)
  BY <1>1 DEF HealEnds
<1>3. \A d \in Calls, t \in Slots : Spared(d, t)
  BY <1>2, ShowSpares, PPAssumption DEF HealEnds
<1>4. QED
  BY <1>3, OthersKeep DEF HealEnds

(* Every step keeps the invariant of every call.                           *)
LEMMA InvStep ==
  ASSUME IInv, [Next]_vars
  PROVE  \A d \in Calls : CallInv(d)'
<1> USE DEF IInv
<1>1. ASSUME NEW c \in Calls, Deploying(c) PROVE \A d \in Calls : CallInv(d)'
  BY <1>1, StartKeeps, WaitKeeps, RollbackKeeps, RolledBackKeeps, AgentDeploysKeeps,
     AgentAnswersKeeps, AnswerYesKeeps, AnswerNoKeeps, NoAnswerKeeps DEF Deploying
<1>2. ASSUME NEW n \in Nodes, NEW i \in Ranks, HealStop(n, i)
      PROVE  \A d \in Calls : CallInv(d)'
  <2>1. PICK s \in Slots : s = <<n, i>>
    BY DEF Slots
  <2>2. Vacate({s}, None) /\ UNCHANGED <<coord, job, lost>>
    BY <1>2, <2>1 DEF HealStop
  <2>3. QED
    BY <2>2, StopKeeps
<1>3. ASSUME NEW s \in Slots, SweepStop(s) PROVE \A d \in Calls : CallInv(d)'
  <2>1. CASE Vacate({s}, None)
    BY <1>3, <2>1, StopKeeps DEF SweepStop
  <2>2. CASE UNCHANGED <<agents, taken>>
    BY <1>3, <2>2, OthersKeep DEF SweepStop, agents, Spared
  <2>3. QED
    BY <1>3, <2>1, <2>2 DEF SweepStop
<1>4. ASSUME SweepStart \/ (\E n \in Nodes : SweepList(n)) \/ UNCHANGED vars
      PROVE  \A d \in Calls : CallInv(d)'
  <2>1. UNCHANGED <<coord, job, agents, lost, taken>>
    BY <1>4 DEF SweepStart, SweepList, vars
  <2>2. QED
    BY <2>1, OthersKeep DEF agents, Spared
<1>5. QED
  BY <1>1, <1>2, <1>3, <1>4, HealDeployKeeps, HealEndsKeeps, RestartKeeps DEF Next

(* No call has noted anything at first.                                    *)
LEMMA InvInit == Init => IInv
<1> SUFFICES ASSUME Init PROVE IInv
  OBVIOUS
<1>1. ASSUME NEW c \in Calls PROVE CallInv(c)
  <2>1. at[c] = "idle" /\ next[c] = 0
    BY DEF Init
  <2>2. \A s \in Slots : maker[s] # c
    BY PPAssumption DEF Init
  <2>3. ASSUME NEW i \in Ranks PROVE RankInv(c, i)
    BY DEF Init, RankInv
  <2>4. QED
    BY <2>1, <2>2, <2>3 DEF CallInv
<1>2. QED
  BY <1>1, TypeInit DEF IInv

(* Whatever happens, what a call has noted agrees with what the agents     *)
(* have: the invariant the theorems below are read off.                    *)
LEMMA Invariance == Spec => []IInv
<1>1. IInv /\ TypeOK' /\ [Next]_vars => IInv'
  BY InvStep DEF IInv
<1>2. QED
  BY <1>1, InvInit, TypeCorrect, PTL DEF Spec

(* What the invariant says of a call that has ended.                       *)
LEMMA Ends == IInv => SuccessIsWhole /\ FailureIsRolledBack
<1>1. IInv => SuccessIsWhole
  BY DEF IInv, CallInv, RankInv, Kept, Mine, SuccessIsWhole
<1>2. IInv => FailureIsRolledBack
  BY DEF IInv, CallInv, RankInv, Cleared, Live, Mine, FailureIsRolledBack
<1>3. QED
  BY <1>1, <1>2

(* A deployment that answered "ok" is ready on every node it names, unless *)
(* somebody has stopped a rank of it since: SuccessIsWhole, for any number *)
(* of nodes, ranks, calls and disturbances.                                *)
THEOREM SuccessHolds == Spec => []SuccessIsWhole
BY Ends, Invariance, PTL

(* A deployment that failed has left no instance it made loading or ready, *)
(* unless the answer about it was lost: FailureIsRolledBack.  It rests on  *)
(* the ids being written under their ranks: the rollback's index finds the *)
(* node by the id's place.                                                 *)
THEOREM FailureHolds == Spec => []FailureIsRolledBack
BY Ends, Invariance, PTL

(* A turn of a rollback stops an instance of someone else only where its   *)
(* own has been stopped before.                                            *)
LEMMA RollbackSpares ==
  ASSUME IInv, NEW c \in Calls, Rollback(c), NEW i \in Ranks,
         node[c][i] # None, maker[At(c, i)] \notin {c, None}, maker'[At(c, i)] = None
  PROVE  i \in taken[c]
<1>1. PICK k \in Ranks :
        /\ Accounted(c, k) /\ got[c][k] \in {"yes", "no"}
        /\ \/ UNCHANGED agents
           \/ ids[c][k] # None /\ Vacate({At(c, k)}, c)
  BY RollbackTurn DEF IInv
<1>2. At(c, i) \in Slots
  BY <1>1 DEF IInv, TypeOK, At, Slots
<1>3. ids[c][k] # None /\ Vacate({At(c, k)}, c)
  BY <1>1 DEF agents
<1>4. At(c, i) = At(c, k)
  BY <1>1, <1>2, <1>3 DEF Vacate
<1>5. i = k
  BY <1>4 DEF At
<1>6. Kept(c, k)
  BY <1>1, <1>3 DEF Accounted
<1>7. QED
  BY <1>1, <1>5, <1>6 DEF Kept, Mine

(* So a rollback spares others: RollbackSparesOthers.                      *)
THEOREM RollbackHolds == Spec => RollbackSparesOthers
<1>1. IInv => [\A c \in Calls : Rollback(c) =>
                 \A i \in Ranks : node[c][i] # None /\ maker[At(c, i)] \notin {c, None}
                                  /\ maker'[At(c, i)] = None => i \in taken[c]]_vars
  BY RollbackSpares
<1>2. QED
  BY <1>1, Invariance, PTL DEF Spec, RollbackSparesOthers
-----------------------------------------------------------------------------
(* All or nothing: what a call's steps look like to AtomicDeploy.  The     *)
(* mapping needs more than IInv: no two ranks of a call are on one node,   *)
(* what is in a call's name is where the call put it, an instance that is  *)
(* still being loaded says so, and what others have taken does not return. *)
Apart(c) == \A i, j \in Ranks : node[c][i] # None /\ node[c][i] = node[c][j] => i = j
Named(c) == \A s \in Slots : maker[s] = c => s = At(c, s[2])
Open(c)  == \A i \in Ranks :
              job[c][i] = "loading" /\ Mine(c, i) => shown[At(c, i)] = "loading"
Past(c)  == \A i \in taken[c] :
              node[c][i] # None /\ job[c][i] # "sent" /\ ~Mine(c, i)

MapInv(c) == Apart(c) /\ Named(c) /\ Open(c) /\ Past(c)

(* A slot is as it was, seen by a call. *)
SlotKept(d, s) == /\ maker'[s] = d <=> maker[s] = d
                  /\ maker[s] = d => shown'[s] = shown[s]

(* The slot of a rank that has been placed. *)
LEMMA SlotOf ==
  ASSUME TypeOK, NEW d \in Calls, NEW i \in Ranks, node[d][i] # None
  PROVE  At(d, i) \in Slots /\ At(d, i)[2] = i
BY DEF TypeOK, At, Slots

(* The mapping's invariant of a call survives a step that places none of   *)
(* its ranks, lets no agent begin a load for it and puts nothing in its    *)
(* name.                                                                   *)
LEMMA MapFrame ==
  ASSUME TypeOK, NEW d \in Calls, CallInv(d), MapInv(d),
         node'[d] = node[d],
         \A i \in Ranks : job'[d][i] \in {job[d][i], "yes", "no", "none"},
         \A s \in Slots : SlotKept(d, s) \/ maker'[s] # d,
         \A i \in taken'[d] \ taken[d] :
           \E s \in Slots : maker[s] = d /\ maker'[s] # d /\ i = s[2]
  PROVE  MapInv(d)'
<1>1. Ranks' = Ranks /\ Slots' = Slots /\ \A i : At(d, i)' = At(d, i)
  BY DEF Ranks, Slots, At
<1>2. Apart(d)'
  BY <1>1 DEF MapInv, Apart
<1>3. Named(d)'
  BY <1>1 DEF MapInv, Named, SlotKept
<1>4. ASSUME NEW i \in Ranks, node[d][i] # None, Mine(d, i)' PROVE Mine(d, i)
  BY <1>1, <1>4, SlotOf DEF Mine, SlotKept
<1>5. ASSUME NEW i \in Ranks, job'[d][i] = "loading", Mine(d, i)'
      PROVE  shown'[At(d, i)] = "loading"
  <2>1. job[d][i] = "loading"
    BY <1>5
  <2>2. Placed(d, i)
    BY <2>1 DEF CallInv, RankInv
  <2>3. PICK s \in Slots : s = At(d, i)
    BY <2>2, SlotOf, PPAssumption DEF Placed
  <2>4. maker'[s] = d
    BY <1>1, <1>5, <2>3 DEF Mine
  <2>5. SlotKept(d, s)
    BY <2>4
  <2>6. shown[s] = "loading"
    BY <2>1, <2>3, <2>4, <2>5 DEF SlotKept, MapInv, Open, Mine
  <2>7. QED
    BY <2>3, <2>4, <2>5, <2>6 DEF SlotKept
<1>6. Open(d)'
  BY <1>1, <1>5 DEF Open
<1>7. ASSUME NEW i \in taken'[d]
      PROVE  node[d][i] # None /\ job'[d][i] # "sent" /\ ~Mine(d, i)'
  <2>1. CASE i \in taken[d]
    <3>1. node[d][i] # None /\ job[d][i] # "sent" /\ ~Mine(d, i) /\ i \in Ranks
      BY <2>1 DEF MapInv, Past, TypeOK
    <3>2. QED
      BY <3>1, <1>4
  <2>2. CASE i \notin taken[d]
    <3>1. PICK s \in Slots : maker[s] = d /\ maker'[s] # d /\ i = s[2]
      BY <2>2
    <3>2. s = At(d, i) /\ i \in Ranks
      BY <3>1 DEF MapInv, Named, Slots
    <3>3. node[d][i] # None
      <4>1. node[d][i] = s[1] /\ s[1] \in Nodes
        BY <3>2 DEF At, Slots
      <4>2. QED
        BY <4>1, PPAssumption
    <3>4. job[d][i] # "sent"
      BY <3>1, <3>2 DEF CallInv, RankInv, Mine
    <3>5. ~Mine(d, i)'
      BY <1>1, <3>1, <3>2 DEF Mine
    <3>6. QED
      BY <3>2, <3>3, <3>4, <3>5
  <2>3. QED
    BY <2>1, <2>2
<1>8. QED
  BY <1>2, <1>3, <1>6, <1>7 DEF MapInv, Past
-----------------------------------------------------------------------------
(* What a call's ranks look like after a step. *)

(* A rank whose slot is kept looks as before. *)
LEMMA RankKept ==
  ASSUME TypeOK, NEW d \in Calls, NEW i \in Ranks, node'[d] = node[d],
         at'[d] = "idle" <=> at[d] = "idle",
         job'[d][i] = "sent" <=> job[d][i] = "sent",
         \A s \in Slots : s = At(d, i) => SlotKept(d, s)
  PROVE  RankOf(d, i)' = RankOf(d, i)
<1>1. At(d, i)' = At(d, i)
  BY DEF At
<1>2. CASE node[d][i] = None
  BY <1>2 DEF RankOf
<1>3. CASE node[d][i] # None
  <2>1. PICK s \in Slots : s = At(d, i) /\ SlotKept(d, s)
    BY <1>3, SlotOf
  <2>2. QED
    BY <1>1, <2>1 DEF RankOf, SlotKept
<1>4. QED
  BY <1>2, <1>3

(* Only one rank looks different. *)
LEMMA OneRank ==
  ASSUME NEW d \in Calls, NEW i \in Ranks,
         \A j \in Ranks \ {i} : RankOf(d, j)' = RankOf(d, j)
  PROVE  RanksOf(d)' = [RanksOf(d) EXCEPT ![i] = RankOf(d, i)']
<1>1. Ranks' = Ranks
  BY DEF Ranks
<1>2. QED
  BY <1>1 DEF RanksOf

(* No rank looks different. *)
LEMMA NoRank ==
  ASSUME NEW d \in Calls, \A j \in Ranks : RankOf(d, j)' = RankOf(d, j)
  PROVE  RanksOf(d)' = RanksOf(d)
<1>1. Ranks' = Ranks
  BY DEF Ranks
<1>2. QED
  BY <1>1 DEF RanksOf

AtomicStep(d) == UNCHANGED Atomic(d)!vars \/ Atomic(d)!Next

(* A step that leaves a call its place, its requests and its slots is none *)
(* of the abstract deployment.                                             *)
LEMMA QuietStep ==
  ASSUME TypeOK, NEW d \in Calls,
         UNCHANGED <<at[d], node[d], job[d], lost[d], taken[d]>>,
         \A s \in Slots : SlotKept(d, s)
  PROVE  AtomicStep(d)
<1>1. RanksOf(d)' = RanksOf(d)
  BY RankKept, NoRank
<1>2. QED
  BY <1>1 DEF AtomicStep, Atomic!vars

(* Somebody else stops what is in a slot: at most one rank of the call is  *)
(* gone, and that is one more taken.                                       *)
LEMMA StopStep ==
  ASSUME TypeOK, NEW d \in Calls, CallInv(d), MapInv(d),
         UNCHANGED <<at[d], node[d], job[d], lost[d]>>,
         NEW s \in Slots, NEW x, x # d, Vacate({s}, x)
  PROVE  AtomicStep(d)
<1>1. \A t \in Slots : /\ maker'[t] = (IF t = s THEN None ELSE maker[t])
                       /\ shown'[t] = (IF t = s THEN "none" ELSE shown[t])
  BY DEF Vacate
<1>2. taken'[d] = taken[d] \cup {t[2] : t \in {u \in {s} : maker[u] = d}}
  BY DEF Vacate
<1>3. CASE maker[s] # d
  <2>1. taken'[d] = taken[d]
    BY <1>2, <1>3
  <2>2. \A t \in Slots : SlotKept(d, t)
    BY <1>1, <1>3, PPAssumption DEF SlotKept
  <2>3. QED
    BY <2>1, <2>2, QuietStep
<1>4. CASE maker[s] = d
  <2>1. PICK k \in Ranks : k = s[2] /\ s = At(d, k)
    BY <1>4 DEF MapInv, Named, Slots
  <2>2. at[d] # "idle" /\ job[d][k] # "sent"
    BY <1>4, <2>1 DEF CallInv, RankInv, Mine
  <2>3. ASSUME NEW j \in Ranks \ {k} PROVE RankOf(d, j)' = RankOf(d, j)
    <3>1. \A t \in Slots : t = At(d, j) => SlotKept(d, t)
      BY <1>1, <2>1 DEF SlotKept, At
    <3>2. QED
      BY <3>1, RankKept
  <2>4. RankOf(d, k)' = "gone"
    <3>1. At(d, k)' = s
      BY <2>1 DEF At
    <3>2. maker'[s] # d
      BY <1>1, PPAssumption
    <3>3. QED
      BY <2>2, <3>1, <3>2 DEF RankOf
  <2>5. taken'[d] = taken[d] \cup {k}
    BY <1>2, <1>4, <2>1
  <2>6. Atomic(d)!Disturb
    BY <2>2, <2>3, <2>4, <2>5, OneRank DEF Atomic!Disturb
  <2>7. QED
    BY <2>6 DEF AtomicStep, Atomic!Next
<1>5. QED
  BY <1>3, <1>4
(* A restart takes the one rank the call had on the node, if any; with     *)
(* Home, the call too.                                                     *)
LEMMA RestartStep ==
  ASSUME TypeOK, NEW d \in Calls, CallInv(d), MapInv(d), NEW n \in Nodes, Restart(n)
  PROVE  AtomicStep(d)
<1>1. \A t \in Slots : /\ maker'[t] = (IF t[1] = n THEN None ELSE maker[t])
                       /\ shown'[t] = (IF t[1] = n THEN "none" ELSE shown[t])
  BY DEF Restart, Vacate, Slots
<1>2. taken'[d] = taken[d] \cup {t[2] : t \in {u \in {n} \X Ranks : maker[u] = d}}
  BY PPAssumption DEF Restart, Vacate
<1>3. \/ at'[d] = at[d]
      \/ at[d] \in {"wait", "rollback", "ok"} /\ at'[d] = "dead"
  BY DEF Restart, Running
<1>4. /\ node'[d] = node[d] /\ lost'[d] = lost[d]
      /\ \A i \in Ranks : job'[d][i] = IF node[d][i] = n THEN "none" ELSE job[d][i]
  BY DEF Restart
<1>5. ASSUME NEW j \in Ranks, node[d][j] # n PROVE RankOf(d, j)' = RankOf(d, j)
  <2>1. \A t \in Slots : t = At(d, j) => SlotKept(d, t)
    BY <1>1, <1>5 DEF SlotKept, At
  <2>2. QED
    BY <1>3, <1>4, <1>5, <2>1, RankKept
<1>6. CASE \A i \in Ranks : node[d][i] # n
  <2>1. taken'[d] = taken[d]
    <3>1. \A u \in {n} \X Ranks : maker[u] # d
      BY <1>6 DEF MapInv, Named, Slots, At
    <3>2. QED
      BY <1>2, <3>1
  <2>2. RanksOf(d)' = RanksOf(d)
    BY <1>5, <1>6, NoRank
  <2>3. QED
    BY <1>3, <1>4, <2>1, <2>2 DEF AtomicStep, Atomic!vars, Atomic!Next, Atomic!Disturb
<1>7. ASSUME NEW k \in Ranks, node[d][k] = n PROVE AtomicStep(d)
  <2>1. \A j \in Ranks \ {k} : node[d][j] # n
    BY <1>7, PPAssumption DEF MapInv, Apart
  <2>2. at[d] # "idle" /\ At(d, k) \in Slots /\ At(d, k) \in {n} \X Ranks
    BY <1>7, PPAssumption DEF CallInv, RankInv, At, Slots
  <2>3. RankOf(d, k)' = "gone"
    <3>1. job'[d][k] = "none" /\ at'[d] # "idle"
      BY <1>3, <1>4, <1>7, <2>2
    <3>2. At(d, k)' = At(d, k) /\ maker'[At(d, k)] # d
      BY <1>1, <1>4, <1>7, <2>2, PPAssumption DEF At
    <3>3. QED
      BY <3>1, <3>2 DEF RankOf
  <2>4. RanksOf(d)' = [RanksOf(d) EXCEPT ![k] = "gone"]
    BY <1>5, <2>1, <2>3, OneRank
  <2>5. CASE maker[At(d, k)] = d
    <3>1. \A u \in {n} \X Ranks : maker[u] = d => u[2] = k
      BY <2>1 DEF MapInv, Named, Slots, At
    <3>2. At(d, k)[2] = k
      BY DEF At
    <3>3. taken'[d] = taken[d] \cup {k}
      BY <1>2, <2>2, <2>5, <3>1, <3>2
    <3>4. Atomic(d)!Disturb
      BY <1>3, <1>4, <2>2, <2>4, <3>3 DEF Atomic!Disturb
    <3>5. QED
      BY <3>4 DEF AtomicStep, Atomic!Next
  <2>6. CASE maker[At(d, k)] # d
    <3>1. \A u \in {n} \X Ranks : maker[u] # d
      <4>1. ASSUME NEW u \in {n} \X Ranks, maker[u] = d PROVE FALSE
        <5>1. u = At(d, u[2]) /\ u[2] \in Ranks
          BY <4>1 DEF MapInv, Named, Slots
        <5>2. u[2] = k
          BY <2>1, <5>1 DEF At
        <5>3. QED
          BY <2>6, <4>1, <5>1, <5>2
      <4>2. QED
        BY <4>1
    <3>2. taken'[d] = taken[d]
      BY <1>2, <3>1
    <3>3. RankOf(d, k) \in {"asked", "gone"} /\ RanksOf(d)[k] = RankOf(d, k)
      BY <2>2, <2>6 DEF RankOf, RanksOf
    <3>4. RankOf(d, k) = "gone" => RanksOf(d)' = RanksOf(d)
      BY <2>4, <3>3 DEF RanksOf
    <3>5. Atomic(d)!Disturb
      BY <1>3, <1>4, <2>2, <2>4, <3>2, <3>3, <3>4 DEF Atomic!Disturb
    <3>6. QED
      BY <3>5 DEF AtomicStep, Atomic!Next
  <2>7. QED
    BY <2>5, <2>6
<1>8. QED
  BY <1>6, <1>7

(* An agent still busy with a rank is one the call waits for, has lost     *)
(* sight of, or has died over.                                             *)
LEMMA BusyIsLoose ==
  ASSUME TypeOK, NEW c \in Calls, NEW i \in Ranks, CallInv(c),
         job[c][i] \in {"sent", "loading"}
  PROVE  Atomic(c)!Loose(i) /\ at[c] # "idle" /\ node[c][i] # None
<1>1. RankInv(c, i) /\ Placed(c, i)
  BY DEF CallInv, RankInv
<1>2. at[c] # "idle" /\ node[c][i] # None
  BY <1>1, PPAssumption DEF RankInv, Placed
<1>3. CASE at[c] = "rollback"
  <2>1. i >= next[c] \/ i < next[c]
    BY PPAssumption DEF TypeOK, Ranks
  <2>2. Cleared(c, i)
    BY <1>1, <1>3, <2>1 DEF RankInv, Accounted
  <2>3. QED
    BY <1>2, <1>3, <2>2 DEF Cleared, Atomic!Loose
<1>4. CASE at[c] = "failed"
  BY <1>1, <1>2, <1>4 DEF RankInv, Cleared, Atomic!Loose
<1>5. CASE at[c] = "ok"
  BY <1>1, <1>5 DEF RankInv
<1>6. at[c] \in {"idle", "wait", "rollback", "ok", "failed", "dead"}
  BY DEF TypeOK
<1>7. QED
  BY <1>2, <1>3, <1>4, <1>5, <1>6 DEF Atomic!Loose

(* The actions of a call, as its own abstract deployment sees them.        *)
LEMMA AgentDeploysStep ==
  ASSUME TypeOK, NEW c \in Calls, CallInv(c), MapInv(c),
         NEW i \in Ranks, AgentDeploys(c, i)
  PROVE  AtomicStep(c) /\ MapInv(c)'
<1>1. Atomic(c)!Loose(i) /\ at[c] # "idle" /\ node[c][i] # None /\ job[c][i] = "sent"
  BY BusyIsLoose DEF AgentDeploys
<1>2. At(c, i) \in Slots /\ ~Mine(c, i)
  BY <1>1, SlotOf DEF CallInv, RankInv
<1>3. RanksOf(c)[i] = "asked"
  BY <1>1 DEF RanksOf, RankOf
<1>4. UNCHANGED <<at, node, lost, taken>>
  BY DEF AgentDeploys, coord
<1>5. \A t \in Slots : t # At(c, i) => maker'[t] = maker[t] /\ shown'[t] = shown[t]
  BY <1>2 DEF AgentDeploys, Occupy, agents, TypeOK
<1>6. \A j \in Ranks \ {i} : job'[c][j] = job[c][j]
  BY DEF AgentDeploys, TypeOK
<1>7. ASSUME NEW j \in Ranks \ {i} PROVE RankOf(c, j)' = RankOf(c, j)
  <2>1. \A t \in Slots : t = At(c, j) => SlotKept(c, t)
    BY <1>5 DEF SlotKept, At
  <2>2. QED
    BY <1>4, <1>6, <2>1, RankKept
<1>8. RanksOf(c)' = [RanksOf(c) EXCEPT ![i] = RankOf(c, i)']
  BY <1>7, OneRank
<1>9. CASE Occupy(At(c, i), c) /\ job' = [job EXCEPT ![c][i] = "loading"]
  <2>1. /\ maker'[At(c, i)] = c /\ shown'[At(c, i)] = "loading"
        /\ job'[c][i] = "loading" /\ At(c, i)' = At(c, i)
    BY <1>2, <1>4, <1>9 DEF Occupy, TypeOK, At
  <2>2. RankOf(c, i)' = "loading"
    BY <1>1, <1>4, <2>1 DEF RankOf
  <2>3. Atomic(c)!Progress(i)
    BY <1>1, <1>3, <1>4, <1>8, <2>2 DEF Atomic!Progress
  <2>4. AtomicStep(c)
    BY <2>3 DEF AtomicStep, Atomic!Next
  <2>5. Ranks' = Ranks /\ Slots' = Slots /\ \A j : At(c, j)' = At(c, j)
    BY <1>4 DEF Ranks, Slots, At
  <2>6. Apart(c)'
    BY <1>4, <2>5 DEF MapInv, Apart
  <2>7. Named(c)'
    <3>1. At(c, i)[2] = i
      BY DEF At
    <3>2. QED
      BY <1>5, <2>5, <3>1 DEF MapInv, Named
  <2>8. Open(c)'
    <3>1. ASSUME NEW j \in Ranks \ {i}, job'[c][j] = "loading", Mine(c, j)'
          PROVE  shown'[At(c, j)] = "loading"
      <4>1. job[c][j] = "loading"
        BY <1>6, <3>1
      <4>2. At(c, j) \in Slots
        BY <4>1, BusyIsLoose, SlotOf
      <4>3. At(c, j) # At(c, i)
        BY DEF At
      <4>4. QED
        BY <1>5, <2>5, <3>1, <4>1, <4>2, <4>3 DEF Mine, MapInv, Open
    <3>2. QED
      BY <2>1, <2>5, <3>1 DEF Open
  <2>9. Past(c)'
    <3>1. i \notin taken[c]
      BY <1>1 DEF MapInv, Past
    <3>2. ASSUME NEW j \in taken[c] PROVE ~Mine(c, j)' /\ job'[c][j] # "sent"
      <4>1. j \in Ranks \ {i} /\ node[c][j] # None
        BY <3>1 DEF TypeOK, MapInv, Past
      <4>2. At(c, j) \in Slots /\ At(c, j) # At(c, i)
        BY <4>1, SlotOf DEF At
      <4>3. QED
        BY <1>5, <1>6, <2>5, <4>1, <4>2 DEF Mine, MapInv, Past
    <3>3. QED
      BY <1>4, <3>2 DEF Past, MapInv
  <2>10. QED
    BY <2>4, <2>6, <2>7, <2>8, <2>9 DEF MapInv
<1>10. CASE job' = [job EXCEPT ![c][i] = Heard(c, i, "no")] /\ UNCHANGED agents
  <2>1. job'[c][i] \in {"no", "none"} /\ At(c, i)' = At(c, i) /\ ~Mine(c, i)'
    BY <1>2, <1>4, <1>10 DEF Heard, TypeOK, At, agents, Mine
  <2>2. RankOf(c, i)' = "gone"
    BY <1>1, <1>4, <2>1 DEF RankOf, Mine
  <2>3. Atomic(c)!Progress(i)
    BY <1>1, <1>3, <1>4, <1>8, <2>2 DEF Atomic!Progress
  <2>4. \A s \in Slots : SlotKept(c, s)
    BY <1>10 DEF agents, SlotKept
  <2>5. \A j \in Ranks : job'[c][j] \in {job[c][j], "yes", "no", "none"}
    BY <1>6, <2>1
  <2>6. MapInv(c)'
    BY <1>4, <2>4, <2>5, MapFrame
  <2>7. QED
    BY <2>3, <2>6 DEF AtomicStep, Atomic!Next
<1>11. QED
  BY <1>9, <1>10 DEF AgentDeploys

LEMMA AgentAnswersStep ==
  ASSUME TypeOK, NEW c \in Calls, CallInv(c), MapInv(c),
         NEW i \in Ranks, AgentAnswers(c, i)
  PROVE  AtomicStep(c) /\ MapInv(c)'
<1>1. Atomic(c)!Loose(i) /\ at[c] # "idle" /\ node[c][i] # None /\ job[c][i] = "loading"
  BY BusyIsLoose DEF AgentAnswers
<1>2. PICK s \in Slots : s = At(c, i) /\ s[2] = i
  BY <1>1, SlotOf
<1>3. UNCHANGED <<at, node, lost, taken, maker>>
  BY DEF AgentAnswers, coord
<1>4. PICK how \in {"ready", "error"}, a \in {"yes", "no"} :
        Show(s, c, how) /\ job' = [job EXCEPT ![c][i] = Heard(c, i, a)]
  BY <1>2 DEF AgentAnswers
<1>5. \A t \in Slots :
        shown'[t] = IF t = s /\ maker[t] = c THEN how ELSE shown[t]
  BY <1>4 DEF Show, TypeOK
<1>6. /\ \A j \in Ranks \ {i} : job'[c][j] = job[c][j]
      /\ job'[c][i] \in {"yes", "no", "none"}
  BY <1>4 DEF Heard, TypeOK
<1>7. ASSUME NEW j \in Ranks \ {i} PROVE RankOf(c, j)' = RankOf(c, j)
  <2>1. \A t \in Slots : t = At(c, j) => SlotKept(c, t)
    BY <1>2, <1>3, <1>5 DEF SlotKept, At
  <2>2. QED
    BY <1>3, <1>6, <2>1, RankKept
<1>8. RanksOf(c)' = [RanksOf(c) EXCEPT ![i] = RankOf(c, i)']
  BY <1>7, OneRank
<1>9. At(c, i)' = s /\ At(c, i) = s
  BY <1>2, <1>3 DEF At
<1>10. AtomicStep(c)
  <2>1. CASE maker[s] = c
    <3>1. RanksOf(c)[i] = "loading"
      BY <1>1, <1>9, <2>1 DEF RanksOf, RankOf, MapInv, Open, Mine
    <3>2. RankOf(c, i)' = IF how = "ready" THEN "ready" ELSE "gone"
      BY <1>1, <1>3, <1>5, <1>6, <1>9, <2>1 DEF RankOf
    <3>3. Atomic(c)!Progress(i)
      BY <1>1, <1>3, <1>8, <3>1, <3>2 DEF Atomic!Progress
    <3>4. QED
      BY <3>3 DEF AtomicStep, Atomic!Next
  <2>2. CASE maker[s] # c
    <3>1. RankOf(c, i)' = RankOf(c, i)
      BY <1>1, <1>3, <1>6, <1>9, <2>2 DEF RankOf
    <3>2. RanksOf(c)' = RanksOf(c)
      BY <1>7, <3>1, NoRank
    <3>3. QED
      BY <1>3, <3>2 DEF AtomicStep, Atomic!vars
  <2>3. QED
    BY <2>1, <2>2
<1>11. MapInv(c)'
  <2>1. Ranks' = Ranks /\ Slots' = Slots /\ \A j : At(c, j)' = At(c, j)
    BY <1>3 DEF Ranks, Slots, At
  <2>2. Apart(c)' /\ Named(c)'
    BY <1>3, <2>1 DEF MapInv, Apart, Named
  <2>3. Open(c)'
    <3>1. ASSUME NEW j \in Ranks \ {i}, job'[c][j] = "loading", Mine(c, j)'
          PROVE  shown'[At(c, j)] = "loading"
      <4>1. job[c][j] = "loading" /\ Mine(c, j)
        BY <1>3, <1>6, <2>1, <3>1 DEF Mine
      <4>2. At(c, j) \in Slots /\ At(c, j) # s
        BY <1>2, <4>1, BusyIsLoose, SlotOf
      <4>3. QED
        BY <1>5, <4>1, <4>2 DEF MapInv, Open
    <3>2. QED
      BY <1>6, <2>1, <3>1 DEF Open
  <2>4. Past(c)'
    <3>1. ASSUME NEW j \in taken[c] PROVE ~Mine(c, j)' /\ job'[c][j] # "sent"
      <4>1. j \in Ranks
        BY DEF TypeOK
      <4>2. QED
        BY <1>3, <1>6, <2>1, <4>1 DEF Mine, MapInv, Past
    <3>2. QED
      BY <1>3, <3>1 DEF Past, MapInv
  <2>5. QED
    BY <2>2, <2>3, <2>4 DEF MapInv
<1>12. QED
  BY <1>10, <1>11

LEMMA AnswerStep ==
  ASSUME TypeOK, NEW c \in Calls, CallInv(c), MapInv(c),
         NEW i \in Ranks, AnswerYes(c, i) \/ AnswerNo(c, i)
  PROVE  AtomicStep(c) /\ MapInv(c)'
<1>1. UNCHANGED <<at, node, lost, taken, agents>> /\ job' = [job EXCEPT ![c][i] = "none"]
  BY DEF AnswerYes, AnswerNo
<1>2. job[c][i] \in {"yes", "no"}
  BY DEF AnswerYes, AnswerNo
<1>3. /\ \A j \in Ranks : job'[c][j] \in {job[c][j], "none"}
      /\ \A j \in Ranks : job'[c][j] = "sent" <=> job[c][j] = "sent"
  BY <1>1, <1>2 DEF TypeOK
<1>4. \A s \in Slots : SlotKept(c, s)
  BY <1>1 DEF agents, SlotKept
<1>5. \A j \in Ranks : RankOf(c, j)' = RankOf(c, j)
  BY <1>1, <1>3, <1>4, RankKept
<1>6. AtomicStep(c)
  BY <1>1, <1>5, NoRank DEF AtomicStep, Atomic!vars
<1>7. MapInv(c)'
  BY <1>1, <1>3, <1>4, MapFrame
<1>8. QED
  BY <1>6, <1>7

LEMMA NoAnswerStep ==
  ASSUME TypeOK, NEW c \in Calls, CallInv(c), MapInv(c),
         NEW i \in Ranks, NoAnswer(c, i)
  PROVE  AtomicStep(c) /\ MapInv(c)'
<1>1. UNCHANGED <<at, node, taken, agents>> /\ at[c] = "wait"
  BY DEF NoAnswer
<1>2. \A s \in Slots : SlotKept(c, s)
  BY <1>1 DEF agents, SlotKept
<1>3. \/ UNCHANGED <<job, lost>>
      \/ /\ job[c][i] \in {"sent", "no"} /\ UNCHANGED lost
         /\ job' = [job EXCEPT ![c][i] = "none"]
      \/ /\ \/ UNCHANGED job
            \/ job[c][i] = "yes" /\ job' = [job EXCEPT ![c][i] = "none"]
         /\ lost' = [lost EXCEPT ![c] = @ \cup {i}]
  <2>1. [job EXCEPT ![c][i] = job[c][i]] = job
    BY DEF TypeOK
  <2>2. QED
    BY <2>1 DEF NoAnswer
<1>4. \A j \in Ranks : job'[c][j] \in {job[c][j], "none"}
  BY <1>3 DEF TypeOK
<1>5. MapInv(c)'
  BY <1>1, <1>2, <1>4, MapFrame
<1>6. CASE \A j \in Ranks : job'[c][j] = "sent" <=> job[c][j] = "sent"
  <2>1. RanksOf(c)' = RanksOf(c)
    BY <1>1, <1>2, <1>6, RankKept, NoRank
  <2>2. lost'[c] = lost[c] \/ lost'[c] = lost[c] \cup {i}
    BY <1>3 DEF TypeOK
  <2>3. UNCHANGED Atomic(c)!vars \/ Atomic(c)!Lose(i)
    BY <1>1, <2>1, <2>2 DEF Atomic!vars, Atomic!Lose
  <2>4. QED
    BY <1>5, <2>3 DEF AtomicStep, Atomic!Next
<1>7. CASE job[c][i] = "sent" /\ UNCHANGED lost /\ job' = [job EXCEPT ![c][i] = "none"]
  <2>1. \A j \in Ranks \ {i} : RankOf(c, j)' = RankOf(c, j)
    BY <1>1, <1>2, <1>7, RankKept DEF TypeOK
  <2>2. RankOf(c, i)' = "gone"
    <3>1. ~Mine(c, i) /\ job'[c][i] = "none" /\ At(c, i)' = At(c, i)
      BY <1>1, <1>7 DEF CallInv, RankInv, TypeOK, At
    <3>2. QED
      BY <1>1, <3>1 DEF RankOf, Mine, agents
  <2>3. RanksOf(c)[i] = "asked"
    BY <1>1, <1>7 DEF RanksOf, RankOf
  <2>4. Atomic(c)!Progress(i)
    BY <1>1, <1>7, <2>1, <2>2, <2>3, OneRank DEF Atomic!Progress, Atomic!Loose
  <2>5. QED
    BY <1>5, <2>4 DEF AtomicStep, Atomic!Next
<1>8. QED
  <2>1. \/ \A j \in Ranks : job'[c][j] = "sent" <=> job[c][j] = "sent"
        \/ job[c][i] = "sent" /\ UNCHANGED lost /\ job' = [job EXCEPT ![c][i] = "none"]
    BY <1>3 DEF TypeOK
  <2>2. QED
    BY <1>5, <1>6, <1>7, <2>1

LEMMA StartStep ==
  ASSUME TypeOK, NEW c \in Calls, CallInv(c), MapInv(c), Start(c)
  PROVE  AtomicStep(c) /\ MapInv(c)'
<1>1. at[c] = "idle" /\ UNCHANGED <<maker, shown, lost, taken>>
  BY DEF Start, agents
<1>2. /\ \A s \in Slots : maker[s] # c
      /\ \A i \in Ranks : node[c][i] = None /\ job[c][i] = "none"
  BY <1>1 DEF CallInv, RankInv
<1>3. taken[c] = {}
  BY <1>2 DEF MapInv, Past, TypeOK
<1>4. Ranks' = Ranks /\ Slots' = Slots
  BY DEF Ranks, Slots
<1>5. Named(c)' /\ Past(c)'
  BY <1>1, <1>2, <1>3, <1>4 DEF Named, Past
<1>6. CASE at' = [at EXCEPT ![c] = "failed"] /\ UNCHANGED <<node, got, job>>
  <2>1. RanksOf(c)' = [i \in Ranks |-> "gone"]
    BY <1>2, <1>4, <1>6 DEF RanksOf, RankOf, TypeOK
  <2>2. Atomic(c)!Begin
    BY <1>1, <1>6, <2>1 DEF Atomic!Begin, TypeOK
  <2>3. Apart(c)' /\ Open(c)'
    BY <1>2, <1>4, <1>6 DEF Apart, Open
  <2>4. QED
    BY <1>5, <2>2, <2>3 DEF AtomicStep, Atomic!Next, MapInv
<1>7. ASSUME NEW f \in [Ranks -> Nodes], \A i, j \in Ranks : f[i] = f[j] => i = j,
             node' = [node EXCEPT ![c] = f], at' = [at EXCEPT ![c] = "wait"],
             job' = [job EXCEPT ![c] = [i \in Ranks |-> "sent"]]
      PROVE  AtomicStep(c) /\ MapInv(c)'
  <2>1. at'[c] = "wait" /\ \A i \in Ranks : job'[c][i] = "sent" /\ node'[c][i] = f[i]
    BY <1>7 DEF TypeOK
  <2>2. RanksOf(c)' = [i \in Ranks |-> "asked"]
    BY <1>4, <2>1 DEF RanksOf, RankOf
  <2>3. Atomic(c)!Begin
    BY <1>1, <2>1, <2>2 DEF Atomic!Begin
  <2>4. Apart(c)' /\ Open(c)'
    BY <1>4, <1>7, <2>1 DEF Apart, Open
  <2>5. QED
    BY <1>5, <2>3, <2>4 DEF AtomicStep, Atomic!Next, MapInv
<1>8. QED
  BY <1>6, <1>7 DEF Start

(* The decision: all ranks are ready, or there is reason to give up.       *)
LEMMA WaitStep ==
  ASSUME TypeOK, NEW c \in Calls, CallInv(c), MapInv(c), Wait(c)
  PROVE  AtomicStep(c) /\ MapInv(c)'
<1>1. at[c] = "wait" /\ UNCHANGED <<node, job, agents, lost, taken>>
  BY DEF Wait
<1>2. \A s \in Slots : SlotKept(c, s)
  BY <1>1 DEF agents, SlotKept
<1>3. at'[c] = IF \E i \in Ranks : got[c][i] = "no" THEN "rollback" ELSE "ok"
  BY DEF Wait, TypeOK
<1>4. MapInv(c)'
  BY <1>1, <1>2, MapFrame
<1>5. RanksOf(c)' = RanksOf(c)
  BY <1>1, <1>2, <1>3, RankKept, NoRank
<1>6. \A i \in Ranks : got[c][i] \in {"yes", "no"} /\ Accounted(c, i) /\ node[c][i] # None
  BY <1>1, PPAssumption DEF Wait, AllIn, CallInv, RankInv, TypeOK, Placed
<1>7. CASE at'[c] = "ok"
  <2>1. ASSUME NEW i \in Ranks \ taken[c] PROVE RanksOf(c)[i] = "ready"
    <3>1. got[c][i] = "yes" /\ job[c][i] = "none" /\ Kept(c, i)
      BY <1>3, <1>6, <1>7 DEF Accounted
    <3>2. RankOf(c, i) = "ready"
      BY <1>1, <1>6, <2>1, <3>1 DEF RankOf, Kept, Mine
    <3>3. QED
      BY <3>2 DEF RanksOf
  <2>2. Atomic(c)!Commit
    BY <1>1, <1>5, <1>7, <2>1 DEF Atomic!Commit
  <2>3. QED
    BY <1>4, <2>2 DEF AtomicStep, Atomic!Next
<1>8. CASE at'[c] = "rollback"
  <2>1. PICK i \in Ranks : got[c][i] = "no"
    BY <1>3, <1>8
  <2>2. i \in lost[c] \/ RankOf(c, i) = "gone"
    BY <1>1, <1>6, <2>1 DEF Accounted, Cleared, Live, Mine, RankOf
  <2>3. i \in lost[c] \/ RanksOf(c)[i] = "gone"
    BY <2>2 DEF RanksOf
  <2>4. Atomic(c)!GiveUp
    BY <1>1, <1>5, <1>8, <2>3 DEF Atomic!GiveUp
  <2>5. QED
    BY <1>4, <2>4 DEF AtomicStep, Atomic!Next
<1>9. QED
  BY <1>3, <1>7, <1>8

(* A turn of the rollback withdraws a rank that is ready, finds nothing to *)
(* withdraw, or does not reach the agent.                                  *)
LEMMA RollbackStep ==
  ASSUME TypeOK, NEW c \in Calls, CallInv(c), MapInv(c), Rollback(c)
  PROVE  AtomicStep(c) /\ MapInv(c)'
<1>1. at[c] = "rollback" /\ UNCHANGED <<at, node, job>>
  BY DEF Rollback
<1>2. PICK k \in Ranks :
        /\ Placed(c, k) /\ Accounted(c, k) /\ got[c][k] \in {"yes", "no"}
        /\ At(c, k) \in Slots
        /\ \/ UNCHANGED <<agents, lost, taken>>
           \/ ids[c][k] # None /\ Vacate({At(c, k)}, c) /\ lost' = lost
           \/ lost' = [lost EXCEPT ![c] = @ \cup {k}] /\ UNCHANGED <<agents, taken>>
  BY RollbackTurn
<1>3. CASE UNCHANGED agents /\ UNCHANGED taken /\ lost'[c] \in {lost[c], lost[c] \cup {k}}
  <2>1. \A s \in Slots : SlotKept(c, s)
    BY <1>3 DEF agents, SlotKept
  <2>2. MapInv(c)'
    BY <1>1, <1>3, <2>1, MapFrame
  <2>3. RanksOf(c)' = RanksOf(c)
    BY <1>1, <2>1, RankKept, NoRank
  <2>4. UNCHANGED Atomic(c)!vars \/ Atomic(c)!Lose(k)
    BY <1>1, <1>3, <2>3 DEF Atomic!vars, Atomic!Lose
  <2>5. QED
    BY <2>2, <2>4 DEF AtomicStep, Atomic!Next
<1>4. CASE ids[c][k] # None /\ Vacate({At(c, k)}, c) /\ lost' = lost
  <2>1. \A t \in Slots : /\ maker'[t] = (IF t = At(c, k) THEN None ELSE maker[t])
                         /\ shown'[t] = (IF t = At(c, k) THEN "none" ELSE shown[t])
    BY <1>4 DEF Vacate
  <2>2. taken'[c] = taken[c]
    BY <1>4 DEF Vacate, TypeOK
  <2>3. got[c][k] = "yes" /\ job[c][k] = "none" /\ Kept(c, k)
    BY <1>2, <1>4 DEF Accounted
  <2>4. ASSUME NEW j \in Ranks \ {k} PROVE RankOf(c, j)' = RankOf(c, j)
    <3>1. \A t \in Slots : t = At(c, j) => SlotKept(c, t)
      BY <2>1 DEF SlotKept, At
    <3>2. QED
      BY <1>1, <3>1, RankKept
  <2>5. RankOf(c, k)' = "gone"
    <3>1. At(c, k)' = At(c, k)
      BY <1>1 DEF At
    <3>2. maker'[At(c, k)] # c
      BY <1>2, <2>1, PPAssumption
    <3>3. QED
      BY <1>1, <2>3, <3>1, <3>2 DEF RankOf
  <2>6. RankOf(c, k) \in {"ready", "gone"} /\ RanksOf(c)[k] = RankOf(c, k)
    <3>1. Mine(c, k) => shown[At(c, k)] = "ready"
      BY <2>3 DEF Kept, MapInv, Past
    <3>2. QED
      BY <1>1, <2>3, <3>1 DEF RankOf, RanksOf, Mine
  <2>7. RanksOf(c)' = [RanksOf(c) EXCEPT ![k] = "gone"]
    BY <2>4, <2>5, OneRank
  <2>8. RankOf(c, k) = "gone" => RanksOf(c)' = RanksOf(c)
    BY <2>6, <2>7 DEF RanksOf
  <2>9. UNCHANGED Atomic(c)!vars \/ Atomic(c)!Withdraw(k)
    BY <1>1, <1>4, <2>2, <2>6, <2>7, <2>8 DEF Atomic!vars, Atomic!Withdraw
  <2>10. \A s \in Slots : SlotKept(c, s) \/ maker'[s] # c
    BY <2>1, PPAssumption DEF SlotKept
  <2>11. MapInv(c)'
    BY <1>1, <2>2, <2>10, MapFrame
  <2>12. QED
    BY <2>9, <2>11 DEF AtomicStep, Atomic!Next
<1>5. QED
  BY <1>2, <1>3, <1>4 DEF TypeOK

LEMMA RolledBackStep ==
  ASSUME TypeOK, NEW c \in Calls, CallInv(c), MapInv(c), RolledBack(c)
  PROVE  AtomicStep(c) /\ MapInv(c)'
<1>1. at[c] = "rollback" /\ next[c] = PP /\ UNCHANGED <<node, job, agents, lost, taken>>
  BY DEF RolledBack
<1>2. at'[c] = "failed"
  BY DEF RolledBack, TypeOK
<1>3. \A s \in Slots : SlotKept(c, s)
  BY <1>1 DEF agents, SlotKept
<1>4. MapInv(c)'
  BY <1>1, <1>3, MapFrame
<1>5. RanksOf(c)' = RanksOf(c)
  BY <1>1, <1>2, <1>3, RankKept, NoRank
<1>6. ASSUME NEW i \in Ranks \ lost[c] PROVE RanksOf(c)[i] = "gone"
  <2>1. i < next[c]
    BY <1>1, PPAssumption DEF Ranks
  <2>2. job[c][i] = "none" /\ ~Live(c, i)
    BY <1>1, <1>6, <2>1 DEF CallInv, RankInv, Cleared
  <2>3. RankOf(c, i) = "gone"
    BY <1>1, <2>2 DEF RankOf, Live, Mine
  <2>4. QED
    BY <2>3 DEF RanksOf
<1>7. Atomic(c)!Fail
  BY <1>1, <1>2, <1>5, <1>6 DEF Atomic!Fail
<1>8. QED
  BY <1>4, <1>7 DEF AtomicStep, Atomic!Next

(* What stops one slot is seen by any other call as one rank taken, or as  *)
(* nothing.                                                                *)
LEMMA StopSeen ==
  ASSUME TypeOK, NEW d \in Calls, CallInv(d), MapInv(d),
         UNCHANGED <<at[d], node[d], job[d], lost[d]>>,
         NEW s \in Slots, NEW x, x # d, Vacate({s}, x)
  PROVE  AtomicStep(d) /\ MapInv(d)'
<1>1. AtomicStep(d)
  BY StopStep
<1>2. \A t \in Slots : maker'[t] = (IF t = s THEN None ELSE maker[t])
                      /\ shown'[t] = (IF t = s THEN "none" ELSE shown[t])
  BY DEF Vacate
<1>3. taken'[d] = taken[d] \cup {t[2] : t \in {u \in {s} : maker[u] = d}}
  BY DEF Vacate
<1>4. \A i \in taken'[d] \ taken[d] :
        \E t \in Slots : maker[t] = d /\ maker'[t] # d /\ i = t[2]
  BY <1>2, <1>3, PPAssumption
<1>5. \A t \in Slots : SlotKept(d, t) \/ maker'[t] # d
  BY <1>2, PPAssumption DEF SlotKept
<1>6. MapInv(d)'
  BY <1>4, <1>5, MapFrame
<1>7. QED
  BY <1>1, <1>6

LEMMA QuietSeen ==
  ASSUME TypeOK, NEW d \in Calls, CallInv(d), MapInv(d),
         UNCHANGED <<at[d], node[d], job[d], lost[d], taken[d]>>,
         \A s \in Slots : SlotKept(d, s)
  PROVE  AtomicStep(d) /\ MapInv(d)'
BY QuietStep, MapFrame

LEMMA RestartSeen ==
  ASSUME TypeOK, NEW d \in Calls, CallInv(d), MapInv(d), NEW n \in Nodes, Restart(n)
  PROVE  AtomicStep(d) /\ MapInv(d)'
<1>1. AtomicStep(d)
  BY RestartStep
<1>2. \A t \in Slots : /\ maker'[t] = (IF t[1] = n THEN None ELSE maker[t])
                       /\ shown'[t] = (IF t[1] = n THEN "none" ELSE shown[t])
  BY DEF Restart, Vacate, Slots
<1>3. taken'[d] = taken[d] \cup {t[2] : t \in {u \in {n} \X Ranks : maker[u] = d}}
  BY PPAssumption DEF Restart, Vacate
<1>4. \A i \in taken'[d] \ taken[d] :
        \E t \in Slots : maker[t] = d /\ maker'[t] # d /\ i = t[2]
  <2>1. ASSUME NEW u \in {n} \X Ranks, maker[u] = d
        PROVE  u \in Slots /\ maker'[u] # d
    BY <1>2, <2>1, PPAssumption DEF Slots
  <2>2. QED
    BY <1>3, <2>1
<1>5. \A t \in Slots : SlotKept(d, t) \/ maker'[t] # d
  BY <1>2, PPAssumption DEF SlotKept
<1>6. node'[d] = node[d] /\ \A i \in Ranks : job'[d][i] \in {job[d][i], "none"}
  BY DEF Restart
<1>7. MapInv(d)'
  BY <1>4, <1>5, <1>6, MapFrame
<1>8. QED
  BY <1>1, <1>7

(* Another call's step is none of this one, or takes one rank of it.       *)
LEMMA OthersSeen ==
  ASSUME TypeOK, NEW d \in Calls, CallInv(d), MapInv(d),
         NEW c \in Calls \ {d}, CallInv(c), Deploying(c)
  PROVE  AtomicStep(d) /\ MapInv(d)'
<1>1. CASE Rollback(c)
  <2>1. PICK k \in Ranks :
          /\ At(c, k) \in Slots
          /\ \/ UNCHANGED <<agents, lost, taken>>
             \/ Vacate({At(c, k)}, c) /\ lost' = lost
             \/ lost' = [lost EXCEPT ![c] = @ \cup {k}] /\ UNCHANGED <<agents, taken>>
    BY <1>1, RollbackTurn
  <2>2. UNCHANGED <<at[d], node[d], job[d], lost[d]>>
    BY <1>1, <2>1 DEF Rollback, TypeOK
  <2>3. CASE Vacate({At(c, k)}, c)
    BY <2>1, <2>2, <2>3, StopSeen
  <2>4. CASE UNCHANGED agents /\ UNCHANGED taken
    BY <2>2, <2>4, QuietSeen DEF agents, SlotKept
  <2>5. QED
    BY <2>1, <2>3, <2>4
<1>2. ASSUME NEW i \in Ranks, AgentDeploys(c, i) PROVE AtomicStep(d) /\ MapInv(d)'
  <2>1. UNCHANGED <<at[d], node[d], job[d], lost[d], taken[d]>>
    BY <1>2 DEF AgentDeploys, coord, TypeOK
  <2>2. \/ maker[At(c, i)] = None /\ Occupy(At(c, i), c)
        \/ UNCHANGED agents
    BY <1>2 DEF AgentDeploys
  <2>3. \A s \in Slots : SlotKept(d, s)
    BY <2>2, PPAssumption DEF Occupy, agents, SlotKept, TypeOK
  <2>4. QED
    BY <2>1, <2>3, QuietSeen
<1>3. ASSUME NEW i \in Ranks, AgentAnswers(c, i) PROVE AtomicStep(d) /\ MapInv(d)'
  <2>1. UNCHANGED <<at[d], node[d], job[d], lost[d], taken[d]>>
    BY <1>3 DEF AgentAnswers, coord, TypeOK
  <2>2. PICK how \in {"ready", "error"} : Show(At(c, i), c, how)
    BY <1>3 DEF AgentAnswers
  <2>3. \A s \in Slots : SlotKept(d, s)
    BY <1>3, <2>2 DEF AgentAnswers, Show, SlotKept, TypeOK
  <2>4. QED
    BY <2>1, <2>3, QuietSeen
<1>4. ASSUME Start(c) \/ Wait(c) \/ RolledBack(c) \/
             \E i \in Ranks : AnswerYes(c, i) \/ AnswerNo(c, i) \/ NoAnswer(c, i)
      PROVE  AtomicStep(d) /\ MapInv(d)'
  <2>1. UNCHANGED agents /\ taken'[d] = taken[d]
    BY <1>4 DEF Start, Wait, RolledBack, AnswerYes, AnswerNo, NoAnswer
  <2>2. at'[d] = at[d] /\ node'[d] = node[d]
    BY <1>4 DEF Start, Wait, RolledBack, AnswerYes, AnswerNo, NoAnswer, TypeOK
  <2>3. job'[d] = job[d] /\ lost'[d] = lost[d]
    BY <1>4 DEF Start, Wait, RolledBack, AnswerYes, AnswerNo, NoAnswer, TypeOK
  <2>4. QED
    BY <2>1, <2>2, <2>3, QuietSeen DEF agents, SlotKept
<1>5. QED
  BY <1>1, <1>2, <1>3, <1>4 DEF Deploying

(* Every step is seen by every call as a step of its abstract deployment.  *)
LEMMA EveryStepIsAtomic ==
  ASSUME IInv, [Next]_vars, NEW d \in Calls, MapInv(d)
  PROVE  AtomicStep(d) /\ MapInv(d)'
<1> USE DEF IInv
<1>1. ASSUME NEW c \in Calls, Deploying(c) PROVE AtomicStep(d) /\ MapInv(d)'
  <2>1. CASE c = d
    BY <1>1, <2>1, StartStep, WaitStep, RollbackStep, RolledBackStep, AgentDeploysStep,
       AgentAnswersStep, AnswerStep, NoAnswerStep DEF Deploying
  <2>2. CASE c # d
    BY <1>1, <2>2, OthersSeen
  <2>3. QED
    BY <2>1, <2>2
<1>2. ASSUME NEW n \in Nodes, NEW i \in Ranks, HealStop(n, i)
      PROVE  AtomicStep(d) /\ MapInv(d)'
  <2>1. PICK s \in Slots : s = <<n, i>>
    BY DEF Slots
  <2>2. Vacate({s}, None) /\ UNCHANGED <<coord, job, lost>>
    BY <1>2, <2>1 DEF HealStop
  <2>3. QED
    BY <2>2, StopSeen, PPAssumption DEF coord
<1>3. ASSUME NEW s \in Slots, SweepStop(s) PROVE AtomicStep(d) /\ MapInv(d)'
  <2>1. UNCHANGED <<coord, job, lost>>
    BY <1>3 DEF SweepStop
  <2>2. CASE Vacate({s}, None)
    BY <2>1, <2>2, StopSeen, PPAssumption DEF coord
  <2>3. CASE UNCHANGED <<agents, taken>>
    BY <2>1, <2>3, QuietSeen DEF agents, SlotKept, coord
  <2>4. QED
    BY <1>3, <2>2, <2>3 DEF SweepStop
<1>4. ASSUME NEW n \in Nodes, HealDeploy(n) PROVE AtomicStep(d) /\ MapInv(d)'
  <2>1. UNCHANGED <<coord, job, lost, taken>>
    BY <1>4 DEF HealDeploy
  <2>2. PICK s \in Slots : s = <<n, healing[n].rank>>
    BY <1>4 DEF HealDeploy, TypeOK, Slots
  <2>3. (maker[s] = None /\ Occupy(s, Healer)) \/ UNCHANGED agents
    BY <1>4, <2>2 DEF HealDeploy
  <2>4. \A t \in Slots : SlotKept(d, t)
    BY <2>3, PPAssumption DEF Occupy, agents, SlotKept, TypeOK
  <2>5. QED
    BY <2>1, <2>4, QuietSeen DEF coord
<1>5. ASSUME NEW n \in Nodes, HealEnds(n) PROVE AtomicStep(d) /\ MapInv(d)'
  <2>1. UNCHANGED <<coord, job, maker, lost, taken>>
    BY <1>5 DEF HealEnds
  <2>2. PICK s \in Slots, how \in {"ready", "error"} : Show(s, Healer, how)
    BY <1>5 DEF HealEnds, TypeOK, Slots
  <2>3. \A t \in Slots : SlotKept(d, t)
    BY <2>1, <2>2, PPAssumption DEF Show, SlotKept, TypeOK
  <2>4. QED
    BY <2>1, <2>3, QuietSeen DEF coord
<1>6. ASSUME SweepStart \/ (\E n \in Nodes : SweepList(n)) \/ UNCHANGED vars
      PROVE  AtomicStep(d) /\ MapInv(d)'
  <2>1. UNCHANGED <<coord, job, agents, lost, taken>>
    BY <1>6 DEF SweepStart, SweepList, vars
  <2>2. QED
    BY <2>1, QuietSeen DEF agents, SlotKept, coord
<1>7. QED
  BY <1>1, <1>2, <1>3, <1>4, <1>5, <1>6, RestartSeen DEF Next

LEMMA InitIsAtomic ==
  ASSUME Init, NEW d \in Calls
  PROVE  Atomic(d)!Init /\ MapInv(d)
<1>1. Atomic(d)!Init
  BY DEF Init, Atomic!Init, RanksOf, RankOf
<1>2. MapInv(d)
  BY PPAssumption DEF Init, MapInv, Apart, Named, Open, Past
<1>3. QED
  BY <1>1, <1>2

(* A pipeline-parallel deployment is all or nothing, as AtomicDeploy has   *)
(* it: ImplementsAtomic, for any number of nodes, ranks and calls, and any *)
(* number of restarts, sweeps, stops and losses.                           *)
THEOREM AtomicHolds == Spec => ImplementsAtomic
<1>1. Init => \A d \in Calls : Atomic(d)!Init /\ MapInv(d)
  BY InitIsAtomic
<1>2. IInv /\ (\A d \in Calls : MapInv(d)) /\ [Next]_vars
        => /\ (\A d \in Calls : MapInv(d))'
           /\ [\A c \in Calls : UNCHANGED Atomic(c)!vars \/ Atomic(c)!Next]_vars
  BY EveryStepIsAtomic DEF AtomicStep
<1>3. Init => (\A d \in Calls : MapInv(d)) /\ \A c \in Calls : Atomic(c)!Init
  BY <1>1
<1>4. QED
  BY <1>2, <1>3, Invariance, PTL DEF Spec, ImplementsAtomic

(* The same as a refinement, one call at a time: the behaviour of each is  *)
(* one of AtomicDeploy's.                                                  *)
THEOREM EachCallRefines ==
  ASSUME NEW d \in Calls
  PROVE  Spec => Atomic(d)!Spec
<1>1. Init => Atomic(d)!Init /\ MapInv(d)
  BY InitIsAtomic
<1>2. IInv /\ MapInv(d) /\ [Next]_vars
        => MapInv(d)' /\ [Atomic(d)!Next]_(Atomic(d)!vars)
  BY EveryStepIsAtomic DEF AtomicStep
<1>3. QED
  BY <1>1, <1>2, Invariance, PTL DEF Spec, Atomic!Spec

-----------------------------------------------------------------------------
(* The agents of OpenDeploy, which InstanceLifecycle alone restrains.      *)

(* All that InstanceLifecycle lets happen to a slot: what is free may be   *)
(* taken, what loads may end, and what is there may go.                    *)
LEMMA SlotSteps ==
  ASSUME NEW n \in Nodes, AgentStep(n), NEW s \in Slots
  PROVE  shown'[s] \in {shown[s], "none"} \/ shown[s] \in {"none", "loading"}
<1>1. CASE s[1] # n
  BY <1>1 DEF AgentStep
<1>2. CASE s[1] = n
  <2>1. PICK i \in Ranks : s = <<n, i>>
    BY <1>2 DEF Slots
  <2>2. shown[s] = Shown(n)[i] /\ shown'[s] = Shown(n)'[i]
    <3>1. Ranks' = Ranks
      BY DEF Ranks
    <3>2. QED
      BY <2>1, <3>1 DEF Shown
  <2>3. DOMAIN Shown(n) = Ranks
    BY DEF Shown
  <2>4. Shown(n)'[i] \in {Shown(n)[i], "none"} \/ Shown(n)[i] \in {"none", "loading"}
    <3>1. CASE Listing(n)!Restart
      BY <3>1 DEF Listing!Restart
    <3>2. ASSUME NEW j \in Ranks,
                 \/ Listing(n)!Appear(j) \/ Listing(n)!BecomeReady(j)
                 \/ Listing(n)!BecomeFailed(j)
          PROVE  Shown(n)'[i] = Shown(n)[i] \/ Shown(n)[i] \in {"none", "loading"}
      BY <2>3, <3>2
      DEF Listing!Appear, Listing!BecomeReady, Listing!BecomeFailed
    <3>3. ASSUME NEW j \in Ranks, Listing(n)!Vanish(j)
          PROVE  Shown(n)'[i] \in {Shown(n)[i], "none"}
      BY <2>3, <3>3 DEF Listing!Vanish
    <3>4. ASSUME NEW j \in Ranks, Listing(n)!LateEngine(j)
          PROVE  Shown(n)' = Shown(n)
      BY <3>4 DEF Listing!LateEngine
    <3>5. QED
      BY <3>1, <3>2, <3>3, <3>4 DEF AgentStep, Listing!Next
  <2>5. QED
    BY <2>2, <2>4
<1>3. QED
  BY <1>1, <1>2

(* Seen by a call: a slot is kept, or what it had there is gone and noted. *)
LEMMA AgentSpares ==
  ASSUME TypeOK, NEW n \in Nodes, AgentStep(n), NEW c \in Calls, NEW s \in Slots
  PROVE  /\ Spared(c, s)
         /\ SlotKept(c, s) \/ (s[1] = n /\ maker[s] = c /\ maker'[s] # c)
<1>1. maker'[s] = IF shown'[s] = shown[s] THEN maker[s]
                  ELSE IF shown'[s] = "none" THEN None
                  ELSE IF shown[s] = "none" THEN Healer ELSE maker[s]
  BY DEF AgentStep, Renamed
<1>2. maker'[s] = c => /\ maker[s] = c
                       /\ shown'[s] = shown[s] \/ "none" \notin {shown[s], shown'[s]}
  BY <1>1, PPAssumption
<1>3. maker'[s] = c => shown'[s] = shown[s]
  <2>1. maker[s] = c /\ shown[s] = "loading" => shown'[s] \in {"loading", "none"}
    BY DEF AgentStep
  <2>2. QED
    BY <1>2, <2>1, SlotSteps
<1>4. maker[s] = c /\ maker'[s] # c => s[2] \in taken'[c]
  BY DEF AgentStep, Noticed
<1>5. Spared(c, s)
  BY <1>2, <1>3, <1>4 DEF Spared
<1>6. maker[s] = c /\ maker'[s] # c => s[1] = n
  BY <1>1 DEF AgentStep
<1>7. QED
  BY <1>2, <1>3, <1>5, <1>6 DEF SlotKept

LEMMA AgentTypes ==
  ASSUME TypeOK, NEW n \in Nodes, AgentStep(n)
  PROVE  TypeOK'
<1>1. maker' \in [Slots -> Calls \cup {Healer, None}]
  BY DEF AgentStep, Renamed, TypeOK
<1>2. taken' \in [Calls -> SUBSET Ranks]
  BY DEF AgentStep, Noticed, TypeOK, Slots
<1>3. shown' \in [Slots -> {"none", "loading", "ready", "error"}]
  BY DEF AgentStep
<1>4. Ranks' = Ranks /\ Slots' = Slots
  BY DEF Ranks, Slots
<1>5. QED
  BY <1>1, <1>2, <1>3, <1>4 DEF AgentStep, TypeOK, coord, sweep

LEMMA AgentKeeps ==
  ASSUME TypeOK, \A d \in Calls : CallInv(d), NEW n \in Nodes, AgentStep(n)
  PROVE  \A d \in Calls : CallInv(d)'
<1>1. \A d \in Calls, s \in Slots : Spared(d, s)
  BY AgentSpares
<1>2. \A d \in Calls : taken[d] \subseteq taken'[d]
  BY DEF AgentStep, Noticed
<1>3. QED
  BY <1>1, <1>2, OthersKeep DEF AgentStep

(* To a call an agent's step is nothing, or takes the one rank it had      *)
(* there.                                                                  *)
LEMMA AgentSeen ==
  ASSUME TypeOK, NEW d \in Calls, CallInv(d), MapInv(d), NEW n \in Nodes, AgentStep(n)
  PROVE  AtomicStep(d) /\ MapInv(d)'
<1>1. UNCHANGED <<at[d], node[d], job[d], lost[d]>>
  BY DEF AgentStep, coord
<1>2. taken'[d] = taken[d] \cup {s[2] : s \in {t \in Slots : maker[t] = d /\ maker'[t] # d}}
  BY DEF AgentStep, Noticed
<1>3. \A s \in Slots : SlotKept(d, s) \/ (s[1] = n /\ maker[s] = d /\ maker'[s] # d)
  BY AgentSpares
<1>4. CASE \A s \in Slots : SlotKept(d, s)
  <2>1. {t \in Slots : maker[t] = d /\ maker'[t] # d} = {}
    BY <1>4 DEF SlotKept
  <2>2. taken'[d] = taken[d]
    BY <1>2, <2>1
  <2>3. QED
    BY <1>1, <1>4, <2>2, QuietSeen
<1>5. ASSUME NEW s \in Slots, s[1] = n, maker[s] = d, maker'[s] # d
      PROVE  AtomicStep(d)
  <2>1. PICK k \in Ranks : s = At(d, k) /\ k = s[2] /\ node[d][k] = n
    BY <1>5 DEF MapInv, Named, Slots, At
  <2>2. \A t \in Slots : maker[t] = d /\ t[1] = n => t = s
    <3>1. ASSUME NEW t \in Slots, maker[t] = d, t[1] = n PROVE t = s
      <4>1. PICK j \in Ranks : t = At(d, j) /\ node[d][j] = n
        BY <3>1 DEF MapInv, Named, Slots, At
      <4>2. j = k
        BY <2>1, <4>1, PPAssumption DEF MapInv, Apart
      <4>3. QED
        BY <2>1, <4>1, <4>2
    <3>2. QED
      BY <3>1
  <2>3. taken'[d] = taken[d] \cup {k}
    <3>1. {t \in Slots : maker[t] = d /\ maker'[t] # d} = {s}
      BY <1>3, <1>5, <2>2 DEF SlotKept
    <3>2. QED
      BY <1>2, <2>1, <3>1
  <2>4. ASSUME NEW j \in Ranks \ {k} PROVE RankOf(d, j)' = RankOf(d, j)
    <3>1. \A t \in Slots : t = At(d, j) => SlotKept(d, t)
      BY <1>3, <2>1, <2>2, <2>4 DEF At
    <3>2. QED
      BY <1>1, <3>1, RankKept
  <2>5. at[d] # "idle" /\ job[d][k] # "sent"
    BY <1>5, <2>1 DEF CallInv, RankInv, Mine
  <2>6. RankOf(d, k)' = "gone"
    <3>1. At(d, k)' = At(d, k)
      BY <1>1 DEF At
    <3>2. QED
      BY <1>1, <1>5, <2>1, <2>5, <3>1 DEF RankOf
  <2>7. RanksOf(d)' = [RanksOf(d) EXCEPT ![k] = "gone"]
    BY <2>4, <2>6, OneRank
  <2>8. Atomic(d)!Disturb
    BY <1>1, <2>3, <2>5, <2>7 DEF Atomic!Disturb
  <2>9. QED
    BY <2>8 DEF AtomicStep, Atomic!Next
<1>6. MapInv(d)'
  <2>1. \A i \in taken'[d] \ taken[d] :
          \E s \in Slots : maker[s] = d /\ maker'[s] # d /\ i = s[2]
    BY <1>2
  <2>2. \A s \in Slots : SlotKept(d, s) \/ maker'[s] # d
    BY <1>3
  <2>3. QED
    BY <1>1, <2>1, <2>2, MapFrame
<1>7. QED
  BY <1>3, <1>4, <1>5, <1>6

(* A step among any agents.                                                *)
LEMMA OpenStep ==
  ASSUME IInv, \A d \in Calls : MapInv(d), [OpenNext]_ovars
  PROVE  IInv' /\ \A d \in Calls : AtomicStep(d) /\ MapInv(d)'
<1> USE DEF IInv
<1>1. CASE [Next]_vars
  BY <1>1, TypeStep, InvStep, EveryStepIsAtomic
<1>2. ASSUME NEW n \in Nodes, AgentStep(n)
      PROVE  IInv' /\ \A d \in Calls : AtomicStep(d) /\ MapInv(d)'
  BY <1>2, AgentTypes, AgentKeeps, AgentSeen
<1>3. QED
  BY <1>1, <1>2 DEF OpenNext, OwnStep, ovars

(* What a deployment leaves behind it leaves behind among all agents that  *)
(* keep to InstanceLifecycle, whatever else they list, stop and restart,   *)
(* and also if they publish engines late: SuccessIsWhole,                  *)
(* FailureIsRolledBack, RollbackSparesOthers and ImplementsAtomic.         *)
THEOREM OpenHolds ==
  OpenSpec => /\ [](SuccessIsWhole /\ FailureIsRolledBack)
              /\ RollbackSparesOthers
              /\ ImplementsAtomic
<1> DEFINE All == IInv /\ \A d \in Calls : MapInv(d)
           Sparing == \A c \in Calls : Rollback(c) =>
                        \A i \in Ranks : node[c][i] # None /\ maker[At(c, i)] \notin {c, None}
                                         /\ maker'[At(c, i)] = None => i \in taken[c]
           Mapped == \A c \in Calls : UNCHANGED Atomic(c)!vars \/ Atomic(c)!Next
<1>1. OpenInit => All /\ \A c \in Calls : Atomic(c)!Init
  BY InvInit, InitIsAtomic DEF OpenInit
<1>2. All /\ [OpenNext]_ovars => All' /\ [Sparing]_vars /\ [Mapped]_vars
  BY OpenStep, RollbackSpares DEF AtomicStep
<1>3. All => SuccessIsWhole /\ FailureIsRolledBack
  BY Ends
<1>4. QED
  BY <1>1, <1>2, <1>3, PTL DEF OpenSpec, RollbackSparesOthers, ImplementsAtomic
=============================================================================
