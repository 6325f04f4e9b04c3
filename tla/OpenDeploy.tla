----------------------------- MODULE OpenDeploy -----------------------------
(***************************************************************************)
(* PPDeploy among agents of which no more is known than InstanceLifecycle, *)
(* which Agent implements.  Beside the steps of PPDeploy an agent may take *)
(* any that InstanceLifecycle allows, at any time and without a bound: it  *)
(* may list instances that no call has asked for, end their loads, stop    *)
(* anybody's, restart, and publish an engine late.  One thing is kept from *)
(* PPDeploy: the load of an instance that a call has deployed ends in      *)
(* AgentAnswers, for how it ends is what the agent tells the call.         *)
(***************************************************************************)
EXTENDS PPDeploy

VARIABLE avail  \* slot -> GetEngine would return an engine

ovars == <<vars, avail>>

(* The instances of the model as the agent of n lists them, and its        *)
(* engines.                                                                *)
Shown(n)  == [i \in Ranks |-> shown[<<n, i>>]]
Usable(n) == [i \in Ranks |-> avail[<<n, i>>]]
Listing(n) == INSTANCE InstanceLifecycle WITH
  Ids <- Ranks, shown <- Shown(n), avail <- Usable(n)

OpenInit == Init /\ avail = [s \in Slots |-> FALSE]

(* A step of PPDeploy, which no engine matters to. *)
OwnStep == Next /\ avail' \in [Slots -> BOOLEAN]

(* What appears beside the calls is in nobody's name, and an instance of a *)
(* call that is gone was taken from it.                                    *)
Renamed == maker' = [s \in Slots |-> IF shown'[s] = shown[s] THEN maker[s]
                                     ELSE IF shown'[s] = "none" THEN None
                                     ELSE IF shown[s] = "none" THEN Healer
                                     ELSE maker[s]]
Noticed == taken' = [c \in Calls |-> taken[c] \cup
             {s[2] : s \in {t \in Slots : maker[t] = c /\ maker'[t] # c}}]

(* The agent of n takes any step that InstanceLifecycle allows. *)
AgentStep(n) ==
  /\ shown' \in [Slots -> {"none", "loading", "ready", "error"}]
  /\ avail' \in [Slots -> BOOLEAN]
  /\ Listing(n)!Next
  /\ \A s \in Slots : s[1] # n => shown'[s] = shown[s] /\ avail'[s] = avail[s]
  /\ \A s \in Slots : maker[s] \in Calls /\ shown[s] = "loading"
                        => shown'[s] \in {"loading", "none"}
  /\ Renamed /\ Noticed
  /\ UNCHANGED <<coord, job, healing, sweep, counts, lost>>

OpenNext == OwnStep \/ \E n \in Nodes : AgentStep(n)

OpenSpec == OpenInit /\ [][OpenNext]_ovars
=============================================================================
