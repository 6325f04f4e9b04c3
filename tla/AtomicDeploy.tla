---------------------------- MODULE AtomicDeploy ----------------------------
(***************************************************************************)
(* What a pipeline-parallel deployment promises, whatever nodes, agents,   *)
(* rollbacks and other deployments do: all ranks or none.  A rank is       *)
(* launched at most once, and once gone it is gone; a deployment succeeds  *)
(* only when every rank is ready, gives up only when it has reason to,     *)
(* withdraws ranks only after giving up, and fails only when no rank is    *)
(* left but those it lost sight of.  What has succeeded can only be taken  *)
(* away by others, one rank at a time.                                     *)
(***************************************************************************)
CONSTANT Ranks

VARIABLES
  outcome,  \* "idle", "wait", "rollback", "ok", "failed" or "dead"
  rank,     \* rank -> "idle", "asked", "loading", "ready" or "gone"
  lost,     \* ranks it has no answer about
  taken     \* ranks stopped by others

vars == <<outcome, lost, taken, rank>>

Init ==
  /\ outcome = "idle"
  /\ rank = [i \in Ranks |-> "idle"]
  /\ lost = {} /\ taken = {}

Move(i, from, to) == rank[i] = from /\ rank' = [rank EXCEPT ![i] = to]

(* It asks for every rank, or cannot be made. *)
Begin ==
  /\ outcome = "idle"
  /\ \/ outcome' = "wait" /\ rank' = [i \in Ranks |-> "asked"]
     \/ outcome' = "failed" /\ rank' = [i \in Ranks |-> "gone"]
  /\ UNCHANGED <<lost, taken>>

(* A rank moves by itself while the deployment waits for it, or when       *)
(* nobody waits for it any more.                                           *)
Loose(i) == outcome \in {"wait", "dead"} \/ (outcome # "ok" /\ i \in lost)

Progress(i) ==
  /\ UNCHANGED <<outcome, lost, taken>>
  /\ Loose(i)
  /\ \/ rank[i] = "asked" /\ rank' = [rank EXCEPT ![i] = "loading"]
     \/ rank[i] = "loading" /\ rank' = [rank EXCEPT ![i] = "ready"]
     \/ rank[i] \in {"asked", "loading"} /\ rank' = [rank EXCEPT ![i] = "gone"]

(* The answer about a rank does not come, or the order to stop it does not *)
(* arrive.                                                                 *)
Lose(i) ==
  /\ outcome \in {"wait", "rollback"}
  /\ lost' = lost \cup {i}
  /\ UNCHANGED <<outcome, taken, rank>>

Commit ==
  /\ outcome = "wait" /\ outcome' = "ok"
  /\ \A i \in Ranks \ taken : rank[i] = "ready"
  /\ UNCHANGED <<lost, taken, rank>>

GiveUp ==
  /\ outcome = "wait" /\ outcome' = "rollback"
  /\ \E i \in Ranks : rank[i] = "gone" \/ i \in lost
  /\ UNCHANGED <<lost, taken, rank>>

Withdraw(i) ==
  /\ outcome = "rollback"
  /\ UNCHANGED <<outcome, lost, taken>>
  /\ rank[i] = "ready" /\ rank' = [rank EXCEPT ![i] = "gone"]

Fail ==
  /\ outcome = "rollback" /\ outcome' = "failed"
  /\ \A i \in Ranks \ lost : rank[i] = "gone"
  /\ UNCHANGED <<lost, taken, rank>>

(* Others stop an instance, or a node restarts, which takes the rank it    *)
(* had; with the node that deploys, the deployment is gone too.            *)
Disturb ==
  /\ outcome # "idle" /\ UNCHANGED lost
  /\ outcome' = outcome \/ (outcome # "failed" /\ outcome' = "dead")
  /\ \/ UNCHANGED <<taken, rank>>
     \/ \E i \in Ranks : /\ \/ taken' = taken \cup {i}
                            \/ rank[i] = "asked" /\ UNCHANGED taken
                         /\ rank' = [rank EXCEPT ![i] = "gone"]

Next ==
  \/ \E i \in Ranks : Progress(i) \/ Lose(i) \/ Withdraw(i)
  \/ Begin \/ Commit \/ GiveUp \/ Fail \/ Disturb

Spec == Init /\ [][Next]_vars
=============================================================================
