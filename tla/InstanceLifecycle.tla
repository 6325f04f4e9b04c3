-------------------------- MODULE InstanceLifecycle --------------------------
(***************************************************************************)
(* What the agent promises about one instance id to those who list         *)
(* instances and ask for engines (ListInstances, GetEngine): the state     *)
(* shown under the id, and whether an engine can be had for it.            *)
(***************************************************************************)
CONSTANT Ids

VARIABLES
  shown,  \* id -> "none", "loading", "ready" or "error"
  avail   \* id -> GetEngine would return an engine

vars == <<shown, avail>>

TypeOK ==
  /\ shown \in [Ids -> {"none", "loading", "ready", "error"}]
  /\ avail \in [Ids -> BOOLEAN]

Init ==
  /\ shown = [id \in Ids |-> "none"]
  /\ avail = [id \in Ids |-> FALSE]

(* A deployment takes a free id. *)
Appear(id) ==
  /\ shown[id] = "none"
  /\ shown' = [shown EXCEPT ![id] = "loading"]
  /\ UNCHANGED avail

(* It ends well: state and engine are published together. *)
BecomeReady(id) ==
  /\ shown[id] = "loading"
  /\ shown' = [shown EXCEPT ![id] = "ready"]
  /\ avail' = [avail EXCEPT ![id] = TRUE]

(* It ends badly, and the instance stays listed. *)
BecomeFailed(id) ==
  /\ shown[id] = "loading"
  /\ shown' = [shown EXCEPT ![id] = "error"]
  /\ UNCHANGED avail

(* The instance is stopped: state and engine are withdrawn together.  Only *)
(* through here can a failed or a ready instance be deployed again.        *)
Vanish(id) ==
  /\ shown[id] # "none"
  /\ shown' = [shown EXCEPT ![id] = "none"]
  /\ avail' = [avail EXCEPT ![id] = FALSE]

(* A deployment whose instance was stopped while it loaded publishes its   *)
(* engine all the same.                                                    *)
LateEngine(id) ==
  /\ avail' = [avail EXCEPT ![id] = TRUE]
  /\ UNCHANGED shown

(* The agent's process restarts: nothing is listed any more. *)
Restart ==
  /\ shown' = [id \in Ids |-> "none"]
  /\ avail' = [id \in Ids |-> FALSE]

Next ==
  \/ \E id \in Ids : \/ Appear(id) \/ BecomeReady(id) \/ BecomeFailed(id)
                     \/ Vanish(id) \/ LateEngine(id)
  \/ Restart

Spec == Init /\ [][Next]_vars

(* Loading does not last forever. *)
LoadingEnds(id) == /\ shown[id] = "loading"
                   /\ BecomeReady(id) \/ BecomeFailed(id) \/ Vanish(id)

FairSpec == Spec /\ \A id \in Ids : WF_vars(LoadingEnds(id))
=============================================================================
