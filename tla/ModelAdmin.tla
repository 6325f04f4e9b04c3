----------------------------- MODULE ModelAdmin -----------------------------
(***************************************************************************)
(* One model under the console's handlers (internal/console/               *)
(* models_admin.go): its record in the repository (internal/modelrepo) and *)
(* its instances on this node.  A handler reads the record, deploys or     *)
(* stops for minutes, and writes the record back, whole or by SetStatus,   *)
(* which reads it again; nothing keeps two handlers, or a handler and the  *)
(* agent's health loop, apart.  A restart deploys what is registered       *)
(* (registerDeployedModels in cmd/meshserve/run.go).                       *)
(*                                                                         *)
(* The agent is what InstanceLifecycle promises of it.  Ranks on other     *)
(* nodes are PPDeploy's subject.                                           *)
(***************************************************************************)
EXTENDS Naturals

CONSTANTS
  Handlers,  \* goroutines of console requests
  Configs,   \* what a record may say of endpoint, engine, quantisation, shards
  External,  \* those with an endpoint: nothing is deployed
  Healer,    \* makers of instances beside the handlers: the health loop, ...
  Booter,    \* ... and registerDeployedModels
  Begins,    \* bound: requests served
  Upsets,    \* bound: restarts and repairs by the health loop
  None

Web     == "web"      \* inst-<model>-web, which DeployByModel makes
Restore == "restore"  \* inst-<model>-restore, which a restart makes
Slots   == {Web, Restore}

Statuses  == {"online", "deploying", "offline", "error", "disabled"}
States    == {"loading", "ready", "error"}
Records   == [status : Statuses, config : Configs, local : BOOLEAN]
Instances == [state : States, config : Configs, maker : Handlers \cup {Healer, Booter}]

(* What a handler knows: the operation and where it is in it, the status   *)
(* it will set, the record it holds and the one SetStatus has read, and    *)
(* the instances it has still to stop; history: it has met nobody so far,  *)
(* and somebody has written the record since.                              *)
Reqs ==
  [op : {"register", "update", "edit", "enable", "disable", "delete"},
   pc : {"save", "write", "get", "put", "list", "stop", "erase", "replace",
         "deploy", "load", "fix"},
   goal : Statuses, cur : Records, seen : Records \cup {None},
   todo : SUBSET Slots, alone : BOOLEAN, missed : BOOLEAN]
Repairs == [at : {"stop", "deploy", "load"}, slot : Slots, config : Configs]

ASSUME AdminAssumption ==
  /\ External \subseteq Configs
  /\ Healer # Booter /\ {Healer, Booter} \cap Handlers = {}
  /\ Begins \in Nat /\ Upsets \in Nat
  /\ None \notin Records /\ None \notin Instances
  /\ None \notin Reqs /\ None \notin Repairs

VARIABLES
  record,  \* the model in the repository, or None
  inst,    \* the instance listed under each id, or None
  req,     \* the request each handler serves, or None
  heal,    \* the repair the health loop is at, or None
  boot,    \* where registerDeployedModels is; handlers wait for "done"
  begun,   \* requests so far
  upsets,  \* restarts and repairs so far
  mixed    \* history: two of these met, and nothing has cleared up since

vars == <<record, inst, req, heal, boot, begun, upsets, mixed>>

Busy(h) == req[h] # None
Quiet   == boot = "done" /\ heal = None /\ \A h \in Handlers : ~Busy(h)

Init ==
  /\ record = None
  /\ inst = [s \in Slots |-> None]
  /\ req = [h \in Handlers |-> None]
  /\ heal = None /\ boot = "done"
  /\ begun = 0 /\ upsets = 0 /\ mixed = FALSE

-----------------------------------------------------------------------------
(* The agent. *)

Loading(c, m) == [state |-> "loading", config |-> c, maker |-> m]

(* The load of m under s ends: its own instance shows how, if still        *)
(* listed.  The mutant looks the instance up by its id.                    *)
ShowById(s, m, how) ==
  inst' = IF inst[s] # None THEN [inst EXCEPT ![s].state = how] ELSE inst
Show(s, m, how) ==
  inst' = IF inst[s] # None /\ inst[s].maker = m /\ inst[s].state = "loading"
          THEN [inst EXCEPT ![s].state = how] ELSE inst

(* ListInstances, as StopInstancesByModel reads it.  The mutant looks for   *)
(* the console's own instance only.                                        *)
WebOnly == {s \in {Web} : inst[s] # None}
Listed  == {s \in Slots : inst[s] # None}

-----------------------------------------------------------------------------
(* A request arrives and its handler reads the record, which decides what  *)
(* it will do: the operation op, and the record it goes on to hold.  One   *)
(* that is refused for what it says (a bad engine, no such path) changes   *)
(* nothing and is left out.                                                *)
Arrive(h, o, p, g, r) ==
  /\ boot = "done" /\ ~Busy(h)
  /\ begun < Begins /\ begun' = begun + 1
  /\ req' = [k \in Handlers |->
       IF k = h
       THEN [op |-> o, pc |-> p, goal |-> g, cur |-> r, seen |-> None, todo |-> {},
             alone |-> Quiet, missed |-> FALSE]
       ELSE IF Busy(k) THEN [req[k] EXCEPT !.alone = FALSE] ELSE None]
  /\ mixed' = (mixed \/ ~Quiet)
  /\ UNCHANGED <<record, inst, heal, boot, upsets>>

(* registerModelHandler: 409 if there is a record.  One that gives a path  *)
(* is local, with an endpoint or without.                                  *)
BeginRegister(h, c) ==
  /\ record = None
  /\ \E local \in BOOLEAN :
       /\ local \/ c \in External
       /\ Arrive(h, "register", "save", "deploying",
                 [status |-> "deploying", config |-> c, local |-> local])

(* updateModelHandler, with a change that needs a redeployment, or none.   *)
(* An endpoint can be replaced but not taken away.                         *)
BeginUpdate(h, c) ==
  /\ record # None
  /\ record.config \in External => c \in External
  /\ Arrive(h, "update", "write", "deploying", [record EXCEPT !.config = c])

BeginEdit(h) ==
  /\ record # None
  /\ Arrive(h, "edit", "write", "deploying", record)

(* toggleModelHandler. *)
BeginToggle(h) ==
  /\ record # None
  /\ IF record.status = "disabled"
     THEN Arrive(h, "enable", "get", "deploying", record)
     ELSE Arrive(h, "disable", "list", "disabled", record)

(* deleteModelHandler. *)
BeginDelete(h) ==
  /\ record # None
  /\ Arrive(h, "delete", "list", "deploying", record)

-----------------------------------------------------------------------------
At(h, p) == Busy(h) /\ req[h].pc = p
Goto(h, p) == req' = [req EXCEPT ![h].pc = p]
Mark(h, s) == req' = [req EXCEPT ![h].pc = "get", ![h].goal = s]

(* updateModelHandler leaves a disabled model alone; the mutant does not.   *)
RedeploysAlways(r) == TRUE
Redeploys(r) == r.status # "disabled"

(* The answer is written.  A request that met nothing and has stopped all  *)
(* instances clears up what others have left.                              *)
Sweeps(q) == q.op \in {"disable", "delete"} \/ (q.op = "update" /\ Redeploys(q.cur))
Answered(h) == mixed' = (mixed /\ ~(req[h].alone /\ Sweeps(req[h])))

(* The other requests have missed what h writes. *)
Missing(h) == [k \in Handlers |->
  IF k # h /\ Busy(k) THEN [req[k] EXCEPT !.missed = TRUE] ELSE req[k]]

(* h writes r, and either answers or goes on at p. *)
WriteAndAnswer(h, r) ==
  /\ record' = r
  /\ req' = [Missing(h) EXCEPT ![h] = None]
  /\ Answered(h)
WriteAndGoto(h, r, p) ==
  /\ record' = r
  /\ req' = [Missing(h) EXCEPT ![h].pc = p]
  /\ UNCHANGED mixed

others == <<inst, heal, boot, begun, upsets>>

(* With an endpoint there is nothing to deploy. *)
NowDeploys(h) == IF req[h].cur.config \in External THEN "get" ELSE "replace"

(* RegisterModel. *)
Save(h) ==
  /\ At(h, "save")
  /\ record' = req[h].cur
  /\ req' = [Missing(h) EXCEPT ![h].pc = NowDeploys(h), ![h].goal = "online"]
  /\ UNCHANGED <<mixed, others>>

(* Repo.Update writes the whole record back. *)
Write(h) ==
  /\ At(h, "write")
  /\ IF req[h].op = "update" /\ Redeploys(req[h].cur)
     THEN WriteAndGoto(h, req[h].cur, "list")
     ELSE WriteAndAnswer(h, req[h].cur)
  /\ UNCHANGED others

(* SetStatus reads the record, ... *)
Get(h) ==
  /\ At(h, "get") /\ record # None
  /\ req' = [req EXCEPT ![h].pc = "put", ![h].seen = record]
  /\ UNCHANGED <<record, mixed, others>>

(* ... and writes it with the new status; without a record it fails, which *)
(* its callers ignore.                                                     *)
Put(h) ==
  /\ At(h, "put")
  /\ LET r == [req[h].seen EXCEPT !.status = req[h].goal] IN
     IF req[h].goal # "deploying" THEN WriteAndAnswer(h, r)
     ELSE /\ record' = r
          /\ req' = [Missing(h) EXCEPT ![h].pc = NowDeploys(h), ![h].goal = "online",
                                       ![h].seen = None]
          /\ UNCHANGED mixed
  /\ UNCHANGED others
NoRecord(h) ==
  /\ At(h, "get") /\ record = None
  /\ IF req[h].goal # "deploying"
     THEN req' = [req EXCEPT ![h] = None] /\ Answered(h)
     ELSE /\ req' = [req EXCEPT ![h].pc = NowDeploys(h), ![h].goal = "online"]
          /\ UNCHANGED mixed
  /\ UNCHANGED <<record, others>>

(* stopModelEverywhere, on this node. *)
List(h) ==
  /\ At(h, "list")
  /\ req' = [req EXCEPT ![h].pc = "stop", ![h].todo = Listed]
  /\ UNCHANGED <<record, mixed, others>>

Stop(h) ==
  /\ At(h, "stop")
  /\ \E s \in req[h].todo :
       /\ inst' = [inst EXCEPT ![s] = None]
       /\ req' = [req EXCEPT ![h].todo = @ \ {s}]
  /\ UNCHANGED <<record, mixed, heal, boot, begun, upsets>>

Stopped(h) ==
  /\ At(h, "stop") /\ req[h].todo = {}
  /\ Goto(h, IF req[h].op = "delete" THEN "erase" ELSE "get")
  /\ UNCHANGED <<record, mixed, others>>

(* Repo.Delete. *)
Erase(h) ==
  /\ At(h, "erase")
  /\ WriteAndAnswer(h, None)
  /\ UNCHANGED others

(* DeployByModel stops the instance it made last time, ... *)
Replace(h) ==
  /\ At(h, "replace")
  /\ inst' = [inst EXCEPT ![Web] = None]
  /\ Goto(h, "deploy")
  /\ UNCHANGED <<record, mixed, heal, boot, begun, upsets>>

(* ... deploys a new one, unless another request has been faster, ...  The  *)
(* mutants of what SetStatus is told forget the error, or write the state  *)
(* of an instance.                                                         *)
OutcomeIgnored(ok)  == "online"
OutcomeMisspelt(ok) == IF ok THEN "ready" ELSE "error"
Outcome(ok)         == IF ok THEN "online" ELSE "error"
Failed(h) == IF req[h].op = "register" THEN Goto(h, "fix") ELSE Mark(h, Outcome(FALSE))

Deploy(h) ==
  /\ At(h, "deploy")
  /\ \/ /\ inst[Web] = None
        /\ inst' = [inst EXCEPT ![Web] = Loading(req[h].cur.config, h)]
        /\ Goto(h, "load")
     \/ /\ inst[Web] # None
        /\ Failed(h)
        /\ UNCHANGED inst
  /\ UNCHANGED <<record, mixed, heal, boot, begun, upsets>>

(* ... and waits until it is loaded. *)
Loads(h) ==
  /\ At(h, "load")
  /\ \/ Show(Web, h, "ready") /\ Mark(h, Outcome(TRUE))
     \/ Show(Web, h, "error") /\ Failed(h)
  /\ UNCHANGED <<record, mixed, heal, boot, begun, upsets>>

(* registerModelHandler writes its own record again if that fails. *)
Fix(h) ==
  /\ At(h, "fix")
  /\ WriteAndAnswer(h, [req[h].cur EXCEPT !.status = "error"])
  /\ UNCHANGED others

-----------------------------------------------------------------------------
(* The health loop takes an instance that fails its check or has no        *)
(* engine, ...                                                             *)
HealProbe(s) ==
  /\ heal = None /\ inst[s] # None
  /\ upsets < Upsets /\ upsets' = upsets + 1
  /\ heal' = [at |-> "stop", slot |-> s, config |-> inst[s].config]
  /\ req' = [h \in Handlers |-> IF Busy(h) THEN [req[h] EXCEPT !.alone = FALSE] ELSE None]
  /\ mixed' = (mixed \/ \E h \in Handlers : Busy(h))
  /\ UNCHANGED <<record, inst, boot, begun>>

(* ... stops what has its id by then, ... *)
HealStop ==
  /\ heal # None /\ heal.at = "stop"
  /\ inst' = [inst EXCEPT ![heal.slot] = None]
  /\ heal' = [heal EXCEPT !.at = "deploy"]
  /\ UNCHANGED <<record, req, boot, begun, upsets, mixed>>

(* ... deploys what it took, unless somebody else has (its path is not     *)
(* kept: specOf takes one under the models' directory), ...                *)
HealDeploy ==
  /\ heal # None /\ heal.at = "deploy"
  /\ \/ /\ inst[heal.slot] = None
        /\ inst' = [inst EXCEPT ![heal.slot] = Loading(heal.config, Healer)]
        /\ heal' = [heal EXCEPT !.at = "load"]
     \/ /\ inst[heal.slot] # None
        /\ heal' = None
        /\ UNCHANGED inst
  /\ UNCHANGED <<record, req, boot, begun, upsets, mixed>>

(* ... and waits until that ends. *)
HealEnds ==
  /\ heal # None /\ heal.at = "load"
  /\ \E how \in {"ready", "error"} : Show(heal.slot, Healer, how)
  /\ heal' = None
  /\ UNCHANGED <<record, req, boot, begun, upsets, mixed>>

(* The daemon restarts: the record is all that is left.  It begins by      *)
(* deploying what was registered with a path, disabled or not; that a      *)
(* disabled model runs again is noted as if requests had met.              *)
Restart ==
  /\ upsets < Upsets /\ upsets' = upsets + 1
  /\ inst' = [s \in Slots |-> None]
  /\ req' = [h \in Handlers |-> None]
  /\ heal' = None
  /\ boot' = IF record # None /\ record.local THEN "deploy" ELSE "done"
  /\ mixed' = (record # None /\ record.local /\ record.status = "disabled")
  /\ UNCHANGED <<record, begun>>

BootDeploys ==
  /\ boot = "deploy" /\ inst[Restore] = None
  /\ inst' = [inst EXCEPT ![Restore] = Loading(record.config, Booter)]
  /\ boot' = "load"
  /\ UNCHANGED <<record, req, heal, begun, upsets, mixed>>

BootEnds ==
  /\ boot = "load"
  /\ \E how \in {"ready", "error"} : Show(Restore, Booter, how)
  /\ boot' = "done"
  /\ UNCHANGED <<record, req, heal, begun, upsets, mixed>>

-----------------------------------------------------------------------------
Begin(h) ==
  \/ \E c \in Configs : BeginRegister(h, c) \/ BeginUpdate(h, c)
  \/ BeginEdit(h) \/ BeginToggle(h) \/ BeginDelete(h)

Serve(h) ==
  \/ Save(h) \/ Write(h) \/ Get(h) \/ Put(h) \/ NoRecord(h)
  \/ List(h) \/ Stop(h) \/ Stopped(h) \/ Erase(h)
  \/ Replace(h) \/ Deploy(h) \/ Loads(h) \/ Fix(h)

Next ==
  \/ \E h \in Handlers : Begin(h) \/ Serve(h)
  \/ \E s \in Slots : HealProbe(s)
  \/ HealStop \/ HealDeploy \/ HealEnds
  \/ Restart \/ BootDeploys \/ BootEnds

Spec == Init /\ [][Next]_vars
-----------------------------------------------------------------------------
(* Properties. *)

(* Every variable has its type; a request that stops or deploys holds a    *)
(* record.                                                                 *)
TypeOK ==
  /\ record \in Records \cup {None}
  /\ inst \in [Slots -> Instances \cup {None}]
  /\ req \in [Handlers -> Reqs \cup {None}]
  /\ heal \in Repairs \cup {None}
  /\ boot \in {"deploy", "load", "done"}
  /\ begun \in 0 .. Begins /\ upsets \in 0 .. Upsets /\ mixed \in BOOLEAN

(* deriveModelStatus: what the list of models shows. *)
Derived ==
  LET has(st) == \E s \in Slots : inst[s] # None /\ inst[s].state = st IN
  IF record.status = "disabled" \/ record.config \in External THEN record.status
  ELSE IF has("ready") THEN "online"
  ELSE IF has("loading") THEN "deploying"
  ELSE IF has("error") THEN "error"
  ELSE "offline"

(* Between requests that did not meet each other or the health loop, what  *)
(* runs is what the record says: nothing for a model that is deleted or    *)
(* disabled, at least one instance for one that is not, and none with      *)
(* settings of before.  One update, disable or delete that meets nobody    *)
(* brings this about again after any meeting.                              *)
RecordAgrees ==
  LET here == {s \in Slots : inst[s] # None} IN
  Quiet /\ ~mixed =>
    /\ record = None \/ record.status = "disabled" => here = {}
    /\ here = {} => record = None \/ record.status = "disabled"
                    \/ record.config \in External
    /\ \A s \in here : inst[s].config = record.config

(* The status such a request leaves in the record is the one that the list *)
(* of models derives from the instances.                                   *)
StatusIsTrue ==
  [][\A h \in Handlers :
       Busy(h) /\ req'[h] = None /\ upsets' = upsets /\ req[h].alone /\ ~mixed'
         /\ req[h].op # "edit" /\ record' # None
       => record'.status = Derived']_vars

(* A deleted record comes back, and a disabled model is enabled, only by   *)
(* the request that is for it, or by one that had begun before and has     *)
(* missed the deletion.                                                    *)
OnlyOverlapUndoes ==
  [][\A h \in Handlers :
       LET acts == Busy(h) /\ (req'[h] = None \/ req'[h].pc # req[h].pc) IN
       acts /\ upsets' = upsets =>
         /\ record = None /\ record' # None =>
              req[h].missed \/ (req[h].op = "register" /\ req[h].pc = "save")
         /\ record # None /\ record.status = "disabled"
              /\ record' # None /\ record'.status # "disabled" =>
              req[h].missed \/ req[h].op = "enable"]_vars

(* What the agent's list shows of an id, and whether it can be used. *)
Shown  == [s \in Slots |-> IF inst[s] = None THEN "none" ELSE inst[s].state]
Usable == [s \in Slots |-> inst[s] # None /\ inst[s].state = "ready"]

Listing == INSTANCE InstanceLifecycle WITH
  Ids <- Slots, shown <- Shown, avail <- Usable

(* The agent this module works with is one that InstanceLifecycle allows:  *)
(* what a deployment publishes belongs to its own instance, and an id that *)
(* is taken is not taken again before it is stopped.                       *)
AgentObeys == Listing!Spec
=============================================================================
