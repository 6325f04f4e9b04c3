----------------------------- MODULE Scheduler -----------------------------
(***************************************************************************)
(* The scheduler (internal/scheduler/scheduler.go): the table of what the  *)
(* nodes have, the decisions where a model goes, and what it does when a   *)
(* node has failed.  A step is one critical section of Scheduler.mu or one *)
(* transaction of the store.  Its callers are any: in the daemon only the  *)
(* watcher of ClusterEvents calls, and nobody reports resources.           *)
(***************************************************************************)
EXTENDS Integers, FiniteSets

CONSTANTS
  Nodes,
  Reports,  \* what a node may have: number of GPUs, their memory, what is free
  Models,   \* the names of models
  Wants,    \* name -> memory, tensor and pipeline parallelism of its record
  MaxN,     \* bound on the replicas asked for
  MaxJobs,  \* bound on the goroutines that redeploy a model at a time
  None

ASSUME SchedAssumption ==
  /\ IsFiniteSet(Nodes)
  /\ Reports \subseteq [gpus : Nat, total : Nat, free : Nat]
  /\ None \notin Reports \cup Nodes
  /\ Wants \in [Models -> [need : Nat, tp : Nat, pp : Nat]]
  /\ MaxN \in Nat /\ MaxJobs \in Nat

VARIABLES
  resources,  \* Scheduler.resources; None for a node that is not in the map
  stored,     \* the models in the store
  at,         \* where the goroutine in HandleNodeFailed is
  todo,       \* listed models it has still to look at
  jobs,       \* name -> goroutines that redeploy it
  answer,     \* what the last step decided, if it was a decision
  due, begun  \* history: models to redeploy after this failure; those begun

failure == <<at, todo, jobs>>
svars   == <<resources, stored, failure, answer, due, begun>>

NoAnswer == [model |-> None, asked |-> 0, nodes |-> <<>>]

SInit ==
  /\ resources = [n \in Nodes |-> None]
  /\ stored \in SUBSET Models
  /\ at = "idle" /\ todo = {}
  /\ jobs = [m \in Models |-> 0]
  /\ answer = NoAnswer
  /\ due = {} /\ begun = {}

-----------------------------------------------------------------------------
(* The table.  A report that names no node is ignored; the mutant is not   *)
(* so careful.                                                             *)
Unchecked(n, r) == [k \in DOMAIN resources \cup {n} |-> IF k = n THEN r ELSE resources[k]]
Reported(n, r) == IF n = None THEN resources ELSE [resources EXCEPT ![n] = r]
UpdateResources(n, r) ==
  /\ resources' = Reported(n, r)
  /\ answer' = NoAnswer
  /\ UNCHANGED <<stored, failure, due, begun>>

RemoveNode(n) ==
  /\ resources' = [resources EXCEPT ![n] = None]
  /\ answer' = NoAnswer
  /\ UNCHANGED <<stored, failure, due, begun>>

(* The console puts models into the store and deletes them. *)
Store(s) ==
  /\ stored' = s
  /\ due' = due \cap s
  /\ answer' = NoAnswer
  /\ UNCHANGED <<resources, failure, begun>>

-----------------------------------------------------------------------------
(* Where a model goes. *)

(* The hard constraints.  The mutant counts the GPUs of nobody. *)
FitsMemory(n, m) == resources[n] # None /\ resources[n].free >= Wants[m].need
Fits(n, m) ==
  /\ FitsMemory(n, m)
  /\ Wants[m].tp > 1 => resources[n].gpus >= Wants[m].tp

(* score: the share of memory that is free, in whole percents.  The number *)
(* of instances, which it is to weigh in, is always 0.                     *)
Score(n) == IF resources[n].total = 0 THEN 0
            ELSE ((resources[n].free * 100) \div resources[n].total) * 7 + 100

(* sort.Slice over the candidates in the map's order: any order that puts  *)
(* no lower score first.  The mutant puts no higher one first.             *)
Orders(C) == {o \in [1..Cardinality(C) -> C] : \A c \in C : \E i \in DOMAIN o : o[i] = c}
Ascending(C) ==
  {o \in Orders(C) : \A i, j \in DOMAIN o : i < j => Score(o[i]) <= Score(o[j])}
Sorted(C) ==
  {o \in Orders(C) : \A i, j \in DOMAIN o : i < j => Score(o[i]) >= Score(o[j])}

Decide(m, n, nodes) ==
  /\ answer' = [model |-> m, asked |-> n, nodes |-> nodes]
  /\ UNCHANGED <<resources, stored, at, todo, due, begun>>

(* Place: the first of the candidates, if there are any. *)
Place(m) ==
  LET C == {n \in Nodes : Fits(n, m)} IN
  \/ C = {} /\ Decide(m, 1, <<>>)
  \/ \E o \in Sorted(C) : C # {} /\ Decide(m, 1, <<o[1]>>)

(* PlaceN: round after round over the candidates; a pipeline needs as many *)
(* as it has stages.  The mutants stay with the first nodes, and do not    *)
(* ask for so many.                                                        *)
FirstOnes(i, L, m) == IF Wants[m].pp > 1 THEN i % Wants[m].pp ELSE i % L
Turn(i, L, m) == i % L
NonEmpty(C, m) == C # {}
Enough(C, m) == C # {} /\ (Wants[m].pp > 1 => Cardinality(C) >= Wants[m].pp)
PlaceN(m, asked) ==
  LET C == {n \in Nodes : Fits(n, m)}
      n == IF asked <= 0 THEN 1 ELSE asked
  IN \/ ~Enough(C, m) /\ Decide(m, n, <<>>)
     \/ /\ Enough(C, m)
        /\ \E o \in Sorted(C) :
             Decide(m, n, [i \in 1..n |-> o[Turn(i - 1, Cardinality(C), m) + 1]])

-----------------------------------------------------------------------------
(* HandleNodeFailed: forget the node, ... *)
HandleNodeFailed(n) ==
  /\ at = "idle"
  /\ at' = "list"
  /\ resources' = [resources EXCEPT ![n] = None]
  /\ due' = {} /\ begun' = {}
  /\ answer' = NoAnswer
  /\ UNCHANGED <<stored, todo, jobs>>

(* ... list the models, unless the store fails, ... *)
ListModels ==
  /\ at = "list"
  /\ \/ at' = "get" /\ todo' = stored /\ due' = stored
     \/ at' = "idle" /\ UNCHANGED <<todo, due>>
  /\ answer' = NoAnswer
  /\ UNCHANGED <<resources, stored, jobs, begun>>

(* ... and start a goroutine for each that is still there; one whose       *)
(* record cannot be read is passed over.  The mutant gives up at the    *)
(* first that is not there.                                                *)
AfterGivingUp(m) == IF m \in stored THEN todo \ {m} ELSE {}
After(m) == todo \ {m}
GetModel(m) ==
  /\ at = "get" /\ m \in todo
  /\ todo' = After(m)
  /\ \/ /\ m \in stored /\ jobs[m] < MaxJobs
        /\ jobs' = [jobs EXCEPT ![m] = @ + 1]
        /\ begun' = begun \cup {m}
        /\ UNCHANGED due
     \/ /\ m \in stored
        /\ due' = due \ {m}
        /\ UNCHANGED <<jobs, begun>>
     \/ /\ m \notin stored
        /\ UNCHANGED <<jobs, due, begun>>
  /\ answer' = NoAnswer
  /\ UNCHANGED <<resources, stored, at>>

Handled ==
  /\ at = "get" /\ todo = {}
  /\ at' = "idle"
  /\ answer' = NoAnswer
  /\ UNCHANGED <<resources, stored, todo, jobs, due, begun>>

(* redeploy, in its goroutine: Place, and the deploy callback, which keeps *)
(* to this node whatever Place said.                                       *)
Redeploy(m) ==
  /\ jobs[m] > 0
  /\ jobs' = [jobs EXCEPT ![m] = @ - 1]
  /\ Place(m)

Caller ==
  \/ \E n \in Nodes \cup {None} : \E r \in Reports : UpdateResources(n, r)
  \/ \E n \in Nodes : RemoveNode(n) \/ HandleNodeFailed(n)
  \/ \E s \in SUBSET Models : Store(s)
  \/ \E m \in Models : \/ Place(m) /\ UNCHANGED jobs
                       \/ \E n \in 0..MaxN : PlaceN(m, n) /\ UNCHANGED jobs

SNext == \/ Caller \/ ListModels \/ Handled
         \/ \E m \in Models : GetModel(m) \/ Redeploy(m)

SSpec == SInit /\ [][SNext]_svars
-----------------------------------------------------------------------------
(* Properties. *)

(* Every variable has its type. *)
STypeOK ==
  /\ resources \in [Nodes -> Reports \cup {None}]
  /\ stored \subseteq Models
  /\ at \in {"idle", "list", "get"} /\ todo \subseteq Models
  /\ jobs \in [Models -> 0..MaxJobs]
  /\ DOMAIN answer = {"model", "asked", "nodes"}
  /\ due \subseteq Models /\ begun \subseteq Models

Chosen   == answer.nodes
Indices  == DOMAIN answer.nodes
Want     == Wants[answer.model]
CanTake(n) == /\ resources[n] # None
              /\ resources[n].free >= Want.need
              /\ Want.tp <= 1 \/ Want.tp <= resources[n].gpus

(* A decision names nodes that are in the table and can take the model,    *)
(* the freest, by share, first; and one is refused only if there is none,  *)
(* or fewer than the pipeline has stages.                                  *)
DecisionFits ==
  answer # NoAnswer =>
    /\ \A i \in Indices : CanTake(Chosen[i])
    /\ Indices # {} => \A n \in Nodes : CanTake(n) => Score(Chosen[1]) >= Score(n)
    /\ Indices = {} => \/ {n \in Nodes : CanTake(n)} = {}
                       \/ Cardinality({n \in Nodes : CanTake(n)}) < Want.pp

(* Replicas are spread: no node that can take the model has two more of    *)
(* them than another.                                                      *)
On(n) == Cardinality({i \in Indices : Chosen[i] = n})
SpreadEvenly ==
  answer # NoAnswer =>
    \A a, b \in Nodes : CanTake(a) /\ CanTake(b) => On(a) <= On(b) + 1

(* The stages of one pipeline are on different nodes.                      *)
Pipeline(i) == (i - 1) \div Want.pp
StagesApart ==
  answer # NoAnswer /\ Want.pp > 1 =>
    \A i, j \in Indices : i # j /\ Pipeline(i) = Pipeline(j) => Chosen[i] # Chosen[j]

(* When a failure has been handled, every model that was in the store all  *)
(* the time and could be read is being redeployed, whatever was deleted    *)
(* meanwhile and whichever records were passed over.                       *)
NoneForgotten == at = "idle" => due \subseteq begun
=============================================================================
