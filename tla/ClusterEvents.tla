--------------------------- MODULE ClusterEvents ---------------------------
(***************************************************************************)
(* Membership as one node sees it (internal/cluster), and the goroutine of *)
(* the daemon that watches its events.  memberlist is external: it keeps   *)
(* an entry for every other node it has heard of, and calls NotifyJoin,    *)
(* NotifyUpdate and NotifyLeave one at a time, under the lock its Members  *)
(* takes: a change of the list and its call are one step.  Each call may   *)
(* put an event in the subscriber's channel, which drops it when full.     *)
(***************************************************************************)
EXTENDS Naturals, Sequences

CONSTANTS
  Nodes,  \* the other nodes
  Room    \* capacity of a subscriber's channel (64 in the code)

ASSUME EventsAssumption == Room \in Nat \ {0}

VARIABLES
  entry,       \* memberlist's state of each node: a suspect counts as alive
  meta,        \* the metadata it holds of each
  subscribed,  \* the watcher has called Subscribe
  queue,       \* the watcher's channel
  hand,        \* the event it is handling, if any
  told,        \* nodes that joined, and have not left, by what it has seen
  handled,     \* nodes HandleNodeFailed was called for
  missed       \* history: nodes whose last coming or going it is not told of

list    == <<entry, meta>>
watcher == <<hand, told, handled>>
cvars   == <<list, subscribed, queue, watcher, missed>>

(* NodeMeta of a node: whole, or empty if it is longer than the limit. *)
NodeMeta(fits) == IF fits THEN "whole" ELSE "empty"
Metas == {NodeMeta(f) : f \in BOOLEAN}

Types == {"joined", "updated", "left", "failed"}
Event(t, n) == [type |-> t, node |-> n]
Events == [type : Types, node : Nodes]

CInit ==
  /\ entry = [n \in Nodes |-> "unknown"]
  /\ meta = [n \in Nodes |-> "empty"]
  /\ subscribed = FALSE
  /\ queue = <<>> /\ hand = <<>>
  /\ told = {} /\ handled = {} /\ missed = {}

(* Members passes over the nodes whose metadata it cannot decode. *)
Members == {n \in Nodes : entry[n] = "alive" /\ meta[n] = "whole"}

(* broadcast: a full channel drops the event.  The mutants make room by    *)
(* dropping the oldest, and put it in regardless.                          *)
DropOldest(ev) ==
  queue' = IF ~subscribed THEN queue
           ELSE Append(IF Len(queue) < Room THEN queue ELSE Tail(queue), ev)
NeverFull(ev) == queue' = IF subscribed THEN Append(queue, ev) ELSE queue
Broadcast(ev) ==
  queue' = IF subscribed /\ Len(queue) < Room THEN Append(queue, ev) ELSE queue

(* NotifyJoin, NotifyUpdate, NotifyLeave: nothing is told of a node whose  *)
(* metadata cannot be decoded.                                             *)
Notify(t, n, m) ==
  /\ IF m = "whole" THEN Broadcast(Event(t, n)) ELSE UNCHANGED queue
  /\ missed' = IF queue' # queue /\ t # "updated" THEN missed \ {n}
               ELSE IF (n \in Members) # (n \in Members') THEN missed \cup {n}
               ELSE missed
NotifyJoin(n, m)   == Notify("joined", n, m)
NotifyUpdate(n, m) == Notify("updated", n, m)
NotifyLeave(n, m)  == Notify("left", n, m)

-----------------------------------------------------------------------------
(* memberlist hears that a node is alive: it is new, is back, or was       *)
(* restarted, perhaps with other metadata, before anybody missed it.       *)
Alive(n, m) ==
  /\ entry' = [entry EXCEPT ![n] = "alive"]
  /\ meta' = [meta EXCEPT ![n] = m]
  /\ \/ entry[n] # "alive" /\ NotifyJoin(n, m)
     \/ entry[n] = "alive" /\ meta[n] # m /\ NotifyUpdate(n, m)
  /\ UNCHANGED <<subscribed, watcher>>

(* A node has not answered and is declared dead, or says that it leaves.   *)
(* The delegate is called in the same way.                                 *)
Gone(n, s) ==
  /\ entry[n] = "alive"
  /\ entry' = [entry EXCEPT ![n] = s]
  /\ UNCHANGED <<meta, subscribed, watcher>>
  /\ NotifyLeave(n, meta[n])
Fails(n)  == Gone(n, "dead")
Leaves(n) == Gone(n, "left")

(* The watcher's goroutine starts some time after the list is there. *)
Subscribe ==
  /\ ~subscribed
  /\ subscribed' = TRUE
  /\ UNCHANGED <<list, queue, watcher, missed>>

Take ==
  /\ hand = <<>> /\ queue # <<>>
  /\ hand' = <<Head(queue)>>
  /\ queue' = Tail(queue)
  /\ UNCHANGED <<list, subscribed, told, handled, missed>>

(* The switch of the watcher: a failure goes to the scheduler, comings and *)
(* goings to the log, updates nowhere.  The mutant returns at a leave.     *)
Told(ev) ==
  CASE ev.type = "joined" -> told \cup {ev.node}
    [] ev.type = "left"   -> told \ {ev.node}
    [] OTHER              -> told
Handled(ev) == IF ev.type = "failed" THEN handled \cup {ev.node} ELSE handled
HandleReturns ==
  /\ hand # <<>> /\ hand[1].type # "left"
  /\ told' = Told(hand[1]) /\ handled' = Handled(hand[1])
  /\ hand' = <<>>
  /\ UNCHANGED <<list, subscribed, queue, missed>>
Handle ==
  /\ hand # <<>>
  /\ told' = Told(hand[1]) /\ handled' = Handled(hand[1])
  /\ hand' = <<>>
  /\ UNCHANGED <<list, subscribed, queue, missed>>

CNext ==
  \/ \E n \in Nodes : \/ \E m \in Metas : Alive(n, m)
                      \/ Fails(n) \/ Leaves(n)
  \/ Subscribe \/ Take \/ Handle

CSpec == CInit /\ [][CNext]_cvars

(* The watcher's goroutine is scheduled. *)
FairCSpec == CSpec /\ WF_cvars(Subscribe) /\ WF_cvars(Take) /\ WF_cvars(Handle)
-----------------------------------------------------------------------------
(* Properties. *)

(* Every variable has its type, and the channel holds no more than it can. *)
CTypeOK ==
  /\ entry \in [Nodes -> {"unknown", "alive", "dead", "left"}]
  /\ meta \in [Nodes -> {"whole", "empty"}]
  /\ subscribed \in BOOLEAN
  /\ queue \in Seq(Events) /\ Len(queue) <= Room
  /\ hand \in Seq(Events) /\ Len(hand) <= 1
  /\ told \subseteq Nodes /\ handled \subseteq Nodes /\ missed \subseteq Nodes

Pending == hand \o queue

(* What the watcher has been told agrees with Members about every node of  *)
(* which no event is on its way, except those whose last coming or going   *)
(* was before it subscribed, met a full channel, or was one of metadata    *)
(* only.                                                                   *)
ViewAgrees ==
  \A n \in Nodes \ missed :
    (\A i \in 1..Len(Pending) : Pending[i].node # n) => (n \in told <=> n \in Members)

(* However fast nodes come and go, a watcher that is scheduled hears of a  *)
(* node that is listed and stays so, unless the event did not get into the *)
(* channel.                                                                *)
ComingIsTold ==
  \A n \in Nodes :
    n \in Members \ missed ~> n \in told \/ n \notin Members \/ n \in missed
-----------------------------------------------------------------------------
(* What the code's comments say and the code does not do. *)

(* run.go: "节点故障 → 调度器触发重建" (a node fails: the scheduler triggers the *)
(* rebuilding): a failure that memberlist has declared of a node whose     *)
(* metadata is whole, and whose event got into the channel, reaches        *)
(* HandleNodeFailed, unless the node is back first.                        *)
FailureIsHandled ==
  \A n \in Nodes :
    entry[n] = "dead" /\ meta[n] = "whole" /\ n \notin missed
      ~> n \in handled \/ entry[n] = "alive"
=============================================================================
