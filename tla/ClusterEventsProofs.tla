------------------------ MODULE ClusterEventsProofs ------------------------
(***************************************************************************)
(* Proofs about ClusterEvents, for any number of nodes and any room in the *)
(* channel.  What the watcher has been told and what it is going to be     *)
(* told agree with the list: for a node that is not missed, the last       *)
(* coming or going in the channel says where the node is; or, if there is  *)
(* none, the one in the watcher's hand; or else what it has been told.     *)
(***************************************************************************)
EXTENDS ClusterEvents, SequenceTheorems, TLAPS

Moves(ev, n) == ev.node = n /\ ev.type \in {"joined", "left"}
Says(ev, n)  == Moves(ev, n) /\ (ev.type = "joined" <=> n \in Members)

(* The channel, from its i-th event on, holds no coming or going of n. *)
StillFrom(n, i) == \A j \in i..Len(queue) : ~Moves(queue[j], n)

QueueSays(n) == \E i \in 1..Len(queue) : Says(queue[i], n) /\ StillFrom(n, i + 1)
HandSays(n)  == StillFrom(n, 1) /\ hand # <<>> /\ Says(hand[1], n)
ToldSays(n)  == /\ StillFrom(n, 1)
                /\ hand # <<>> => ~Moves(hand[1], n)
                /\ n \in told <=> n \in Members

Agrees(n) == QueueSays(n) \/ HandSays(n) \/ ToldSays(n)

CInv == CTypeOK /\ \A n \in Nodes \ missed : Agrees(n)
-----------------------------------------------------------------------------
(* The types. *)

LEMMA NotifyType ==
  ASSUME CTypeOK, NEW t \in Types, NEW n \in Nodes, NEW m, Notify(t, n, m)
  PROVE  queue' \in Seq(Events) /\ Len(queue') <= Room /\ missed' \subseteq Nodes
PROOF
  <1>1. Event(t, n) \in Events
    BY DEF Event, Events
  <1>2. CASE queue' = queue
    BY <1>2 DEF CTypeOK, Notify
  <1>3. CASE queue' = Append(queue, Event(t, n)) /\ Len(queue) < Room
    BY <1>1, <1>3, EventsAssumption DEF CTypeOK, Notify
  <1>. QED
    BY <1>2, <1>3 DEF Notify, Broadcast

LEMMA TypeStep == CTypeOK /\ [CNext]_cvars => CTypeOK'
PROOF
  <1> SUFFICES ASSUME CTypeOK, [CNext]_cvars
               PROVE  CTypeOK'
    OBVIOUS
  <1>1. ASSUME NEW n \in Nodes, NEW m \in Metas, Alive(n, m)
        PROVE  CTypeOK'
    <2>1. queue' \in Seq(Events) /\ Len(queue') <= Room /\ missed' \subseteq Nodes
      BY <1>1, NotifyType DEF Alive, NotifyJoin, NotifyUpdate, Types
    <2>. QED
      BY <1>1, <2>1 DEF CTypeOK, Alive, watcher, Metas, NodeMeta
  <1>2. ASSUME NEW n \in Nodes, Fails(n) \/ Leaves(n)
        PROVE  CTypeOK'
    <2>1. queue' \in Seq(Events) /\ Len(queue') <= Room /\ missed' \subseteq Nodes
      BY <1>2, NotifyType DEF Fails, Leaves, Gone, NotifyLeave, Types
    <2>. QED
      BY <1>2, <2>1 DEF CTypeOK, Fails, Leaves, Gone, watcher
  <1>3. CASE Subscribe
    BY <1>3 DEF CTypeOK, Subscribe, list, watcher
  <1>4. CASE Take
    <2>1. /\ Head(queue) \in Events
          /\ Tail(queue) \in Seq(Events) /\ Len(Tail(queue)) <= Room
      BY <1>4, EventsAssumption DEF CTypeOK, Take
    <2>2. hand' \in Seq(Events) /\ Len(hand') <= 1
      BY <1>4, <2>1 DEF Take
    <2>. QED
      BY <1>4, <2>1, <2>2 DEF CTypeOK, Take, list
  <1>5. CASE Handle
    <2>1. hand[1] \in Events
      BY <1>5 DEF CTypeOK, Handle
    <2>2. Told(hand[1]) \subseteq Nodes /\ Handled(hand[1]) \subseteq Nodes
      BY <2>1 DEF CTypeOK, Told, Handled, Events
    <2>. QED
      BY <1>5, <2>2 DEF CTypeOK, Handle, list
  <1>6. CASE UNCHANGED cvars
    BY <1>6 DEF CTypeOK, cvars, list, watcher
  <1>. QED
    BY <1>1, <1>2, <1>3, <1>4, <1>5, <1>6 DEF CNext

-----------------------------------------------------------------------------
(* A change of the list and its call keep the agreement: about the node    *)
(* itself, because a coming or going that is announced says where the node *)
(* is, and one that is not makes it missed; about the others, because the  *)
(* event moves none of them.                                               *)
LEMMA NotifyStep ==
  ASSUME CTypeOK, NEW t \in {"joined", "updated", "left"}, NEW n \in Nodes, NEW m,
         Notify(t, n, m), UNCHANGED <<hand, told>>,
         \A k \in Nodes \ {n} : k \in Members' <=> k \in Members,
         m = "whole" /\ t # "updated" => (t = "joined" <=> n \in Members'),
         NEW k \in Nodes \ missed', k \notin missed => Agrees(k)
  PROVE  Agrees(k)'
PROOF
  <1> USE DEF CTypeOK
  <1> DEFINE ev == Event(t, n)
  <1>1. CASE queue' = queue
    <2>1. k \notin missed /\ (k \in Members' <=> k \in Members)
      BY <1>1 DEF Notify
    <2>. QED
      BY <1>1, <2>1 DEF Agrees, QueueSays, HandSays, ToldSays, StillFrom, Says, Moves
  <1>2. CASE queue' # queue
    <2>1. m = "whole" /\ queue' = Append(queue, ev)
      BY <1>2 DEF Notify, Broadcast
    <2>2. /\ Len(queue') = Len(queue) + 1 /\ Len(queue) \in Nat
          /\ queue'[Len(queue) + 1] = ev
          /\ \A j \in 1..Len(queue) : queue'[j] = queue[j]
      <3>1. ev \in Events
        BY DEF Event, Events, Types
      <3>. QED
        BY <2>1, <3>1, AppendProperties
    <2>3. CASE k = n /\ t # "updated"
      <3>1. Says(ev, k)'
        BY <2>1, <2>3 DEF Says, Moves, Event
      <3>2. StillFrom(k, Len(queue) + 1)'
        BY <2>2 DEF StillFrom
      <3>. QED
        BY <2>2, <3>1, <3>2 DEF Agrees, QueueSays
    <2>4. CASE ~(k = n /\ t # "updated")
      <3>1. k \notin missed /\ (k \in Members' <=> k \in Members)
        BY <1>2, <2>4 DEF Notify
      <3>2. ~Moves(ev, k)
        BY <2>4 DEF Moves, Event
      <3>3. ASSUME NEW i \in 1..(Len(queue) + 1), StillFrom(k, i)
            PROVE  StillFrom(k, i)'
        BY <2>2, <3>2, <3>3 DEF StillFrom, Moves
      <3>4. CASE QueueSays(k)
        <4>1. PICK i \in 1..Len(queue) : Says(queue[i], k) /\ StillFrom(k, i + 1)
          BY <3>4 DEF QueueSays
        <4>2. i \in 1..Len(queue') /\ Says(queue[i], k)' /\ StillFrom(k, i + 1)'
          BY <2>2, <3>1, <3>3, <4>1 DEF Says, Moves
        <4>. QED
          BY <4>2 DEF Agrees, QueueSays
      <3>5. CASE HandSays(k)
        BY <2>2, <3>1, <3>3, <3>5 DEF Agrees, HandSays, Says, Moves
      <3>6. CASE ToldSays(k)
        BY <2>2, <3>1, <3>3, <3>6 DEF Agrees, ToldSays, Moves
      <3>. QED
        BY <3>1, <3>4, <3>5, <3>6 DEF Agrees
    <2>. QED
      BY <2>3, <2>4
  <1>. QED
    BY <1>1, <1>2

(* The watcher takes an event: what the channel said of a node it says     *)
(* still, or the hand does.                                                *)
LEMMA TakeStep ==
  ASSUME CTypeOK, Take, NEW k \in Nodes, Agrees(k)
  PROVE  Agrees(k)'
PROOF
  <1>1. /\ Len(queue) \in Nat /\ Len(queue) > 0
        /\ Len(queue') = Len(queue) - 1
        /\ \A j \in 1..Len(queue') : queue'[j] = queue[j + 1]
        /\ hand = <<>> /\ hand' # <<>> /\ hand'[1] = queue[1]
        /\ told' = told /\ Members' = Members
    BY HeadTailProperties DEF CTypeOK, Take, list, Members
  <1>2. ASSUME NEW i \in 2..(Len(queue) + 1), StillFrom(k, i)
        PROVE  StillFrom(k, i - 1)'
    <2>1. ASSUME NEW j \in (i - 1)..Len(queue')
          PROVE  ~Moves(queue'[j], k)
      <3>1. j + 1 \in i..Len(queue) /\ j \in 1..Len(queue')
        BY <1>1
      <3>. QED
        BY <1>1, <1>2, <3>1 DEF StillFrom
    <2>. QED
      BY <2>1 DEF StillFrom, Moves
  <1>3. CASE QueueSays(k)
    <2>1. PICK i \in 1..Len(queue) : Says(queue[i], k) /\ StillFrom(k, i + 1)
      BY <1>3 DEF QueueSays
    <2>2. StillFrom(k, i)'
      <3>1. i + 1 \in 2..(Len(queue) + 1) /\ (i + 1) - 1 = i
        BY <1>1
      <3>. QED
        BY <1>2, <2>1, <3>1
    <2>3. CASE i = 1
      BY <1>1, <2>1, <2>2, <2>3 DEF Agrees, HandSays, Says, Moves
    <2>4. CASE i # 1
      <3>1. i - 1 \in 1..Len(queue') /\ queue'[i - 1] = queue[i] /\ (i - 1) + 1 = i
        BY <1>1, <2>4
      <3>2. Says(queue[i - 1], k)'
        BY <1>1, <2>1, <3>1 DEF Says, Moves
      <3>. QED
        BY <2>2, <3>1, <3>2 DEF Agrees, QueueSays
    <2>. QED
      BY <2>3, <2>4
  <1>4. CASE ToldSays(k)
    <2>1. StillFrom(k, 1)'
      <3>1. StillFrom(k, 2)
        BY <1>1, <1>4 DEF ToldSays, StillFrom
      <3>. QED
        BY <1>1, <1>2, <3>1
    <2>2. ~Moves(hand'[1], k)
      BY <1>1, <1>4 DEF ToldSays, StillFrom
    <2>. QED
      BY <1>1, <1>4, <2>1, <2>2 DEF Agrees, ToldSays, Moves
  <1>. QED
    BY <1>1, <1>3, <1>4 DEF Agrees, HandSays

(* It handles the event: what the hand said it has been told.              *)
LEMMA HandleStep ==
  ASSUME CTypeOK, Handle, NEW k \in Nodes, Agrees(k)
  PROVE  Agrees(k)'
PROOF
  <1>1. /\ hand # <<>> /\ hand' = <<>>
        /\ queue' = queue /\ Members' = Members
        /\ told' = Told(hand[1])
    BY DEF Handle, list, Members
  <1>2. /\ Moves(hand[1], k) => (k \in told' <=> hand[1].type = "joined")
        /\ ~Moves(hand[1], k) => (k \in told' <=> k \in told)
    BY <1>1 DEF Told, Moves
  <1>3. CASE QueueSays(k)
    BY <1>1, <1>3 DEF Agrees, QueueSays, StillFrom, Says, Moves
  <1>4. CASE HandSays(k) \/ ToldSays(k)
    <2>1. StillFrom(k, 1)' /\ (k \in told' <=> k \in Members')
      BY <1>1, <1>2, <1>4 DEF HandSays, ToldSays, Says, StillFrom, Moves
    <2>. QED
      BY <1>1, <2>1 DEF Agrees, ToldSays
  <1>. QED
    BY <1>3, <1>4 DEF Agrees

-----------------------------------------------------------------------------
LEMMA InitCInv == CInit => CInv
PROOF
  <1> SUFFICES ASSUME CInit
               PROVE  CInv
    OBVIOUS
  <1>1. CTypeOK
    <2>1. /\ queue \in Seq(Events) /\ Len(queue) <= Room
          /\ hand \in Seq(Events) /\ Len(hand) <= 1
      BY EventsAssumption DEF CInit
    <2>. QED
      BY <2>1 DEF CInit, CTypeOK
  <1>2. ASSUME NEW n \in Nodes
        PROVE  Agrees(n)
    BY DEF CInit, Agrees, ToldSays, StillFrom, Members
  <1>. QED
    BY <1>1, <1>2 DEF CInv

LEMMA NextCInv == CInv /\ [CNext]_cvars => CInv'
PROOF
  <1> SUFFICES ASSUME CInv, [CNext]_cvars
               PROVE  CInv'
    OBVIOUS
  <1>0. CTypeOK /\ CTypeOK'
    BY TypeStep DEF CInv
  <1>1. ASSUME NEW k \in Nodes, k \notin missed'
        PROVE  Agrees(k)'
    <2>0. k \notin missed => Agrees(k)
      BY DEF CInv
    <2>1. ASSUME NEW n \in Nodes, NEW m \in Metas, Alive(n, m)
          PROVE  Agrees(k)'
      <3>1. /\ UNCHANGED <<hand, told>>
            /\ \A l \in Nodes \ {n} : l \in Members' <=> l \in Members
            /\ m = "whole" => n \in Members'
        BY <1>0, <2>1 DEF Alive, watcher, Members, CTypeOK
      <3>2. CASE NotifyJoin(n, m)
        BY <1>0, <1>1, <2>0, <3>1, <3>2, NotifyStep DEF NotifyJoin
      <3>3. CASE NotifyUpdate(n, m)
        BY <1>0, <1>1, <2>0, <3>1, <3>3, NotifyStep DEF NotifyUpdate
      <3>. QED
        BY <2>1, <3>2, <3>3 DEF Alive
    <2>2. ASSUME NEW n \in Nodes, NEW s \in {"dead", "left"}, Gone(n, s)
          PROVE  Agrees(k)'
      <3>1. /\ UNCHANGED <<hand, told>>
            /\ \A l \in Nodes \ {n} : l \in Members' <=> l \in Members
            /\ n \notin Members'
        BY <1>0, <2>2 DEF Gone, watcher, Members, CTypeOK
      <3>. QED
        BY <1>0, <1>1, <2>0, <2>2, <3>1, NotifyStep DEF Gone, NotifyLeave
    <2>3. CASE Subscribe \/ UNCHANGED cvars
      <3>1. UNCHANGED <<entry, meta, queue, hand, told, missed>>
        BY <2>3 DEF Subscribe, cvars, list, watcher
      <3>. QED
        BY <1>1, <2>0, <3>1 DEF Agrees, QueueSays, HandSays, ToldSays, StillFrom, Says, Moves,
          Members
    <2>4. CASE Take
      BY <1>0, <1>1, <2>0, <2>4, TakeStep DEF Take
    <2>5. CASE Handle
      BY <1>0, <1>1, <2>0, <2>5, HandleStep DEF Handle
    <2>. QED
      BY <2>1, <2>2, <2>3, <2>4, <2>5 DEF CNext, Fails, Leaves
  <1>. QED
    BY <1>0, <1>1 DEF CInv

LEMMA Invariance == CSpec => []CInv
PROOF
  BY InitCInv, NextCInv, PTL DEF CSpec

(* Every variable has its type, and the channel never holds more than it   *)
(* can.                                                                    *)
THEOREM TypeCorrect == CSpec => []CTypeOK
PROOF
  <1>1. CInv => CTypeOK
    BY DEF CInv
  <1>. QED
    BY <1>1, Invariance, PTL

(* What the watcher has been told agrees with the list about every node    *)
(* that is not missed and of which no event is on its way.                 *)
THEOREM ViewAgreesHolds == CSpec => []ViewAgrees
PROOF
  <1>1. CInv => ViewAgrees
    <2> SUFFICES ASSUME CInv, NEW n \in Nodes \ missed,
                        \A i \in 1..Len(Pending) : Pending[i].node # n
                 PROVE  n \in told <=> n \in Members
      BY DEF ViewAgrees
    <2>1. /\ hand \in Seq(Events) /\ queue \in Seq(Events)
          /\ Len(hand) \in Nat /\ Len(queue) \in Nat
      BY DEF CInv, CTypeOK
    <2>2. /\ Len(Pending) = Len(hand) + Len(queue)
          /\ \A i \in 1..Len(hand) : Pending[i] = hand[i]
          /\ \A i \in 1..Len(queue) : Pending[Len(hand) + i] = queue[i]
      BY <2>1, ConcatProperties DEF Pending
    <2>3. \A i \in 1..Len(queue) : queue[i].node # n
      BY <2>1, <2>2
    <2>4. hand # <<>> => hand[1].node # n
      BY <2>1, <2>2
    <2>5. Agrees(n)
      BY DEF CInv
    <2>. QED
      BY <2>3, <2>4, <2>5 DEF Agrees, QueueSays, HandSays, ToldSays, Says, Moves
  <1>. QED
    BY <1>1, Invariance, PTL
=============================================================================
