-------------------------- MODULE ModelAdminProofs --------------------------
(***************************************************************************)
(* Proofs about the console's handlers, for any number of handlers,        *)
(* settings, requests, restarts and repairs.                               *)
(***************************************************************************)
EXTENDS ModelAdmin, TLAPS

(* The inductive invariant.  A record without a path has an endpoint, for  *)
(* good.                                                                   *)
Reachable(r) == r # None => r.local \/ r.config \in External
Here == {s \in Slots : inst[s] # None}
Deploying == {"replace", "deploy", "load"}

(* What the operation a handler serves says of where it is. *)
Plan(q) ==
  /\ q.pc \in {"save", "fix"} => q.op = "register"
  /\ q.pc = "write" => q.op \in {"update", "edit"} /\ q.goal = "deploying"
  /\ q.pc \in {"list", "stop"} =>
       /\ q.op \in {"update", "disable", "delete"}
       /\ q.op # "delete" => q.goal = (IF q.op = "disable" THEN "disabled" ELSE "deploying")
  /\ q.pc = "erase" => q.op = "delete"
  /\ q.pc \in {"get", "put"} =>
       /\ q.goal \in {"deploying", "online", "error", "disabled"}
       /\ q.goal = "disabled" <=> q.op = "disable"
       /\ q.goal = "deploying" => q.op \in {"update", "enable"}
       /\ q.op \in {"register", "update", "enable", "disable"}
  /\ q.pc \in Deploying =>
       /\ q.op \in {"register", "update", "enable"}
       /\ q.goal = "online" /\ q.cur.config \notin External
  /\ q.pc = "fix" => q.cur.config \notin External
  /\ q.op = "register" => q.cur.status = "deploying"
  /\ q.op = "update" /\ q.pc # "write" => q.cur.status # "disabled"
  /\ q.pc = "put" => q.seen # None
  /\ Reachable(q.cur) /\ Reachable(q.seen)

(* A request that has missed no write knows the record. *)
Knows(q) ==
  /\ q.pc = "save" <=> record = None
  /\ q.pc = "put" => q.seen = record
  /\ q.pc # "save" /\ q.op \in {"register", "update", "edit", "enable"} =>
       /\ (q.pc = "write" /\ q.op = "update") \/ record.config = q.cur.config
       /\ q.pc = "write" => record.status = q.cur.status
       /\ q.op \in {"register", "update"} /\ q.pc # "write" => record.status # "disabled"

(* A request that has met nobody is by itself. *)
Alone(h) ==
  /\ boot = "done" /\ heal = None /\ ~req[h].missed
  /\ \A k \in Handlers \ {h} : ~Busy(k)

(* How record and instances agree when nothing goes on; ... *)
Agree ==
  /\ record = None \/ record.status = "disabled" => Here = {}
  /\ Here = {} => record = None \/ record.status = "disabled" \/ record.config \in External
  /\ \A s \in Here : inst[s].config = record.config

(* ... on the way there; ... *)
OnlyWeb(q, states) ==
  /\ Here = {Web} /\ inst[Web].config = q.cur.config
  /\ inst[Web].state \in states
Holds(h) ==
  LET q == req[h] IN
  /\ q.pc \in {"save", "erase", "replace", "deploy"} => Here = {}
  /\ q.pc = "write" => (q.op = "update" /\ q.cur.status # "disabled") \/ Agree
  /\ q.pc = "stop" => Here \subseteq q.todo
  /\ q.pc \in {"get", "put"} =>
       IF q.goal \in {"online", "error"} /\ q.cur.config \notin External
       THEN OnlyWeb(q, IF q.goal = "online" THEN {"ready"} ELSE {"error"})
       ELSE Here = {}
  /\ q.pc = "load" => OnlyWeb(q, {"loading"}) /\ inst[Web].maker = h
  /\ q.pc = "fix" => OnlyWeb(q, {"error"})

(* ... and while the health loop or a restart is at work.                  *)
Settled ==
  /\ record = None \/ record.status = "disabled" =>
       Here = {} /\ heal = None /\ boot = "done"
  /\ Here = {} => \/ record = None \/ record.status = "disabled"
                  \/ record.config \in External
                  \/ boot = "deploy"
                  \/ (heal # None /\ heal.at \in {"stop", "deploy"})
  /\ \A s \in Here : inst[s].config = record.config
  /\ heal # None => heal.config = record.config

Booting == boot # "done" => record # None /\ \A h \in Handlers : ~Busy(h)

ReqOK(h) ==
  Busy(h) => /\ Plan(req[h])
             /\ ~req[h].missed => Knows(req[h])
             /\ req[h].alone => Alone(h)
             /\ req[h].alone /\ (~mixed \/ Sweeps(req[h])) => Holds(h)
             /\ ~mixed => req[h].alone

IInv ==
  /\ TypeOK
  /\ Booting
  /\ Reachable(record)
  /\ \A h \in Handlers : ReqOK(h)
  /\ ~mixed /\ (\A h \in Handlers : ~Busy(h)) => Settled
-----------------------------------------------------------------------------
(* One step of a handler moves no other, which at most misses a write. *)
Rest(h) ==
  /\ req' = [k \in Handlers |-> req'[k]]
  /\ \/ record' = record /\ \A k \in Handlers \ {h} : req'[k] = req[k]
     \/ \A k \in Handlers \ {h} : req'[k] = Missing(h)[k]

LEMMA NoneIsNoRequest == ASSUME NEW q \in Reqs PROVE q # None
  BY AdminAssumption

LEMMA MissingFields ==
  ASSUME NEW q \in Reqs, NEW r, r = [q EXCEPT !.missed = TRUE]
  PROVE  /\ r \in Reqs /\ r.missed
         /\ r.op = q.op /\ r.pc = q.pc /\ r.goal = q.goal /\ r.cur = q.cur
         /\ r.seen = q.seen /\ r.todo = q.todo /\ r.alone = q.alone
  BY DEF Reqs

LEMMA RestType ==
  ASSUME TypeOK, NEW h \in Handlers, Rest(h), NEW k \in Handlers \ {h}
  PROVE  /\ req'[k] \in Reqs \cup {None}
         /\ Busy(k)' <=> Busy(k)
PROOF
  <1>1. CASE req'[k] = req[k]
    BY <1>1 DEF TypeOK, Busy
  <1>2. CASE req'[k] = Missing(h)[k] /\ Busy(k)
    <2>1. req[k] \in Reqs /\ req'[k] = [req[k] EXCEPT !.missed = TRUE]
      BY <1>2 DEF TypeOK, Busy, Missing
    <2>. QED
      BY <1>2, <2>1, MissingFields, NoneIsNoRequest DEF Busy
  <1>3. CASE req'[k] = Missing(h)[k] /\ ~Busy(k)
    BY <1>3 DEF TypeOK, Busy, Missing
  <1>. QED
    BY <1>1, <1>2, <1>3 DEF Rest

LEMMA OthersKeep ==
  ASSUME IInv, NEW h \in Handlers, Busy(h), Rest(h), NEW k \in Handlers \ {h},
         mixed' = mixed \/ (mixed' \in BOOLEAN /\ Answered(h))
  PROVE  ReqOK(k)'
PROOF
  <1> SUFFICES ASSUME Busy(k)'
               PROVE  ReqOK(k)'
    BY DEF ReqOK
  <1>1. TypeOK /\ Busy(k) /\ ReqOK(k) /\ ReqOK(h)
    BY RestType DEF IInv
  <1>2. req[k] \in Reqs /\ req[h] \in Reqs
    BY <1>1 DEF TypeOK, Busy
  <1>3. ~req[k].alone /\ ~req[h].alone
    BY <1>1 DEF ReqOK, Alone
  <1>4. mixed'
    BY <1>1, <1>3 DEF ReqOK, Answered
  <1>5. CASE req'[k] = req[k] /\ record' = record
    BY <1>1, <1>3, <1>4, <1>5 DEF ReqOK, Plan, Knows, Reachable
  <1>6. CASE req'[k] = Missing(h)[k]
    <2>1. req'[k] = [req[k] EXCEPT !.missed = TRUE]
      BY <1>1, <1>6 DEF Missing
    <2>2. /\ req'[k].missed /\ req'[k].alone = req[k].alone
          /\ Plan(req[k]) => Plan(req'[k])
      BY <1>2, <2>1, MissingFields DEF Plan, Deploying, Reachable
    <2>. QED
      BY <1>1, <1>3, <1>4, <2>2 DEF ReqOK, Plan, Reachable
  <1>. QED
    BY <1>5, <1>6 DEF Rest

(* A handler goes on: what has to be shown. *)
Pcs == {"save", "write", "get", "put", "list", "stop", "erase", "replace",
        "deploy", "load", "fix"}

Held(r, q, p, g, s, t) ==
  /\ r \in Reqs
  /\ r.pc = p /\ r.goal = g /\ r.seen = s /\ r.todo = t
  /\ r.op = q.op /\ r.cur = q.cur /\ r.alone = q.alone /\ r.missed = q.missed

LEMMA Updates ==
  ASSUME NEW q \in Reqs, NEW p \in Pcs, NEW g \in Statuses, NEW s \in Records \cup {None},
         NEW t \in SUBSET Slots, NEW r
  PROVE  /\ r = [q EXCEPT !.pc = p] => Held(r, q, p, q.goal, q.seen, q.todo)
         /\ r = [q EXCEPT !.todo = t] => Held(r, q, q.pc, q.goal, q.seen, t)
         /\ r = [q EXCEPT !.pc = p, !.seen = s] => Held(r, q, p, q.goal, s, q.todo)
         /\ r = [q EXCEPT !.pc = p, !.todo = t] => Held(r, q, p, q.goal, q.seen, t)
         /\ r = [q EXCEPT !.pc = p, !.goal = g] => Held(r, q, p, g, q.seen, q.todo)
         /\ r = [q EXCEPT !.pc = p, !.goal = g, !.seen = s] => Held(r, q, p, g, s, q.todo)
PROOF
  <1>1. r = [q EXCEPT !.pc = p] => Held(r, q, p, q.goal, q.seen, q.todo)
    BY DEF Held, Reqs, Pcs
  <1>2. r = [q EXCEPT !.todo = t] => Held(r, q, q.pc, q.goal, q.seen, t)
    BY DEF Held, Reqs, Pcs
  <1>3. r = [q EXCEPT !.pc = p, !.seen = s] => Held(r, q, p, q.goal, s, q.todo)
    BY DEF Held, Reqs, Pcs
  <1>4. r = [q EXCEPT !.pc = p, !.todo = t] => Held(r, q, p, q.goal, q.seen, t)
    BY DEF Held, Reqs, Pcs
  <1>5. r = [q EXCEPT !.pc = p, !.goal = g] => Held(r, q, p, g, q.seen, q.todo)
    BY DEF Held, Reqs, Pcs
  <1>6. r = [q EXCEPT !.pc = p, !.goal = g, !.seen = s] => Held(r, q, p, g, s, q.todo)
    BY DEF Held, Reqs, Pcs
  <1>. QED
    BY <1>1, <1>2, <1>3, <1>4, <1>5, <1>6

LEMMA GoesOn ==
  ASSUME IInv, NEW h \in Handlers, Busy(h), Rest(h), UNCHANGED <<boot, heal, begun, upsets, mixed>>,
         req'[h] \in Reqs, req'[h].op = req[h].op, req'[h].cur = req[h].cur,
         req'[h].alone = req[h].alone, req'[h].missed = req[h].missed,
         inst' \in [Slots -> Instances \cup {None}], record' \in Records \cup {None},
         Reachable(record'),
         Plan(req[h]) => Plan(req[h])',
         ~req[h].missed /\ Plan(req[h]) /\ Knows(req[h]) => Knows(req[h])',
         req[h].alone /\ Alone(h) /\ Plan(req[h]) /\ Knows(req[h]) /\ Holds(h) => Holds(h)'
  PROVE  IInv'
PROOF
  <1>1. TypeOK /\ ReqOK(h) /\ Booting /\ req[h] \in Reqs
    BY DEF IInv, TypeOK, Busy
  <1>2. Busy(h)'
    BY NoneIsNoRequest DEF Busy
  <1>3. TypeOK'
    <2>1. req' \in [Handlers -> Reqs \cup {None}]
      BY <1>1, <1>2, RestType DEF Rest
    <2>. QED
      BY <1>1, <2>1 DEF TypeOK
  <1>4. Booting' /\ boot = "done"
    BY <1>1 DEF Booting
  <1>5. \A k \in Handlers \ {h} : ReqOK(k)'
    BY <1>1, OthersKeep DEF TypeOK
  <1>6. ReqOK(h)'
    <2>1. Sweeps(req'[h]) <=> Sweeps(req[h])
      BY <1>2 DEF Sweeps
    <2>2. req[h].alone => Alone(h)'
      BY <1>1, <1>2, <1>4, RestType DEF ReqOK, Alone
    <2>3. req[h].alone => ~req[h].missed
      BY <1>1 DEF ReqOK, Alone
    <2>. QED
      BY <1>1, <1>2, <2>1, <2>2, <2>3 DEF ReqOK
  <1>. QED
    BY <1>2, <1>3, <1>4, <1>5, <1>6 DEF IInv

(* A handler ends. *)
LEMMA GoesHome ==
  ASSUME IInv, NEW h \in Handlers, Busy(h), Rest(h), UNCHANGED <<boot, heal, begun, upsets, inst>>,
         mixed' \in BOOLEAN, Answered(h), req'[h] = None, record' \in Records \cup {None},
         Reachable(record'),
         req[h].alone /\ Alone(h) /\ Plan(req[h]) /\ Knows(req[h]) /\ Holds(h) => Agree'
  PROVE  IInv'
PROOF
  <1>1. TypeOK /\ ReqOK(h) /\ Booting
    BY DEF IInv
  <1>2. TypeOK'
    <2>1. req' \in [Handlers -> Reqs \cup {None}]
      BY <1>1, RestType DEF Rest
    <2>. QED
      BY <1>1, <2>1 DEF TypeOK
  <1>3. \A k \in Handlers : ReqOK(k)'
    <2>1. \A k \in Handlers \ {h} : ReqOK(k)'
      BY OthersKeep
    <2>. QED
      BY <2>1 DEF ReqOK, Busy
  <1>4. boot = "done" /\ Booting'
    BY <1>1 DEF Booting
  <1>5. ASSUME ~mixed'
        PROVE  Settled'
    <2>1. req[h].alone /\ (~mixed \/ Sweeps(req[h]))
      BY <1>1, <1>5 DEF ReqOK, Answered
    <2>2. Alone(h) /\ Plan(req[h]) /\ Knows(req[h]) /\ Holds(h)
      BY <1>1, <2>1 DEF ReqOK, Alone
    <2>. QED
      BY <1>4, <2>1, <2>2 DEF Agree, Settled, Alone, Here
  <1>. QED
    BY <1>2, <1>3, <1>4, <1>5 DEF IInv

LEMMA FieldTypes ==
  ASSUME NEW q \in Reqs
  PROVE  /\ q.pc \in Pcs /\ q.goal \in Statuses /\ q.seen \in Records \cup {None}
         /\ q.todo \in SUBSET Slots /\ q.cur \in Records
  BY DEF Reqs, Pcs

LEMMA Moves ==
  ASSUME TypeOK, NEW h \in Handlers, NEW r, req' = [req EXCEPT ![h] = r], UNCHANGED record
  PROVE  req'[h] = r /\ Rest(h)
  BY DEF TypeOK, Rest

LEMMA GetInv ==
  ASSUME IInv, NEW h \in Handlers, Get(h)
  PROVE  IInv'
PROOF
  <1> DEFINE q == req[h]
  <1>0. /\ TypeOK /\ Busy(h) /\ q \in Reqs /\ q.pc = "get" /\ record \in Records
        /\ Reachable(record) /\ UNCHANGED <<record, inst, boot, heal, begun, upsets, mixed>>
    BY DEF IInv, TypeOK, Get, At, Busy, others
  <1>1. req' = [req EXCEPT ![h] = [q EXCEPT !.pc = "put", !.seen = record]]
    BY <1>0 DEF Get
  <1>2. req'[h] = [q EXCEPT !.pc = "put", !.seen = record] /\ Rest(h)
    BY <1>0, <1>1, Moves
  <1>3. Held(req'[h], q, "put", q.goal, record, q.todo)
    <2>1. /\ "put" \in Pcs /\ q.goal \in Statuses
          /\ record \in Records \cup {None} /\ q.todo \in SUBSET Slots
      BY <1>0, FieldTypes DEF Pcs
    <2>. QED
      BY <1>0, <1>2, <2>1, Updates
  <1>4. /\ req'[h].pc = "put" /\ req'[h].goal = q.goal /\ req'[h].seen = record
        /\ req'[h].todo = q.todo
        /\ req'[h].op = q.op /\ req'[h].cur = q.cur /\ req'[h].alone = q.alone
        /\ req'[h].missed = q.missed /\ req'[h] \in Reqs
    BY <1>3 DEF Held
  <1>5. Plan(q) => Plan(req[h])'
    BY <1>0, <1>4, AdminAssumption DEF Plan, Deploying, Reachable
  <1>6. Knows(q) => Knows(req[h])'
    BY <1>0, <1>4 DEF Knows
  <1>7. Holds(h) => Holds(h)'
    BY <1>0, <1>4 DEF Holds, Here, OnlyWeb
  <1>9. inst' \in [Slots -> Instances \cup {None}] /\ record' \in Records \cup {None}
    BY <1>0 DEF TypeOK
  <1>. QED
    BY <1>0, <1>2, <1>4, <1>5, <1>6, <1>7, <1>9, GoesOn

LEMMA ListInv ==
  ASSUME IInv, NEW h \in Handlers, List(h)
  PROVE  IInv'
PROOF
  <1> DEFINE q == req[h]
  <1>0. /\ TypeOK /\ Busy(h) /\ q \in Reqs /\ q.pc = "list"
        /\ Reachable(record) /\ UNCHANGED <<record, inst, boot, heal, begun, upsets, mixed>>
    BY DEF IInv, TypeOK, List, At, Busy, others
  <1>1. req' = [req EXCEPT ![h] = [q EXCEPT !.pc = "stop", !.todo = Listed]]
    BY <1>0 DEF List
  <1>2. req'[h] = [q EXCEPT !.pc = "stop", !.todo = Listed] /\ Rest(h)
    BY <1>0, <1>1, Moves
  <1>3. Held(req'[h], q, "stop", q.goal, q.seen, Listed)
    <2>1. /\ "stop" \in Pcs /\ q.goal \in Statuses
          /\ q.seen \in Records \cup {None} /\ Listed \in SUBSET Slots
      BY <1>0, FieldTypes DEF Pcs, Listed
    <2>. QED
      BY <1>0, <1>2, <2>1, Updates
  <1>4. /\ req'[h].pc = "stop" /\ req'[h].goal = q.goal /\ req'[h].seen = q.seen
        /\ req'[h].todo = Listed
        /\ req'[h].op = q.op /\ req'[h].cur = q.cur /\ req'[h].alone = q.alone
        /\ req'[h].missed = q.missed /\ req'[h] \in Reqs
    BY <1>3 DEF Held
  <1>5. Plan(q) => Plan(req[h])'
    BY <1>0, <1>4 DEF Plan, Deploying, Reachable
  <1>6. Knows(q) => Knows(req[h])'
    BY <1>0, <1>4 DEF Knows
  <1>7. Holds(h) => Holds(h)'
    BY <1>0, <1>4 DEF Holds, Here, OnlyWeb, Listed
  <1>9. inst' \in [Slots -> Instances \cup {None}] /\ record' \in Records \cup {None}
    BY <1>0 DEF TypeOK
  <1>. QED
    BY <1>0, <1>2, <1>4, <1>5, <1>6, <1>7, <1>9, GoesOn

LEMMA StopInv ==
  ASSUME IInv, NEW h \in Handlers, Stop(h)
  PROVE  IInv'
PROOF
  <1> DEFINE q == req[h]
  <1>0. /\ TypeOK /\ Busy(h) /\ q \in Reqs /\ q.pc = "stop"
        /\ Reachable(record) /\ UNCHANGED <<record, boot, heal, begun, upsets, mixed>>
    BY DEF IInv, TypeOK, Stop, At, Busy, others
  <1>1. PICK s \in q.todo : /\ inst' = [inst EXCEPT ![s] = None]
                            /\ req' = [req EXCEPT ![h] = [q EXCEPT !.todo = q.todo \ {s}]]
    BY DEF Stop
  <1>2. req'[h] = [q EXCEPT !.todo = q.todo \ {s}] /\ Rest(h)
    BY <1>0, <1>1, Moves
  <1>3. Held(req'[h], q, q.pc, q.goal, q.seen, q.todo \ {s})
    <2>1. /\ q.pc \in Pcs /\ q.goal \in Statuses
          /\ q.seen \in Records \cup {None} /\ q.todo \ {s} \in SUBSET Slots
      BY <1>0, FieldTypes DEF Pcs
    <2>. QED
      BY <1>0, <1>2, <2>1, Updates
  <1>4. /\ req'[h].pc = q.pc /\ req'[h].goal = q.goal /\ req'[h].seen = q.seen
        /\ req'[h].todo = q.todo \ {s}
        /\ req'[h].op = q.op /\ req'[h].cur = q.cur /\ req'[h].alone = q.alone
        /\ req'[h].missed = q.missed /\ req'[h] \in Reqs
    BY <1>3 DEF Held
  <1>5. Plan(q) => Plan(req[h])'
    BY <1>0, <1>4 DEF Plan, Deploying, Reachable
  <1>6. Knows(q) => Knows(req[h])'
    BY <1>0, <1>4 DEF Knows
  <1>7. inst' \in [Slots -> Instances \cup {None}] /\ Here' = Here \ {s}
    BY <1>0, <1>1 DEF TypeOK, Here, Reqs
  <1>8. Holds(h) => Holds(h)'
    BY <1>0, <1>4, <1>7 DEF Holds
  <1>9. inst' \in [Slots -> Instances \cup {None}] /\ record' \in Records \cup {None}
    BY <1>0, <1>7 DEF TypeOK
  <1>. QED
    BY <1>0, <1>2, <1>4, <1>5, <1>6, <1>8, <1>9, GoesOn

LEMMA StoppedInv ==
  ASSUME IInv, NEW h \in Handlers, Stopped(h)
  PROVE  IInv'
PROOF
  <1> DEFINE q == req[h]
             p == IF q.op = "delete" THEN "erase" ELSE "get"
  <1>0. /\ TypeOK /\ Busy(h) /\ q \in Reqs /\ q.pc = "stop" /\ q.todo = {}
        /\ Reachable(record) /\ UNCHANGED <<record, inst, boot, heal, begun, upsets, mixed>>
    BY DEF IInv, TypeOK, Stopped, At, Busy, others
  <1>1. req' = [req EXCEPT ![h] = [q EXCEPT !.pc = p]]
    BY <1>0 DEF Stopped, Goto
  <1>2. req'[h] = [q EXCEPT !.pc = p] /\ Rest(h)
    BY <1>0, <1>1, Moves
  <1>3. Held(req'[h], q, p, q.goal, q.seen, q.todo)
    <2>1. /\ p \in Pcs /\ q.goal \in Statuses
          /\ q.seen \in Records \cup {None} /\ q.todo \in SUBSET Slots
      BY <1>0, FieldTypes DEF Pcs
    <2>. QED
      BY <1>0, <1>2, <2>1, Updates
  <1>4. /\ req'[h].pc = p /\ req'[h].goal = q.goal /\ req'[h].seen = q.seen
        /\ req'[h].todo = q.todo
        /\ req'[h].op = q.op /\ req'[h].cur = q.cur /\ req'[h].alone = q.alone
        /\ req'[h].missed = q.missed /\ req'[h] \in Reqs
    BY <1>3 DEF Held
  <1>5. Plan(q) => Plan(req[h])'
    BY <1>0, <1>4 DEF Plan, Deploying, Reachable
  <1>6. Knows(q) => Knows(req[h])'
    BY <1>0, <1>4 DEF Knows
  <1>7. Plan(q) /\ Holds(h) => Holds(h)'
    BY <1>0, <1>4 DEF Holds, Here, OnlyWeb, Plan
  <1>9. inst' \in [Slots -> Instances \cup {None}] /\ record' \in Records \cup {None}
    BY <1>0 DEF TypeOK
  <1>. QED
    BY <1>0, <1>2, <1>4, <1>5, <1>6, <1>7, <1>9, GoesOn

LEMMA ReplaceInv ==
  ASSUME IInv, NEW h \in Handlers, Replace(h)
  PROVE  IInv'
PROOF
  <1> DEFINE q == req[h]
  <1>0. /\ TypeOK /\ Busy(h) /\ q \in Reqs /\ q.pc = "replace"
        /\ inst' = [inst EXCEPT ![Web] = None]
        /\ Reachable(record) /\ UNCHANGED <<record, boot, heal, begun, upsets, mixed>>
    BY DEF IInv, TypeOK, Replace, At, Busy, others
  <1>1. req' = [req EXCEPT ![h] = [q EXCEPT !.pc = "deploy"]]
    BY <1>0 DEF Replace, Goto
  <1>2. req'[h] = [q EXCEPT !.pc = "deploy"] /\ Rest(h)
    BY <1>0, <1>1, Moves
  <1>3. Held(req'[h], q, "deploy", q.goal, q.seen, q.todo)
    <2>1. /\ "deploy" \in Pcs /\ q.goal \in Statuses
          /\ q.seen \in Records \cup {None} /\ q.todo \in SUBSET Slots
      BY <1>0, FieldTypes DEF Pcs
    <2>. QED
      BY <1>0, <1>2, <2>1, Updates
  <1>4. /\ req'[h].pc = "deploy" /\ req'[h].goal = q.goal /\ req'[h].seen = q.seen
        /\ req'[h].todo = q.todo
        /\ req'[h].op = q.op /\ req'[h].cur = q.cur /\ req'[h].alone = q.alone
        /\ req'[h].missed = q.missed /\ req'[h] \in Reqs
    BY <1>3 DEF Held
  <1>5. Plan(q) => Plan(req[h])'
    BY <1>0, <1>4 DEF Plan, Deploying, Reachable
  <1>6. Knows(q) => Knows(req[h])'
    BY <1>0, <1>4 DEF Knows
  <1>7. inst' \in [Slots -> Instances \cup {None}] /\ (Here = {} => Here' = {})
    BY <1>0, <1>1 DEF TypeOK, Here
  <1>8. Holds(h) => Holds(h)'
    BY <1>0, <1>4, <1>7 DEF Holds
  <1>9. inst' \in [Slots -> Instances \cup {None}] /\ record' \in Records \cup {None}
    BY <1>0, <1>7 DEF TypeOK
  <1>. QED
    BY <1>0, <1>2, <1>4, <1>5, <1>6, <1>8, <1>9, GoesOn

(* What a load that ends shows of it, and leaves alone. *)
LEMMA ShowFields ==
  ASSUME TypeOK, NEW s \in Slots, NEW m, NEW how \in {"ready", "error"}, Show(s, m, how)
  PROVE  /\ inst' \in [Slots -> Instances \cup {None}]
         /\ \A t \in Slots : inst'[t] = None <=> inst[t] = None
         /\ \A t \in Slots : inst[t] # None => inst'[t].config = inst[t].config
         /\ inst[s] # None /\ inst[s].maker = m /\ inst[s].state = "loading"
              => inst'[s].state = how
         /\ Here' = Here
PROOF
  <1>1. CASE inst' = inst /\ ~(inst[s] # None /\ inst[s].maker = m /\ inst[s].state = "loading")
    BY <1>1 DEF TypeOK, Here
  <1>2. CASE inst[s] # None /\ inst' = [inst EXCEPT ![s].state = how]
    <2>1. inst[s] \in Instances /\ how \in States
      BY <1>2 DEF TypeOK, States
    <2>2. inst'[s] = [inst[s] EXCEPT !.state = how] /\ \A t \in Slots \ {s} : inst'[t] = inst[t]
      BY <1>2 DEF TypeOK
    <2>3. inst'[s] \in Instances /\ inst'[s].config = inst[s].config /\ inst'[s].state = how
      BY <2>1, <2>2 DEF Instances
    <2>4. inst'[s] # None
      BY <2>3, AdminAssumption
    <2>5. inst' \in [Slots -> Instances \cup {None}]
      BY <1>2, <2>2, <2>3 DEF TypeOK
    <2>. QED
      BY <1>2, <2>2, <2>3, <2>4, <2>5 DEF Here
  <1>. QED
    BY <1>1, <1>2 DEF Show

LEMMA FailedStep ==
  ASSUME TypeOK, NEW h \in Handlers, Busy(h), UNCHANGED record, Failed(h)
  PROVE  /\ Rest(h)
         /\ req[h].op = "register" =>
              Held(req'[h], req[h], "fix", req[h].goal, req[h].seen, req[h].todo)
         /\ req[h].op # "register" =>
              Held(req'[h], req[h], "get", "error", req[h].seen, req[h].todo)
PROOF
  <1>0. req[h] \in Reqs
    BY DEF TypeOK, Busy
  <1>1. CASE req[h].op = "register"
    <2>1. req' = [req EXCEPT ![h] = [req[h] EXCEPT !.pc = "fix"]]
      BY <1>1 DEF Failed, Goto
    <2>2. req'[h] = [req[h] EXCEPT !.pc = "fix"] /\ Rest(h)
      BY <2>1, Moves
    <2>. QED
      BY <1>0, <1>1, <2>2, FieldTypes, Updates DEF Pcs
  <1>2. CASE req[h].op # "register"
    <2>1. req' = [req EXCEPT ![h] = [req[h] EXCEPT !.pc = "get", !.goal = "error"]]
      BY <1>2 DEF Failed, Mark, Outcome
    <2>2. req'[h] = [req[h] EXCEPT !.pc = "get", !.goal = "error"] /\ Rest(h)
      BY <2>1, Moves
    <2>. QED
      BY <1>0, <1>2, <2>2, FieldTypes, Updates DEF Pcs, Statuses
  <1>. QED
    BY <1>1, <1>2

LEMMA FailedPlan ==
  ASSUME NEW h \in Handlers, Plan(req[h]), Knows(req[h]) \/ req[h].missed,
         req[h].pc \in {"deploy", "load"}, UNCHANGED record,
         NEW p \in {"fix", "get"}, NEW g, Held(req'[h], req[h], p, g, req[h].seen, req[h].todo),
         p = "fix" => req[h].op = "register",
         p = "get" => req[h].op # "register" /\ g = "error"
  PROVE  Plan(req[h])' /\ (~req[h].missed => Knows(req[h])')
  BY DEF Plan, Knows, Held, Deploying, Reachable

LEMMA DeployInv ==
  ASSUME IInv, NEW h \in Handlers, Deploy(h)
  PROVE  IInv'
PROOF
  <1> DEFINE q == req[h]
  <1>0. /\ TypeOK /\ Busy(h) /\ q \in Reqs /\ q.pc = "deploy" /\ Reachable(record)
        /\ UNCHANGED <<record, boot, heal, begun, upsets, mixed>> /\ ReqOK(h)
    BY DEF IInv, TypeOK, Deploy, At, Busy
  <1>1. CASE inst[Web] = None /\ inst' = [inst EXCEPT ![Web] = Loading(q.cur.config, h)]
             /\ Goto(h, "load")
    <2>1. req' = [req EXCEPT ![h] = [q EXCEPT !.pc = "load"]]
      BY <1>1 DEF Goto
    <2>2. req'[h] = [q EXCEPT !.pc = "load"] /\ Rest(h)
      BY <1>0, <2>1, Moves
    <2>3. Held(req'[h], q, "load", q.goal, q.seen, q.todo)
      BY <1>0, <2>2, FieldTypes, Updates DEF Pcs
    <2>4. /\ req'[h] \in Reqs /\ req'[h].pc = "load" /\ req'[h].goal = q.goal
          /\ req'[h].op = q.op /\ req'[h].cur = q.cur /\ req'[h].seen = q.seen
          /\ req'[h].alone = q.alone /\ req'[h].missed = q.missed
      BY <2>3 DEF Held
    <2>5. Loading(q.cur.config, h) \in Instances
      <3>1. q.cur.config \in Configs
        BY <1>0, FieldTypes DEF Records
      <3>. QED
        BY <3>1 DEF Loading, Instances, States
    <2>6. /\ inst' \in [Slots -> Instances \cup {None}]
          /\ inst'[Web] = Loading(q.cur.config, h) /\ inst'[Web] # None
          /\ Here' = Here \cup {Web}
      BY <1>0, <1>1, <2>5, AdminAssumption DEF TypeOK, Here, Slots
    <2>7. Plan(q) => Plan(req[h])'
      BY <1>0, <2>4 DEF Plan, Deploying, Reachable
    <2>8. Knows(q) => Knows(req[h])'
      BY <1>0, <2>4 DEF Knows
    <2>9. Holds(h) => Holds(h)'
      BY <1>0, <2>4, <2>6 DEF Holds, OnlyWeb, Loading
    <2>10. record' \in Records \cup {None}
      BY <1>0 DEF TypeOK
    <2>. QED
      BY <1>0, <2>2, <2>4, <2>6, <2>7, <2>8, <2>9, <2>10, GoesOn
  <1>2. CASE inst[Web] # None /\ Failed(h) /\ UNCHANGED inst
    <2>1. Rest(h) /\ \E p \in {"fix", "get"}, g \in Statuses :
            /\ Held(req'[h], q, p, g, q.seen, q.todo)
            /\ p = "fix" => q.op = "register"
            /\ p = "get" => q.op # "register" /\ g = "error"
      BY <1>0, <1>2, FailedStep, FieldTypes DEF Statuses
    <2>2. /\ req'[h] \in Reqs /\ req'[h].op = q.op /\ req'[h].cur = q.cur
          /\ req'[h].alone = q.alone /\ req'[h].missed = q.missed
      BY <2>1 DEF Held
    <2>3. Plan(q) /\ (~q.missed => Knows(q)) /\ Plan(req[h])' /\ (~q.missed => Knows(req[h])')
      BY <1>0, <2>1, FailedPlan DEF ReqOK
    <2>4. ~Holds(h)
      BY <1>0, <1>2 DEF Holds, Here, Slots
    <2>5. /\ inst' \in [Slots -> Instances \cup {None}] /\ record' \in Records \cup {None}
      BY <1>0, <1>2 DEF TypeOK
    <2>. QED
      BY <1>0, <2>1, <2>2, <2>3, <2>4, <2>5, GoesOn
  <1>. QED
    BY <1>1, <1>2 DEF Deploy

LEMMA LoadsInv ==
  ASSUME IInv, NEW h \in Handlers, Loads(h)
  PROVE  IInv'
PROOF
  <1> DEFINE q == req[h]
  <1>0. /\ TypeOK /\ Busy(h) /\ q \in Reqs /\ q.pc = "load" /\ Reachable(record)
        /\ UNCHANGED <<record, boot, heal, begun, upsets, mixed>> /\ ReqOK(h)
    BY DEF IInv, TypeOK, Loads, At, Busy
  <1>1. record' \in Records \cup {None} /\ Web \in Slots
    BY <1>0 DEF TypeOK, Slots
  <1>2. CASE Show(Web, h, "ready") /\ Mark(h, Outcome(TRUE))
    <2>1. req' = [req EXCEPT ![h] = [q EXCEPT !.pc = "get", !.goal = "online"]]
      BY <1>2 DEF Mark, Outcome
    <2>2. req'[h] = [q EXCEPT !.pc = "get", !.goal = "online"] /\ Rest(h)
      BY <1>0, <2>1, Moves
    <2>3. Held(req'[h], q, "get", "online", q.seen, q.todo)
      BY <1>0, <2>2, FieldTypes, Updates DEF Pcs, Statuses
    <2>4. /\ req'[h] \in Reqs /\ req'[h].pc = "get" /\ req'[h].goal = "online"
          /\ req'[h].op = q.op /\ req'[h].cur = q.cur /\ req'[h].seen = q.seen
          /\ req'[h].alone = q.alone /\ req'[h].missed = q.missed
      BY <2>3 DEF Held
    <2>5. Plan(q) => Plan(req[h])'
      BY <1>0, <2>4 DEF Plan, Deploying, Reachable
    <2>6. Knows(q) => Knows(req[h])'
      BY <1>0, <2>4 DEF Knows
    <2>7. inst' \in [Slots -> Instances \cup {None}]
      BY <1>0, <1>1, <1>2, ShowFields
    <2>8. Plan(q) /\ Holds(h) => Holds(h)'
      <3>. SUFFICES ASSUME Plan(q), Holds(h)
                    PROVE  Holds(h)'
        OBVIOUS
      <3>1. /\ Here = {Web} /\ inst[Web].config = q.cur.config /\ inst[Web].maker = h
            /\ inst[Web].state = "loading" /\ inst[Web] # None
        BY <1>0 DEF Holds, OnlyWeb, Here
      <3>2. /\ Here' = {Web} /\ inst'[Web].config = q.cur.config
            /\ inst'[Web].state = "ready"
        BY <1>0, <1>1, <1>2, <3>1, ShowFields
      <3>3. q.cur.config \notin External
        BY <1>0 DEF Plan, Deploying
      <3>. QED
        BY <2>4, <3>2, <3>3 DEF Holds, OnlyWeb
    <2>. QED
      BY <1>0, <1>1, <2>2, <2>4, <2>5, <2>6, <2>7, <2>8, GoesOn
  <1>3. CASE Show(Web, h, "error") /\ Failed(h)
    <2>1. Rest(h) /\ \E p \in {"fix", "get"}, g \in Statuses :
            /\ Held(req'[h], q, p, g, q.seen, q.todo)
            /\ p = "fix" => q.op = "register"
            /\ p = "get" => q.op # "register" /\ g = "error"
      BY <1>0, <1>3, FailedStep, FieldTypes DEF Statuses
    <2>2. /\ req'[h] \in Reqs /\ req'[h].op = q.op /\ req'[h].cur = q.cur
          /\ req'[h].alone = q.alone /\ req'[h].missed = q.missed
          /\ req'[h].pc = "fix" \/ (req'[h].pc = "get" /\ req'[h].goal = "error")
      BY <2>1 DEF Held
    <2>3. Plan(q) /\ (~q.missed => Knows(q)) /\ Plan(req[h])' /\ (~q.missed => Knows(req[h])')
      BY <1>0, <2>1, FailedPlan DEF ReqOK
    <2>4. inst' \in [Slots -> Instances \cup {None}]
      BY <1>0, <1>1, <1>3, ShowFields
    <2>5. Holds(h) => Holds(h)'
      <3>. SUFFICES ASSUME Holds(h)
                    PROVE  Holds(h)'
        OBVIOUS
      <3>1. /\ Here = {Web} /\ inst[Web].config = q.cur.config /\ inst[Web].maker = h
            /\ inst[Web].state = "loading" /\ inst[Web] # None
        BY <1>0 DEF Holds, OnlyWeb, Here
      <3>2. /\ Here' = {Web} /\ inst'[Web].config = q.cur.config
            /\ inst'[Web].state = "error"
        BY <1>0, <1>1, <1>3, <3>1, ShowFields
      <3>3. q.cur.config \notin External
        BY <1>0, <2>3 DEF Plan, Deploying
      <3>. QED
        BY <2>2, <3>2, <3>3 DEF Holds, OnlyWeb
    <2>. QED
      BY <1>0, <1>1, <2>1, <2>2, <2>3, <2>4, <2>5, GoesOn
  <1>. QED
    BY <1>2, <1>3 DEF Loads

(* Steps that write the record. *)
LEMMA Writes ==
  ASSUME TypeOK, NEW h \in Handlers, NEW r, req' = [Missing(h) EXCEPT ![h] = r]
  PROVE  req'[h] = r /\ Rest(h) /\ Missing(h)[h] = req[h]
PROOF
  <1>1. Missing(h) = [k \in Handlers |-> Missing(h)[k]] /\ Missing(h)[h] = req[h]
    BY DEF Missing
  <1>. QED
    BY <1>1 DEF Rest

LEMMA MissingSelf == ASSUME NEW h \in Handlers PROVE Missing(h)[h] = req[h]
  BY DEF Missing

LEMMA WriteAndAnswerHome ==
  ASSUME IInv, NEW h \in Handlers, Busy(h), NEW r \in Records \cup {None}, WriteAndAnswer(h, r),
         UNCHANGED others, Reachable(r),
         req[h].alone /\ Alone(h) /\ Plan(req[h]) /\ Knows(req[h]) /\ Holds(h) => Agree'
  PROVE  IInv'
PROOF
  <1>1. TypeOK /\ record' = r /\ Answered(h) /\ req' = [Missing(h) EXCEPT ![h] = None]
    BY DEF IInv, WriteAndAnswer
  <1>2. req'[h] = None /\ Rest(h) /\ mixed' \in BOOLEAN
    BY <1>1, Writes DEF Answered
  <1>. QED
    BY <1>1, <1>2, GoesHome DEF others

LEMMA SaveInv ==
  ASSUME IInv, NEW h \in Handlers, Save(h)
  PROVE  IInv'
PROOF
  <1> DEFINE q == req[h]
             p == NowDeploys(h)
  <1>0. /\ TypeOK /\ Busy(h) /\ q \in Reqs /\ q.pc = "save" /\ ReqOK(h)
        /\ UNCHANGED <<inst, boot, heal, begun, upsets, mixed>> /\ record' = q.cur
    BY DEF IInv, TypeOK, Save, At, Busy, others
  <1>1. req' = [Missing(h) EXCEPT ![h] = [q EXCEPT !.pc = p, !.goal = "online"]]
    BY MissingSelf DEF Save
  <1>2. req'[h] = [q EXCEPT !.pc = p, !.goal = "online"] /\ Rest(h)
    BY <1>0, <1>1, Writes
  <1>3. Held(req'[h], q, p, "online", q.seen, q.todo)
    <2>1. p \in Pcs /\ "online" \in Statuses
      BY DEF NowDeploys, Pcs, Statuses
    <2>. QED
      BY <1>0, <1>2, <2>1, FieldTypes, Updates
  <1>4. /\ req'[h].pc = p /\ req'[h].goal = "online" /\ req'[h].seen = q.seen
        /\ req'[h].op = q.op /\ req'[h].cur = q.cur /\ req'[h].alone = q.alone
        /\ req'[h].missed = q.missed /\ req'[h] \in Reqs
    BY <1>3 DEF Held
  <1>5. Plan(q) /\ q.op = "register" /\ q.cur \in Records /\ Reachable(q.cur)
        /\ q.cur.status = "deploying"
    BY <1>0, FieldTypes DEF ReqOK, Plan
  <1>6. p = (IF q.cur.config \in External THEN "get" ELSE "replace")
    BY DEF NowDeploys
  <1>7. Plan(req[h])'
    BY <1>4, <1>5, <1>6 DEF Plan, Deploying, Reachable
  <1>8. Knows(req[h])'
    BY <1>0, <1>4, <1>5, <1>6, AdminAssumption DEF Knows
  <1>9. Holds(h) => Holds(h)'
    BY <1>0, <1>4, <1>6 DEF Holds, Here, OnlyWeb
  <1>10. inst' \in [Slots -> Instances \cup {None}] /\ record' \in Records \cup {None}
         /\ Reachable(record')
    BY <1>0, <1>5 DEF TypeOK
  <1>. QED
    BY <1>0, <1>2, <1>4, <1>7, <1>8, <1>9, <1>10, GoesOn

LEMMA WriteInv ==
  ASSUME IInv, NEW h \in Handlers, Write(h)
  PROVE  IInv'
PROOF
  <1> DEFINE q == req[h]
  <1>0. /\ TypeOK /\ Busy(h) /\ q \in Reqs /\ q.pc = "write" /\ ReqOK(h) /\ Plan(q)
        /\ UNCHANGED others /\ q.cur \in Records /\ Reachable(q.cur)
    BY FieldTypes DEF IInv, TypeOK, Write, At, Busy, ReqOK, Plan
  <1>1. CASE q.op = "update" /\ Redeploys(q.cur)
    <2>1. /\ record' = q.cur /\ UNCHANGED mixed
          /\ req' = [Missing(h) EXCEPT ![h] = [q EXCEPT !.pc = "list"]]
      BY <1>1, MissingSelf DEF Write, WriteAndGoto
    <2>2. req'[h] = [q EXCEPT !.pc = "list"] /\ Rest(h)
      BY <1>0, <2>1, Writes
    <2>3. Held(req'[h], q, "list", q.goal, q.seen, q.todo)
      BY <1>0, <2>2, FieldTypes, Updates DEF Pcs
    <2>4. /\ req'[h].pc = "list" /\ req'[h].goal = q.goal /\ req'[h].seen = q.seen
          /\ req'[h].op = q.op /\ req'[h].cur = q.cur /\ req'[h].alone = q.alone
          /\ req'[h].missed = q.missed /\ req'[h] \in Reqs
      BY <2>3 DEF Held
    <2>5. Plan(req[h])'
      BY <1>0, <1>1, <2>4 DEF Plan, Deploying, Reachable, Redeploys
    <2>6. Knows(req[h])'
      BY <1>0, <1>1, <2>1, <2>4, AdminAssumption DEF Knows, Redeploys
    <2>7. Holds(h)'
      BY <2>4 DEF Holds
    <2>8. inst' \in [Slots -> Instances \cup {None}] /\ record' \in Records \cup {None}
          /\ Reachable(record')
      BY <1>0, <2>1 DEF TypeOK, others
    <2>. QED
      BY <1>0, <2>1, <2>2, <2>4, <2>5, <2>6, <2>7, <2>8, GoesOn DEF others
  <1>2. CASE ~(q.op = "update" /\ Redeploys(q.cur))
    <2>1. WriteAndAnswer(h, q.cur) /\ record' = q.cur
      BY <1>2 DEF Write, WriteAndAnswer
    <2>2. Knows(q) /\ Holds(h) => Agree'
      <3>. SUFFICES ASSUME Knows(q), Holds(h)
                    PROVE  Agree'
        OBVIOUS
      <3>1. Agree /\ record # None /\ record.status = q.cur.status
        BY <1>0, <1>2 DEF Knows, Holds, Plan, Redeploys
      <3>2. Here' = Here /\ \A s \in Here : inst'[s] = inst[s]
        BY <1>0 DEF Here, others
      <3>3. CASE q.op = "update"
        <4>1. record.status = "disabled"
          BY <1>2, <3>1, <3>3 DEF Redeploys
        <4>. QED
          BY <2>1, <3>1, <3>2, <4>1 DEF Agree
      <3>4. CASE q.op = "edit"
        <4>1. record.config = q.cur.config
          BY <1>0, <3>4 DEF Knows
        <4>. QED
          BY <1>0, <2>1, <3>1, <3>2, <4>1, AdminAssumption DEF Agree
      <3>. QED
        BY <1>0, <3>3, <3>4 DEF Plan
    <2>. QED
      BY <1>0, <2>1, <2>2, WriteAndAnswerHome
  <1>. QED
    BY <1>1, <1>2

LEMMA SeenFields ==
  ASSUME NEW r \in Records, NEW st \in Statuses
  PROVE  /\ [r EXCEPT !.status = st] \in Records
         /\ [r EXCEPT !.status = st].status = st
         /\ [r EXCEPT !.status = st].config = r.config
         /\ [r EXCEPT !.status = st].local = r.local
         /\ [r EXCEPT !.status = st] # None
PROOF
  <1>1. /\ [r EXCEPT !.status = st] \in Records
        /\ [r EXCEPT !.status = st].status = st
        /\ [r EXCEPT !.status = st].config = r.config
        /\ [r EXCEPT !.status = st].local = r.local
    BY DEF Records
  <1>. QED
    BY <1>1, AdminAssumption

LEMMA PutInv ==
  ASSUME IInv, NEW h \in Handlers, Put(h)
  PROVE  IInv'
PROOF
  <1> DEFINE q == req[h]
             p == NowDeploys(h)
             r == [q.seen EXCEPT !.status = q.goal]
  <1>0. /\ TypeOK /\ Busy(h) /\ q \in Reqs /\ q.pc = "put" /\ ReqOK(h) /\ Plan(q)
        /\ UNCHANGED others
    BY DEF IInv, TypeOK, Put, At, Busy, ReqOK
  <1>1. q.seen \in Records /\ q.goal \in Statuses /\ Reachable(q.seen) /\ q.cur \in Records
        /\ Reachable(q.cur)
    BY <1>0, FieldTypes DEF Plan
  <1>2. r \in Records /\ r.status = q.goal /\ r.config = q.seen.config /\ r # None
        /\ Reachable(r)
    BY <1>1, SeenFields, AdminAssumption DEF Reachable
  <1>3. CASE q.goal # "deploying"
    <2>1. WriteAndAnswer(h, r) /\ record' = r
      BY <1>3 DEF Put, WriteAndAnswer
    <2>2. Knows(q) /\ Holds(h) => Agree'
      <3>. SUFFICES ASSUME Knows(q), Holds(h)
                    PROVE  Agree'
        OBVIOUS
      <3>1. Here' = Here /\ \A s \in Here : inst'[s] = inst[s]
        BY <1>0 DEF Here, others
      <3>2. record.config = r.config
        BY <1>0, <1>2 DEF Knows
      <3>3. CASE q.goal = "disabled"
        <4>1. Here = {}
          BY <1>0, <3>3 DEF Holds
        <4>. QED
          BY <1>2, <2>1, <3>1, <3>3, <4>1 DEF Agree
      <3>4. CASE q.goal \in {"online", "error"}
        <4>1. r.config = q.cur.config
          BY <1>0, <3>2, <3>4 DEF Knows, Plan
        <4>2. CASE q.cur.config \in External
          <5>1. Here = {}
            BY <1>0, <4>2 DEF Holds
          <5>. QED
            BY <1>2, <2>1, <3>1, <4>1, <4>2, <5>1 DEF Agree
        <4>3. CASE q.cur.config \notin External
          <5>1. Here = {Web} /\ inst[Web].config = q.cur.config
            BY <1>0, <3>4, <4>3 DEF Holds, OnlyWeb
          <5>. QED
            BY <1>2, <2>1, <3>1, <3>4, <4>1, <5>1 DEF Agree
        <4>. QED
          BY <4>2, <4>3
      <3>. QED
        BY <1>0, <1>3, <3>3, <3>4 DEF Plan
    <2>. QED
      BY <1>0, <1>2, <2>1, <2>2, WriteAndAnswerHome
  <1>4. CASE q.goal = "deploying"
    <2>1. /\ record' = r /\ UNCHANGED mixed
          /\ req' = [Missing(h) EXCEPT ![h] =
                       [q EXCEPT !.pc = p, !.goal = "online", !.seen = None]]
      BY <1>4, MissingSelf DEF Put
    <2>2. req'[h] = [q EXCEPT !.pc = p, !.goal = "online", !.seen = None] /\ Rest(h)
      BY <1>0, <2>1, Writes
    <2>3. Held(req'[h], q, p, "online", None, q.todo)
      <3>1. p \in Pcs /\ "online" \in Statuses /\ None \in Records \cup {None}
        BY DEF NowDeploys, Pcs, Statuses
      <3>. QED
        BY <1>0, <2>2, <3>1, FieldTypes, Updates
    <2>4. /\ req'[h].pc = p /\ req'[h].goal = "online" /\ req'[h].seen = None
          /\ req'[h].op = q.op /\ req'[h].cur = q.cur /\ req'[h].alone = q.alone
          /\ req'[h].missed = q.missed /\ req'[h] \in Reqs
      BY <2>3 DEF Held
    <2>5. p = (IF q.cur.config \in External THEN "get" ELSE "replace")
      BY DEF NowDeploys
    <2>6. Plan(req[h])'
      BY <1>0, <1>1, <1>4, <2>4, <2>5 DEF Plan, Deploying, Reachable
    <2>7. Knows(q) => Knows(req[h])'
      BY <1>0, <1>2, <1>4, <2>1, <2>4, <2>5 DEF Knows, Plan
    <2>8. Holds(h) => Holds(h)'
      BY <1>0, <1>4, <2>4, <2>5 DEF Holds, Here, OnlyWeb, others
    <2>9. inst' \in [Slots -> Instances \cup {None}] /\ record' \in Records \cup {None}
          /\ Reachable(record')
      BY <1>0, <1>2, <2>1 DEF TypeOK, others
    <2>. QED
      BY <1>0, <2>1, <2>2, <2>4, <2>6, <2>7, <2>8, <2>9, GoesOn DEF others
  <1>. QED
    BY <1>3, <1>4

LEMMA NoRecordInv ==
  ASSUME IInv, NEW h \in Handlers, NoRecord(h)
  PROVE  IInv'
PROOF
  <1> DEFINE q == req[h]
             p == NowDeploys(h)
  <1>0. /\ TypeOK /\ Busy(h) /\ q \in Reqs /\ q.pc = "get" /\ record = None /\ ReqOK(h)
        /\ Plan(q) /\ UNCHANGED <<record, inst, boot, heal, begun, upsets>>
        /\ Reachable(record)
    BY DEF IInv, TypeOK, NoRecord, At, Busy, ReqOK, others
  <1>1. ~Knows(q)
    BY <1>0 DEF Knows
  <1>2. inst' \in [Slots -> Instances \cup {None}] /\ record' \in Records \cup {None}
        /\ Reachable(record')
    BY <1>0 DEF TypeOK
  <1>3. CASE q.goal # "deploying"
    <2>1. req' = [req EXCEPT ![h] = None] /\ Answered(h)
      BY <1>3 DEF NoRecord
    <2>2. req'[h] = None /\ Rest(h) /\ mixed' \in BOOLEAN
      BY <1>0, <2>1, Moves DEF Answered
    <2>. QED
      BY <1>0, <1>1, <1>2, <2>1, <2>2, GoesHome
  <1>4. CASE q.goal = "deploying"
    <2>1. UNCHANGED mixed /\ req' = [req EXCEPT ![h] = [q EXCEPT !.pc = p, !.goal = "online"]]
      BY <1>4 DEF NoRecord
    <2>2. req'[h] = [q EXCEPT !.pc = p, !.goal = "online"] /\ Rest(h)
      BY <1>0, <2>1, Moves
    <2>3. Held(req'[h], q, p, "online", q.seen, q.todo)
      <3>1. p \in Pcs /\ "online" \in Statuses
        BY DEF NowDeploys, Pcs, Statuses
      <3>. QED
        BY <1>0, <2>2, <3>1, FieldTypes, Updates
    <2>4. /\ req'[h].pc = p /\ req'[h].goal = "online" /\ req'[h].seen = q.seen
          /\ req'[h].op = q.op /\ req'[h].cur = q.cur /\ req'[h].alone = q.alone
          /\ req'[h].missed = q.missed /\ req'[h] \in Reqs
      BY <2>3 DEF Held
    <2>5. p = (IF q.cur.config \in External THEN "get" ELSE "replace")
      BY DEF NowDeploys
    <2>6. Plan(req[h])'
      BY <1>0, <1>4, <2>4, <2>5 DEF Plan, Deploying, Reachable
    <2>. QED
      BY <1>0, <1>1, <1>2, <2>1, <2>2, <2>4, <2>6, GoesOn
  <1>. QED
    BY <1>3, <1>4

LEMMA EraseInv ==
  ASSUME IInv, NEW h \in Handlers, Erase(h)
  PROVE  IInv'
PROOF
  <1>0. /\ Busy(h) /\ req[h].pc = "erase" /\ UNCHANGED others /\ WriteAndAnswer(h, None)
        /\ record' = None
    BY DEF Erase, At, WriteAndAnswer
  <1>1. Holds(h) => Agree'
    BY <1>0 DEF Holds, Agree, Here, others
  <1>. QED
    BY <1>0, <1>1, WriteAndAnswerHome DEF Reachable

LEMMA FixInv ==
  ASSUME IInv, NEW h \in Handlers, Fix(h)
  PROVE  IInv'
PROOF
  <1> DEFINE q == req[h]
             r == [q.cur EXCEPT !.status = "error"]
  <1>0. /\ TypeOK /\ Busy(h) /\ q \in Reqs /\ q.pc = "fix" /\ ReqOK(h) /\ Plan(q)
        /\ UNCHANGED others /\ WriteAndAnswer(h, r) /\ record' = r
    BY DEF IInv, TypeOK, Fix, At, Busy, ReqOK, WriteAndAnswer
  <1>1. q.cur \in Records /\ Reachable(q.cur) /\ "error" \in Statuses
    BY <1>0, FieldTypes DEF Plan, Statuses
  <1>2. r \in Records /\ r.status = "error" /\ r.config = q.cur.config /\ r # None
        /\ Reachable(r)
    BY <1>1, SeenFields, AdminAssumption DEF Reachable
  <1>3. Holds(h) => Agree'
    <2>1. Here' = Here /\ \A s \in Here : inst'[s] = inst[s]
      BY <1>0 DEF Here, others
    <2>2. Holds(h) => Here = {Web} /\ inst[Web].config = q.cur.config
      BY <1>0 DEF Holds, OnlyWeb
    <2>. QED
      BY <1>0, <1>2, <2>1, <2>2 DEF Agree
  <1>. QED
    BY <1>0, <1>2, <1>3, WriteAndAnswerHome

-----------------------------------------------------------------------------
(* A request arrives, or the health loop takes an instance: whoever is     *)
(* busy has met somebody.                                                  *)
LEMMA MetFields ==
  ASSUME NEW q \in Reqs, NEW r, r = [q EXCEPT !.alone = FALSE]
  PROVE  /\ r \in Reqs /\ ~r.alone
         /\ r.op = q.op /\ r.pc = q.pc /\ r.goal = q.goal /\ r.cur = q.cur
         /\ r.seen = q.seen /\ r.todo = q.todo /\ r.missed = q.missed
  BY DEF Reqs

LEMMA Met ==
  ASSUME IInv, NEW k \in Handlers, UNCHANGED record, Busy(k) => mixed',
         req'[k] = IF Busy(k) THEN [req[k] EXCEPT !.alone = FALSE] ELSE None
  PROVE  req'[k] \in Reqs \cup {None} /\ (Busy(k)' <=> Busy(k)) /\ ReqOK(k)'
PROOF
  <1>1. CASE Busy(k)
    <2>1. req[k] \in Reqs /\ ReqOK(k)
      BY <1>1 DEF IInv, TypeOK, Busy
    <2>2. /\ req'[k] \in Reqs /\ ~req'[k].alone /\ req'[k].missed = req[k].missed
          /\ Plan(req[k]) => Plan(req'[k])
          /\ Knows(req[k]) => Knows(req[k])'
      <3>1. /\ req'[k] \in Reqs /\ ~req'[k].alone /\ req'[k].op = req[k].op
            /\ req'[k].pc = req[k].pc /\ req'[k].goal = req[k].goal /\ req'[k].cur = req[k].cur
            /\ req'[k].seen = req[k].seen /\ req'[k].missed = req[k].missed
        BY <1>1, <2>1, MetFields
      <3>. QED
        BY <3>1 DEF Plan, Knows, Deploying, Reachable
    <2>3. Busy(k)'
      BY <2>2, NoneIsNoRequest DEF Busy
    <2>4. Plan(req[k])'
      BY <1>1, <2>1, <2>2 DEF ReqOK, Plan, Reachable
    <2>. QED
      BY <1>1, <2>1, <2>2, <2>3, <2>4 DEF ReqOK
  <1>2. CASE ~Busy(k)
    BY <1>2 DEF Busy, ReqOK
  <1>. QED
    BY <1>1, <1>2

Fresh(o, p, g, r) ==
  [op |-> o, pc |-> p, goal |-> g, cur |-> r, seen |-> None, todo |-> {},
   alone |-> Quiet, missed |-> FALSE]

LEMMA ArriveInv ==
  ASSUME IInv, NEW h \in Handlers, NEW o, NEW p, NEW g, NEW r, Arrive(h, o, p, g, r),
         Fresh(o, p, g, r) \in Reqs, Plan(Fresh(o, p, g, r)), Knows(Fresh(o, p, g, r)),
         req'[h] = Fresh(o, p, g, r) /\ (Agree \/ Sweeps(Fresh(o, p, g, r))) => Holds(h)'
  PROVE  IInv'
PROOF
  <1> DEFINE q == Fresh(o, p, g, r)
  <1>1. /\ TypeOK /\ Booting /\ boot = "done" /\ ~Busy(h)
        /\ UNCHANGED <<record, inst, heal, boot, upsets>>
        /\ begun \in Nat /\ begun < Begins /\ begun' = begun + 1
        /\ mixed' = (mixed \/ ~Quiet) /\ mixed \in BOOLEAN /\ Quiet \in BOOLEAN
    BY AdminAssumption DEF IInv, TypeOK, Arrive, Quiet
  <1>2. /\ req'[h] = q /\ req' = [k \in Handlers |-> req'[k]]
        /\ \A k \in Handlers \ {h} :
             req'[k] = IF Busy(k) THEN [req[k] EXCEPT !.alone = FALSE] ELSE None
    BY DEF Arrive, Fresh
  <1>3. q.alone = Quiet /\ ~q.missed
    BY DEF Fresh
  <1>4. \A k \in Handlers \ {h} :
          req'[k] \in Reqs \cup {None} /\ (Busy(k)' <=> Busy(k)) /\ ReqOK(k)'
    <2> SUFFICES ASSUME NEW k \in Handlers \ {h}
                 PROVE  req'[k] \in Reqs \cup {None} /\ (Busy(k)' <=> Busy(k)) /\ ReqOK(k)'
      OBVIOUS
    <2>1. Busy(k) => mixed'
      BY <1>1 DEF Quiet
    <2>. QED
      BY <1>1, <1>2, <2>1, Met
  <1>5. Busy(h)'
    BY <1>2, NoneIsNoRequest DEF Busy
  <1>6. TypeOK'
    <2>1. req' \in [Handlers -> Reqs \cup {None}]
      BY <1>2, <1>4
    <2>2. begun' \in 0 .. Begins /\ mixed' \in BOOLEAN
      BY <1>1, AdminAssumption
    <2>. QED
      BY <1>1, <2>1, <2>2 DEF TypeOK
  <1>7. ReqOK(h)'
    <2>1. Plan(req[h])' /\ Knows(req[h])'
      BY <1>1, <1>2 DEF Plan, Knows, Reachable
    <2>2. req'[h].alone => Alone(h)'
      BY <1>1, <1>2, <1>3, <1>4 DEF Alone, Quiet
    <2>3. ~mixed' => req'[h].alone
      BY <1>1, <1>2, <1>3
    <2>4. req'[h].alone /\ (~mixed' \/ Sweeps(req'[h])) => Holds(h)'
      <3>1. Quiet /\ ~mixed => Agree
        BY DEF IInv, Quiet, Settled, Agree
      <3>. QED
        BY <1>1, <1>2, <1>3, <3>1 DEF Sweeps
    <2>. QED
      BY <2>1, <2>2, <2>3, <2>4 DEF ReqOK, Sweeps
  <1>. QED
    BY <1>1, <1>4, <1>5, <1>6, <1>7 DEF IInv, Booting, Reachable

LEMMA FreshFields ==
  ASSUME NEW o, NEW p, NEW g, NEW r
  PROVE  /\ Fresh(o, p, g, r).op = o /\ Fresh(o, p, g, r).pc = p
         /\ Fresh(o, p, g, r).goal = g /\ Fresh(o, p, g, r).cur = r
         /\ Fresh(o, p, g, r).seen = None /\ ~Fresh(o, p, g, r).missed
         /\ /\ o \in {"register", "update", "edit", "enable", "disable", "delete"}
            /\ p \in Pcs /\ g \in Statuses /\ r \in Records
            => Fresh(o, p, g, r) \in Reqs
  BY DEF Fresh, Reqs, Pcs, Quiet

LEMMA BeginInv ==
  ASSUME IInv, NEW h \in Handlers, Begin(h)
  PROVE  IInv'
PROOF
  <1>0. /\ record \in Records \cup {None} /\ Reachable(record)
        /\ \A o, p, g, r : Arrive(h, o, p, g, r) => UNCHANGED <<record, inst>>
    BY DEF IInv, TypeOK, Arrive
  <1>1. ASSUME NEW c \in Configs, BeginRegister(h, c)
        PROVE  IInv'
    <2>0. PICK local \in BOOLEAN :
            /\ local \/ c \in External
            /\ Arrive(h, "register", "save", "deploying",
                      [status |-> "deploying", config |-> c, local |-> local])
      BY <1>1 DEF BeginRegister
    <2> DEFINE r == [status |-> "deploying", config |-> c, local |-> local]
               q == Fresh("register", "save", "deploying", r)
    <2>1. /\ r \in Records /\ Reachable(r) /\ record = None
          /\ Arrive(h, "register", "save", "deploying", r) /\ r.status = "deploying"
      BY <1>1, <2>0 DEF BeginRegister, Records, Statuses, Reachable
    <2> HIDE DEF r
    <2>2. /\ q \in Reqs /\ q.op = "register" /\ q.pc = "save" /\ q.cur = r /\ q.seen = None
      BY <2>1, FreshFields DEF Pcs, Statuses
    <2> HIDE DEF q
    <2>3. Plan(q) /\ Knows(q) /\ ~Sweeps(q)
      BY <2>1, <2>2 DEF Plan, Knows, Deploying, Reachable, Sweeps
    <2>4. req'[h] = q /\ Agree => Holds(h)'
      BY <1>0, <2>1, <2>2 DEF Holds, Agree, Here
    <2>. QED
      BY <2>1, <2>2, <2>3, <2>4, ArriveInv DEF q
  <1>2. ASSUME NEW c \in Configs, BeginUpdate(h, c)
        PROVE  IInv'
    <2> DEFINE r == [record EXCEPT !.config = c]
               q == Fresh("update", "write", "deploying", r)
    <2>1. /\ record # None /\ record \in Records
          /\ record.config \in External => c \in External
          /\ Arrive(h, "update", "write", "deploying", r)
      BY <1>0, <1>2 DEF BeginUpdate
    <2>2. r \in Records /\ r.status = record.status /\ r.config = c /\ r.local = record.local
      BY <2>1 DEF Records
    <2>3. Reachable(r)
      BY <1>0, <2>1, <2>2 DEF Reachable
    <2> HIDE DEF r
    <2>4. /\ q \in Reqs /\ q.op = "update" /\ q.pc = "write" /\ q.cur = r /\ q.seen = None
          /\ q.goal = "deploying"
      BY <2>2, FreshFields DEF Pcs, Statuses
    <2> HIDE DEF q
    <2>5. Plan(q) /\ Knows(q)
      BY <2>1, <2>2, <2>3, <2>4 DEF Plan, Knows, Deploying, Reachable
    <2>6. req'[h] = q /\ (Agree \/ Sweeps(q)) => Holds(h)'
      BY <1>0, <2>1, <2>4 DEF Holds, Agree, Here, Sweeps, Redeploys
    <2>. QED
      BY <2>1, <2>4, <2>5, <2>6, ArriveInv DEF q
  <1>3. CASE BeginEdit(h)
    <2> DEFINE q == Fresh("edit", "write", "deploying", record)
    <2>1. record # None /\ record \in Records /\ Arrive(h, "edit", "write", "deploying", record)
      BY <1>0, <1>3 DEF BeginEdit
    <2>2. /\ q \in Reqs /\ q.op = "edit" /\ q.pc = "write" /\ q.cur = record /\ q.seen = None
          /\ q.goal = "deploying"
      BY <2>1, FreshFields DEF Pcs, Statuses
    <2> HIDE DEF q
    <2>3. Plan(q) /\ Knows(q) /\ ~Sweeps(q)
      BY <1>0, <2>1, <2>2 DEF Plan, Knows, Deploying, Reachable, Sweeps
    <2>4. req'[h] = q /\ Agree => Holds(h)'
      BY <1>0, <2>1, <2>2 DEF Holds, Agree, Here
    <2>. QED
      BY <2>1, <2>2, <2>3, <2>4, ArriveInv DEF q
  <1>4. CASE BeginToggle(h) /\ record.status = "disabled"
    <2> DEFINE q == Fresh("enable", "get", "deploying", record)
    <2>1. record # None /\ record \in Records /\ Arrive(h, "enable", "get", "deploying", record)
      BY <1>0, <1>4 DEF BeginToggle
    <2>2. /\ q \in Reqs /\ q.op = "enable" /\ q.pc = "get" /\ q.cur = record /\ q.seen = None
          /\ q.goal = "deploying"
      BY <2>1, FreshFields DEF Pcs, Statuses
    <2> HIDE DEF q
    <2>3. Plan(q) /\ Knows(q) /\ ~Sweeps(q)
      BY <1>0, <2>1, <2>2 DEF Plan, Knows, Deploying, Reachable, Sweeps
    <2>4. req'[h] = q /\ Agree => Holds(h)'
      BY <1>0, <1>4, <2>1, <2>2 DEF Holds, Agree, Here
    <2>. QED
      BY <2>1, <2>2, <2>3, <2>4, ArriveInv DEF q
  <1>5. CASE BeginToggle(h) /\ record.status # "disabled"
    <2> DEFINE q == Fresh("disable", "list", "disabled", record)
    <2>1. record # None /\ record \in Records /\ Arrive(h, "disable", "list", "disabled", record)
      BY <1>0, <1>5 DEF BeginToggle
    <2>2. /\ q \in Reqs /\ q.op = "disable" /\ q.pc = "list" /\ q.cur = record /\ q.seen = None
          /\ q.goal = "disabled"
      BY <2>1, FreshFields DEF Pcs, Statuses
    <2> HIDE DEF q
    <2>3. Plan(q) /\ Knows(q)
      BY <1>0, <2>1, <2>2 DEF Plan, Knows, Deploying, Reachable
    <2>4. req'[h] = q => Holds(h)'
      BY <2>2 DEF Holds
    <2>. QED
      BY <2>1, <2>2, <2>3, <2>4, ArriveInv DEF q
  <1>6. CASE BeginDelete(h)
    <2> DEFINE q == Fresh("delete", "list", "deploying", record)
    <2>1. record # None /\ record \in Records /\ Arrive(h, "delete", "list", "deploying", record)
      BY <1>0, <1>6 DEF BeginDelete
    <2>2. /\ q \in Reqs /\ q.op = "delete" /\ q.pc = "list" /\ q.cur = record /\ q.seen = None
      BY <2>1, FreshFields DEF Pcs, Statuses
    <2> HIDE DEF q
    <2>3. Plan(q) /\ Knows(q)
      BY <1>0, <2>1, <2>2 DEF Plan, Knows, Deploying, Reachable
    <2>4. req'[h] = q => Holds(h)'
      BY <2>2 DEF Holds
    <2>. QED
      BY <2>1, <2>2, <2>3, <2>4, ArriveInv DEF q
  <1>. QED
    BY <1>1, <1>2, <1>3, <1>4, <1>5, <1>6 DEF Begin

-----------------------------------------------------------------------------
(* The health loop and a restart. *)
LEMMA HealProbeInv ==
  ASSUME IInv, NEW s \in Slots, HealProbe(s)
  PROVE  IInv'
PROOF
  <1>1. /\ TypeOK /\ Booting /\ Reachable(record) /\ inst[s] \in Instances /\ inst[s] # None
        /\ UNCHANGED <<record, inst, boot, begun>> /\ mixed \in BOOLEAN /\ s \in Here
        /\ heal' = [at |-> "stop", slot |-> s, config |-> inst[s].config]
        /\ upsets \in Nat /\ upsets < Upsets /\ upsets' = upsets + 1
        /\ mixed' = (mixed \/ \E h \in Handlers : Busy(h))
    BY AdminAssumption DEF IInv, TypeOK, HealProbe, Here
  <1>2. \A k \in Handlers :
          req'[k] \in Reqs \cup {None} /\ (Busy(k)' <=> Busy(k)) /\ ReqOK(k)'
    <2> SUFFICES ASSUME NEW k \in Handlers
                 PROVE  req'[k] \in Reqs \cup {None} /\ (Busy(k)' <=> Busy(k)) /\ ReqOK(k)'
      OBVIOUS
    <2>1. req'[k] = IF Busy(k) THEN [req[k] EXCEPT !.alone = FALSE] ELSE None
      BY DEF HealProbe
    <2>. QED
      BY <1>1, <2>1, Met
  <1>3. TypeOK'
    <2>1. req' \in [Handlers -> Reqs \cup {None}]
      BY <1>2 DEF HealProbe
    <2>2. heal' \in Repairs
      BY <1>1 DEF Repairs, Instances
    <2>3. upsets' \in 0 .. Upsets
      BY <1>1, AdminAssumption
    <2>4. mixed' \in BOOLEAN
      BY <1>1
    <2>. QED
      BY <1>1, <2>1, <2>2, <2>3, <2>4 DEF TypeOK
  <1>4. ~mixed' => Settled'
    <2>1. ~mixed' => Settled
      BY <1>1 DEF IInv
    <2>. QED
      BY <1>1, <2>1 DEF Settled, Here
  <1>. QED
    BY <1>1, <1>2, <1>3, <1>4 DEF IInv, Booting, Reachable

(* A step of the health loop, or of the restart, while handlers that meet  *)
(* it are not alone.                                                       *)
LEMMA Goes ==
  ASSUME IInv, heal # None \/ boot # "done",
         UNCHANGED <<record, req, begun, upsets, mixed>>,
         inst' \in [Slots -> Instances \cup {None}], heal' \in Repairs \cup {None},
         boot' \in {"deploy", "load", "done"}, boot' # boot => boot # "done",
         Settled => Settled'
  PROVE  IInv'
PROOF
  <1>1. TypeOK /\ Booting /\ Reachable(record) /\ (boot' # "done" => boot # "done" \/ boot' = boot)
    BY DEF IInv
  <1>2. \A k \in Handlers : ReqOK(k)'
    <2> SUFFICES ASSUME NEW k \in Handlers, Busy(k)
                 PROVE  ReqOK(k)'
      BY DEF ReqOK, Busy
    <2>1. ReqOK(k) /\ ~req[k].alone
      BY DEF IInv, ReqOK, Alone
    <2>. QED
      BY <2>1 DEF ReqOK, Plan, Knows, Reachable
  <1>3. TypeOK'
    BY <1>1 DEF TypeOK
  <1>4. Booting'
    BY <1>1 DEF Booting, Busy
  <1>. QED
    BY <1>1, <1>2, <1>3, <1>4 DEF IInv, Reachable, Busy

LEMMA HealsInv ==
  ASSUME IInv, HealStop \/ HealDeploy \/ HealEnds
  PROVE  IInv'
PROOF
  <1>1. /\ TypeOK /\ heal # None /\ heal \in Repairs /\ heal.slot \in Slots
        /\ UNCHANGED <<record, req, boot, begun, upsets, mixed>>
        /\ heal.config \in Configs
    BY DEF IInv, TypeOK, HealStop, HealDeploy, HealEnds, Repairs
  <1>2. CASE HealStop
    <2>1. /\ heal'.at = "deploy" /\ heal' \in Repairs /\ heal'.config = heal.config
      BY <1>1, <1>2 DEF HealStop, Repairs
    <2>2. heal' # None
      BY <2>1, AdminAssumption
    <2>3. /\ inst' \in [Slots -> Instances \cup {None}] /\ Here' \subseteq Here
          /\ \A s \in Here' : inst'[s] = inst[s]
      BY <1>1, <1>2 DEF HealStop, TypeOK, Here
    <2>4. Settled => Settled'
      BY <1>1, <2>1, <2>2, <2>3 DEF Settled
    <2>. QED
      BY <1>1, <2>1, <2>3, <2>4, Goes DEF TypeOK
  <1>3. CASE HealDeploy /\ inst[heal.slot] = None
    <2>1. /\ heal'.at = "load" /\ heal' \in Repairs /\ heal'.config = heal.config
          /\ inst' = [inst EXCEPT ![heal.slot] = Loading(heal.config, Healer)]
      BY <1>1, <1>3 DEF HealDeploy, Repairs
    <2>2. Loading(heal.config, Healer) \in Instances
      BY <1>1 DEF Loading, Instances, States
    <2>3. /\ inst' \in [Slots -> Instances \cup {None}] /\ heal.slot \in Here'
          /\ \A s \in Here' : s \in Here \/ inst'[s].config = heal.config
          /\ \A s \in Here : s # heal.slot /\ inst'[s] = inst[s]
      BY <1>1, <1>3, <2>1, <2>2, AdminAssumption DEF TypeOK, Here, Loading
    <2>4. Settled => Settled'
      BY <1>1, <2>1, <2>3 DEF Settled
    <2>. QED
      BY <1>1, <2>1, <2>3, <2>4, Goes DEF TypeOK
  <1>4. CASE HealDeploy /\ inst[heal.slot] # None
    <2>1. heal' = None /\ UNCHANGED inst /\ heal.slot \in Here
      BY <1>1, <1>4 DEF HealDeploy, Here
    <2>2. Settled => Settled'
      BY <1>1, <2>1 DEF Settled, Here
    <2>. QED
      BY <1>1, <2>1, <2>2, Goes DEF TypeOK
  <1>5. CASE HealEnds
    <2>1. PICK how \in {"ready", "error"} : Show(heal.slot, Healer, how)
      BY <1>5 DEF HealEnds
    <2>2. heal.at = "load" /\ heal' = None
      BY <1>5 DEF HealEnds
    <2>3. /\ inst' \in [Slots -> Instances \cup {None}] /\ Here' = Here
          /\ \A s \in Here : inst'[s].config = inst[s].config
      BY <1>1, <2>1, ShowFields DEF Here
    <2>4. Settled => Settled'
      BY <1>1, <2>2, <2>3 DEF Settled
    <2>. QED
      BY <1>1, <2>2, <2>3, <2>4, Goes DEF TypeOK
  <1>. QED
    BY <1>2, <1>3, <1>4, <1>5 DEF HealDeploy

LEMMA RestartInv ==
  ASSUME IInv, Restart
  PROVE  IInv'
PROOF
  <1>1. /\ TypeOK /\ Reachable(record) /\ UNCHANGED <<record, begun>>
        /\ upsets' = upsets + 1 /\ upsets \in Nat /\ upsets < Upsets
        /\ inst' = [s \in Slots |-> None] /\ heal' = None
        /\ boot' = IF record # None /\ record.local THEN "deploy" ELSE "done"
        /\ mixed' = (record # None /\ record.local /\ record.status = "disabled")
        /\ req' = [h \in Handlers |-> None]
    BY AdminAssumption DEF IInv, TypeOK, Restart
  <1>2. Here' = {}
    BY <1>1 DEF Here
  <1>3. \A h \in Handlers : ~Busy(h)' /\ ReqOK(h)'
    BY <1>1 DEF Busy, ReqOK
  <1>4. ~mixed' => Settled'
    BY <1>1, <1>2 DEF Settled, Reachable
  <1>5. TypeOK'
    <2>1. mixed' \in BOOLEAN /\ boot' \in {"deploy", "load", "done"}
      BY <1>1
    <2>2. upsets' \in 0 .. Upsets
      BY <1>1, AdminAssumption
    <2>. QED
      BY <1>1, <2>1, <2>2 DEF TypeOK
  <1>6. Booting'
    BY <1>1, <1>3 DEF Booting
  <1>. QED
    BY <1>1, <1>3, <1>4, <1>5, <1>6 DEF IInv, Reachable

LEMMA BootInv ==
  ASSUME IInv, BootDeploys \/ BootEnds
  PROVE  IInv'
PROOF
  <1>1. /\ TypeOK /\ Booting /\ boot # "done" /\ record \in Records /\ Restore \in Slots
        /\ record # None
        /\ UNCHANGED <<record, req, heal, begun, upsets, mixed>> /\ record.config \in Configs
    BY DEF IInv, TypeOK, BootDeploys, BootEnds, Booting, Records, Slots
  <1>2. CASE BootDeploys
    <2>1. /\ inst' = [inst EXCEPT ![Restore] = Loading(record.config, Booter)]
          /\ inst[Restore] = None /\ boot' = "load"
      BY <1>2 DEF BootDeploys
    <2>2. Loading(record.config, Booter) \in Instances
      BY <1>1 DEF Loading, Instances, States
    <2>3. /\ inst' \in [Slots -> Instances \cup {None}] /\ Restore \in Here'
          /\ \A s \in Here' : s \in Here \/ inst'[s].config = record.config
          /\ \A s \in Here : inst'[s] = inst[s]
      BY <1>1, <2>1, <2>2, AdminAssumption DEF TypeOK, Here, Loading
    <2>4. Settled => Settled'
      BY <1>1, <2>1, <2>3 DEF Settled
    <2>. QED
      BY <1>1, <2>1, <2>3, <2>4, Goes DEF TypeOK
  <1>3. CASE BootEnds
    <2>1. boot = "load" /\ boot' = "done"
          /\ \E how \in {"ready", "error"} : Show(Restore, Booter, how)
      BY <1>3 DEF BootEnds
    <2>2. /\ inst' \in [Slots -> Instances \cup {None}] /\ Here' = Here
          /\ \A s \in Here : inst'[s].config = inst[s].config
      BY <1>1, <2>1, ShowFields DEF Here
    <2>3. Settled => Settled'
      BY <1>1, <2>1, <2>2 DEF Settled
    <2>. QED
      BY <1>1, <2>1, <2>2, <2>3, Goes DEF TypeOK
  <1>. QED
    BY <1>2, <1>3

-----------------------------------------------------------------------------
LEMMA InitInv == Init => IInv
PROOF
  <1> SUFFICES ASSUME Init
               PROVE  IInv
    OBVIOUS
  <1>1. TypeOK
    <2>1. begun \in 0 .. Begins /\ upsets \in 0 .. Upsets
      BY AdminAssumption DEF Init
    <2>2. /\ inst \in [Slots -> Instances \cup {None}]
          /\ req \in [Handlers -> Reqs \cup {None}]
      BY DEF Init
    <2>. QED
      BY <2>1, <2>2 DEF Init, TypeOK
  <1>2. \A h \in Handlers : ReqOK(h)
    BY DEF Init, ReqOK, Busy
  <1>3. Settled
    BY DEF Init, Settled, Here
  <1>. QED
    BY <1>1, <1>2, <1>3 DEF Init, IInv, Booting, Reachable

LEMMA ServeInv ==
  ASSUME IInv, NEW h \in Handlers, Serve(h)
  PROVE  IInv'
  BY SaveInv, WriteInv, GetInv, PutInv, NoRecordInv, ListInv, StopInv, StoppedInv, EraseInv,
     ReplaceInv, DeployInv, LoadsInv, FixInv DEF Serve

LEMMA StutterInv ==
  ASSUME IInv, UNCHANGED vars
  PROVE  IInv'
PROOF
  <1>1. /\ TypeOK' /\ Booting' /\ Reachable(record')
        /\ (~mixed /\ (\A h \in Handlers : ~Busy(h)) => Settled)'
    BY DEF vars, IInv, TypeOK, Booting, Reachable, Settled, Here, Busy
  <1>2. ASSUME NEW h \in Handlers
        PROVE  ReqOK(h)'
    <2>1. ReqOK(h) /\ UNCHANGED <<record, inst, req, heal, boot, mixed>>
      BY DEF IInv, vars
    <2>2. (Plan(req[h])' <=> Plan(req[h])) /\ (Knows(req[h])' <=> Knows(req[h]))
          /\ (Alone(h)' <=> Alone(h)) /\ (Holds(h)' <=> Holds(h))
      BY <2>1 DEF Plan, Knows, Alone, Holds, Reachable, OnlyWeb, Here, Agree, Busy
    <2>. QED
      BY <2>1, <2>2 DEF ReqOK, Busy, Sweeps
  <1>. QED
    BY <1>1, <1>2 DEF IInv

LEMMA InvStep == IInv /\ [Next]_vars => IInv'
  BY BeginInv, ServeInv, HealProbeInv, HealsInv, RestartInv, BootInv, StutterInv DEF Next

LEMMA Invariance == Spec => []IInv
  BY InitInv, InvStep, PTL DEF Spec

(* Every variable of the console's model has its type, whatever the        *)
(* handlers, the health loop and restarts do to each other.                *)
THEOREM TypeCorrect == Spec => []TypeOK
PROOF
  <1>1. IInv => TypeOK
    BY DEF IInv
  <1>. QED
    BY <1>1, Invariance, PTL

(* Between requests of the console that did not meet each other or the     *)
(* health loop, what runs on the node is what the record says; one update, *)
(* disable or delete that meets nobody brings this about again.            *)
THEOREM RecordAgreesHolds == Spec => []RecordAgrees
PROOF
  <1>1. IInv => RecordAgrees
    BY DEF IInv, RecordAgrees, Quiet, Settled, Here
  <1>. QED
    BY <1>1, Invariance, PTL

-----------------------------------------------------------------------------
(* Whose step it is. *)
LEMMA OtherStays ==
  ASSUME TypeOK, NEW k \in Handlers, Serve(k), NEW h \in Handlers \ {k}, Busy(h)
  PROVE  req'[h] # None /\ req'[h].pc = req[h].pc
PROOF
  <1>1. \/ \E r : req' = [req EXCEPT ![k] = r]
        \/ \E r : req' = [Missing(k) EXCEPT ![k] = r]
    <2>1. CASE Save(k)
      BY <2>1 DEF Save
    <2>2. CASE Write(k)
      BY <2>2 DEF Write, WriteAndGoto, WriteAndAnswer
    <2>3. CASE Get(k) \/ List(k) \/ Stop(k) \/ Stopped(k) \/ Replace(k)
      BY <2>3 DEF Get, List, Stop, Stopped, Replace, Goto
    <2>4. CASE Put(k)
      BY <2>4 DEF Put, WriteAndAnswer
    <2>5. CASE NoRecord(k)
      BY <2>5 DEF NoRecord
    <2>6. CASE Erase(k) \/ Fix(k)
      BY <2>6 DEF Erase, Fix, WriteAndAnswer
    <2>7. CASE Deploy(k) \/ Loads(k)
      BY <2>7 DEF Deploy, Loads, Failed, Mark, Goto
    <2>. QED
      BY <2>1, <2>2, <2>3, <2>4, <2>5, <2>6, <2>7 DEF Serve
  <1>2. req'[h] = req[h] \/ req'[h] = [req[h] EXCEPT !.missed = TRUE]
    BY <1>1 DEF TypeOK, Missing
  <1>3. req[h] \in Reqs
    BY DEF TypeOK, Busy
  <1>. QED
    BY <1>2, <1>3, MissingFields, NoneIsNoRequest DEF Busy

LEMMA Acts ==
  ASSUME IInv, [Next]_vars, upsets' = upsets, NEW h \in Handlers, Busy(h),
         req'[h] = None \/ req'[h].pc # req[h].pc
  PROVE  Serve(h)
PROOF
  <1>1. TypeOK /\ req[h] \in Reqs
    BY DEF IInv, TypeOK, Busy
  <1>2. req'[h] # req[h]
    BY DEF Busy
  <1>3. ASSUME NEW k \in Handlers, Begin(k)
        PROVE  FALSE
    <2>1. h # k /\ req'[h] = [req[h] EXCEPT !.alone = FALSE]
      BY <1>3 DEF Begin, BeginRegister, BeginUpdate, BeginEdit, BeginToggle, BeginDelete, Arrive
    <2>. QED
      BY <1>1, <2>1, MetFields, NoneIsNoRequest
  <1>4. ASSUME NEW k \in Handlers \ {h}, Serve(k)
        PROVE  FALSE
    BY <1>1, <1>4, OtherStays
  <1>5. upsets \in Nat
    BY <1>1, AdminAssumption DEF TypeOK
  <1>6. ~Restart /\ \A s \in Slots : ~HealProbe(s)
    BY <1>5 DEF Restart, HealProbe
  <1>7. ~HealStop /\ ~HealDeploy /\ ~HealEnds /\ ~BootDeploys /\ ~BootEnds /\ req' # req
    BY <1>2 DEF HealStop, HealDeploy, HealEnds, BootDeploys, BootEnds
  <1>. QED
    BY <1>3, <1>4, <1>6, <1>7 DEF Next, vars

LEMMA StillRequests ==
  ASSUME NEW q \in Reqs
  PROVE  /\ \A p \in Pcs : [q EXCEPT !.pc = p] # None
         /\ \A t \in SUBSET Slots : [q EXCEPT !.todo = t] # None
         /\ \A p \in Pcs, s \in Records : [q EXCEPT !.pc = p, !.seen = s] # None
         /\ \A p \in Pcs, t \in SUBSET Slots : [q EXCEPT !.pc = p, !.todo = t] # None
         /\ \A p \in Pcs, g \in Statuses : [q EXCEPT !.pc = p, !.goal = g] # None
PROOF
  <1>1. /\ \A p \in Pcs : [q EXCEPT !.pc = p] \in Reqs
        /\ \A t \in SUBSET Slots : [q EXCEPT !.todo = t] \in Reqs
    BY DEF Reqs, Pcs
  <1>2. \A p \in Pcs, s \in Records : [q EXCEPT !.pc = p, !.seen = s] \in Reqs
    BY DEF Reqs, Pcs
  <1>3. \A p \in Pcs, t \in SUBSET Slots : [q EXCEPT !.pc = p, !.todo = t] \in Reqs
    BY DEF Reqs, Pcs
  <1>4. \A p \in Pcs, g \in Statuses : [q EXCEPT !.pc = p, !.goal = g] \in Reqs
    BY DEF Reqs, Pcs
  <1>. QED
    BY <1>1, <1>2, <1>3, <1>4, NoneIsNoRequest

LEMMA Answers ==
  ASSUME TypeOK, NEW h \in Handlers, Serve(h), Busy(h), req'[h] = None
  PROVE  \/ Write(h) /\ ~(req[h].op = "update" /\ Redeploys(req[h].cur))
         \/ Put(h) /\ req[h].goal # "deploying"
         \/ NoRecord(h) \/ Erase(h) \/ Fix(h)
PROOF
  <1> DEFINE q == req[h]
  <1>1. q \in Reqs /\ q.goal \in Statuses /\ q.seen \in Records \cup {None}
        /\ q.todo \in SUBSET Slots /\ NowDeploys(h) \in Pcs
    BY FieldTypes DEF TypeOK, Busy, NowDeploys, Pcs
  <1>2. ~Save(h)
    <2>1. Save(h) => req'[h] = [q EXCEPT !.pc = NowDeploys(h), !.goal = "online"]
      <3>1. Save(h) =>
              req' = [Missing(h) EXCEPT ![h] = [q EXCEPT !.pc = NowDeploys(h), !.goal = "online"]]
        BY MissingSelf DEF Save
      <3>. QED
        BY <3>1, Writes
    <2>. QED
      BY <1>1, StillRequests, <2>1 DEF Statuses
  <1>3. Write(h) => ~(q.op = "update" /\ Redeploys(q.cur))
    <2>1. Write(h) /\ q.op = "update" /\ Redeploys(q.cur) => req'[h] = [q EXCEPT !.pc = "list"]
      BY Writes, MissingSelf DEF Write, WriteAndGoto
    <2>. QED
      BY <1>1, StillRequests, <2>1 DEF Pcs
  <1>4. ~Get(h) /\ ~List(h) /\ ~Replace(h) /\ ~Stopped(h)
    <2>1. Get(h) => record \in Records /\ req'[h] = [q EXCEPT !.pc = "put", !.seen = record]
      BY DEF TypeOK, Get
    <2>2. List(h) => Listed \in SUBSET Slots /\ req'[h] = [q EXCEPT !.pc = "stop", !.todo = Listed]
      BY DEF TypeOK, List, Listed
    <2>3. Replace(h) => req'[h] = [q EXCEPT !.pc = "deploy"]
      BY DEF TypeOK, Replace, Goto
    <2>4. Stopped(h) => req'[h] = [q EXCEPT !.pc = "erase"] \/ req'[h] = [q EXCEPT !.pc = "get"]
      BY DEF TypeOK, Stopped, Goto
    <2>5. {"put", "stop", "deploy", "erase", "get"} \subseteq Pcs
      BY DEF Pcs
    <2>6. \A p \in {"put", "stop", "deploy", "erase", "get"} : [q EXCEPT !.pc = p] # None
      BY <1>1, <2>5, StillRequests
    <2>7. ~Get(h)
      BY <1>1, <2>1, <2>5, StillRequests
    <2>8. ~List(h)
      BY <1>1, <2>2, <2>5, StillRequests
    <2>. QED
      BY <2>3, <2>4, <2>6, <2>7, <2>8
  <1>5. ~Stop(h)
    <2>1. Stop(h) => \E s \in q.todo : req'[h] = [q EXCEPT !.todo = q.todo \ {s}]
      BY DEF TypeOK, Stop
    <2>2. \A s : q.todo \ {s} \in SUBSET Slots
      BY <1>1
    <2>3. "stop" \in Pcs /\ "error" \in Statuses
      BY DEF Pcs, Statuses
    <2>. QED
      BY <1>1, StillRequests, <2>1, <2>2, <2>3
  <1>6. ~Deploy(h) /\ ~Loads(h)
    <2>1. Deploy(h) \/ Loads(h) =>
            \/ \E p \in {"load", "fix"} : req'[h] = [q EXCEPT !.pc = p]
            \/ \E g \in {"online", "error"} : req'[h] = [q EXCEPT !.pc = "get", !.goal = g]
      BY DEF TypeOK, Deploy, Loads, Failed, Mark, Goto, Outcome
    <2>2. {"load", "fix", "get"} \subseteq Pcs /\ {"online", "error"} \subseteq Statuses
      BY DEF Pcs, Statuses
    <2>3. ASSUME NEW p \in {"load", "fix"}, req'[h] = [q EXCEPT !.pc = p]
          PROVE  FALSE
      BY <1>1, <2>2, <2>3, StillRequests
    <2>4. ASSUME NEW g \in {"online", "error"}, req'[h] = [q EXCEPT !.pc = "get", !.goal = g]
          PROVE  FALSE
      <3>1. Held(req'[h], q, "get", g, q.seen, q.todo)
        BY <1>1, <2>2, <2>4, Updates
      <3>. QED
        BY <3>1, NoneIsNoRequest DEF Held
    <2>. QED
      BY <2>1, <2>3, <2>4
  <1>7. Put(h) => q.goal # "deploying"
    <2>1. Put(h) /\ q.goal = "deploying" =>
            req'[h] = [q EXCEPT !.pc = NowDeploys(h), !.goal = "online", !.seen = None]
      <3>1. Put(h) /\ q.goal = "deploying" =>
              req' = [Missing(h) EXCEPT ![h] =
                        [q EXCEPT !.pc = NowDeploys(h), !.goal = "online", !.seen = None]]
        BY MissingSelf DEF Put
      <3>. QED
        BY <3>1, Writes
    <2>2. ASSUME Put(h), q.goal = "deploying"
          PROVE  Held(req'[h], q, NowDeploys(h), "online", None, q.todo)
      <3>1. "online" \in Statuses /\ None \in Records \cup {None}
        BY DEF Statuses
      <3>. QED
        BY <1>1, <2>1, <2>2, <3>1, Updates
    <2>. QED
      BY <2>2, NoneIsNoRequest DEF Held
  <1>. QED
    BY <1>2, <1>3, <1>4, <1>5, <1>6, <1>7 DEF Serve

LEMMA TrueStatus ==
  ASSUME IInv, NEW h \in Handlers, Serve(h), Busy(h), req'[h] = None, req[h].alone, ~mixed',
         req[h].op # "edit", record' # None
  PROVE  record'.status = Derived'
PROOF
  <1> DEFINE q == req[h]
  <1>1. /\ TypeOK /\ q \in Reqs /\ Plan(q) /\ Knows(q) /\ q.seen \in Records \cup {None}
        /\ q.cur \in Records /\ q.goal \in Statuses
    BY FieldTypes DEF IInv, TypeOK, Busy, ReqOK, Alone
  <1>2. CASE Write(h) /\ ~(q.op = "update" /\ Redeploys(q.cur))
    <2>1. record' = q.cur /\ q.pc = "write"
      BY <1>2 DEF Write, WriteAndAnswer, At
    <2>. QED
      BY <1>1, <1>2, <2>1 DEF Plan, Redeploys, Derived
  <1>3. CASE NoRecord(h) \/ Erase(h)
    BY <1>1, <1>3 DEF NoRecord, Erase, WriteAndAnswer, Knows, At
  <1>4. CASE Put(h) /\ q.goal # "deploying"
    <2>1. /\ record' = [q.seen EXCEPT !.status = q.goal] /\ q.pc = "put" /\ UNCHANGED inst
          /\ Answered(h) /\ q.seen \in Records
      BY <1>1, <1>4 DEF Put, WriteAndAnswer, At, others, Plan
    <2>2. Holds(h)
      BY <2>1 DEF IInv, ReqOK, Answered
    <2>3. record'.status = q.goal /\ record'.config = record.config
      BY <1>1, <2>1, SeenFields DEF Knows
    <2>4. CASE q.goal = "disabled" \/ record.config \in External
      BY <2>3, <2>4 DEF Derived
    <2>5. CASE q.goal # "disabled" /\ record.config \notin External
      <3>1. q.goal \in {"online", "error"} /\ q.op \in {"register", "update", "enable"}
        BY <1>1, <1>4, <2>1, <2>5 DEF Plan
      <3>2. record.config = q.cur.config
        BY <1>1, <2>1, <3>1 DEF Knows
      <3>3. OnlyWeb(q, IF q.goal = "online" THEN {"ready"} ELSE {"error"})
        BY <2>1, <2>2, <2>5, <3>1, <3>2 DEF Holds
      <3>4. /\ \A s \in Slots : inst[s] # None <=> s = Web
            /\ inst[Web].state = IF q.goal = "online" THEN "ready" ELSE "error"
            /\ Web \in Slots
        BY <3>1, <3>3 DEF OnlyWeb, Here, Slots
      <3>. QED
        BY <2>1, <2>3, <2>5, <3>1, <3>4 DEF Derived
    <2>. QED
      BY <2>4, <2>5
  <1>5. CASE Fix(h)
    <2>1. /\ record' = [q.cur EXCEPT !.status = "error"] /\ q.pc = "fix" /\ UNCHANGED inst
          /\ Answered(h)
      BY <1>5 DEF Fix, WriteAndAnswer, At, others
    <2>2. OnlyWeb(q, {"error"}) /\ q.cur.config \notin External
      BY <1>1, <2>1 DEF IInv, ReqOK, Answered, Holds, Plan
    <2>3. record'.status = "error" /\ record'.config = q.cur.config
      BY <1>1, <2>1, SeenFields DEF Statuses
    <2>4. /\ \A s \in Slots : inst[s] # None <=> s = Web
          /\ inst[Web].state = "error" /\ Web \in Slots
      BY <2>2 DEF OnlyWeb, Here, Slots
    <2>. QED
      BY <2>1, <2>2, <2>3, <2>4 DEF Derived
  <1>. QED
    BY <1>1, <1>2, <1>3, <1>4, <1>5, Answers

LEMMA Undoes ==
  ASSUME IInv, NEW h \in Handlers, Serve(h), Busy(h), ~req[h].missed
  PROVE  /\ record = None /\ record' # None => req[h].op = "register" /\ req[h].pc = "save"
         /\ record # None /\ record.status = "disabled"
              /\ record' # None /\ record'.status # "disabled" => req[h].op = "enable"
PROOF
  <1> DEFINE q == req[h]
  <1>1. /\ TypeOK /\ q \in Reqs /\ Plan(q) /\ Knows(q) /\ q.seen \in Records \cup {None}
        /\ q.goal \in Statuses
    BY FieldTypes DEF IInv, TypeOK, Busy, ReqOK
  <1>2. CASE Save(h)
    BY <1>1, <1>2 DEF Save, At, Plan, Knows
  <1>3. CASE Write(h)
    <2>1. record' = q.cur /\ q.pc = "write"
      BY <1>3 DEF Write, WriteAndAnswer, WriteAndGoto, At
    <2>. QED
      BY <1>1, <2>1 DEF Plan, Knows
  <1>4. CASE Put(h)
    <2>1. /\ record' = [q.seen EXCEPT !.status = q.goal] /\ q.pc = "put"
          /\ q.seen \in Records /\ q.seen = record /\ record # None
      BY <1>1, <1>4 DEF Put, WriteAndAnswer, At, Plan, Knows
    <2>2. record'.status = q.goal
      BY <1>1, <2>1, SeenFields
    <2>. QED
      BY <1>1, <2>1, <2>2 DEF Plan, Knows
  <1>5. CASE Fix(h)
    BY <1>1, <1>5 DEF Fix, At, Plan, Knows
  <1>6. CASE Erase(h)
    BY <1>6 DEF Erase, WriteAndAnswer
  <1>7. CASE Get(h) \/ NoRecord(h) \/ List(h) \/ Stop(h) \/ Stopped(h) \/ Replace(h)
             \/ Deploy(h) \/ Loads(h)
    BY <1>7 DEF Get, NoRecord, List, Stop, Stopped, Replace, Deploy, Loads
  <1>. QED
    BY <1>2, <1>3, <1>4, <1>5, <1>6, <1>7 DEF Serve

(* The status that a request which met nobody leaves in the record is what *)
(* the list of models derives from the instances.                          *)
THEOREM StatusIsTrueHolds == Spec => StatusIsTrue
PROOF
  <1>1. IInv /\ [Next]_vars =>
          [\A h \in Handlers :
             Busy(h) /\ req'[h] = None /\ upsets' = upsets /\ req[h].alone /\ ~mixed'
               /\ req[h].op # "edit" /\ record' # None
             => record'.status = Derived']_vars
    BY Acts, TrueStatus
  <1>. QED
    BY <1>1, Invariance, PTL DEF Spec, StatusIsTrue

(* A deleted record comes back, and a disabled model is enabled, only by   *)
(* the request that is for it, or by one that has missed the deletion.     *)
THEOREM OnlyOverlapUndoesHolds == Spec => OnlyOverlapUndoes
PROOF
  <1> DEFINE Undo(h) ==
        LET acts == Busy(h) /\ (req'[h] = None \/ req'[h].pc # req[h].pc) IN
        acts /\ upsets' = upsets =>
          /\ record = None /\ record' # None =>
               req[h].missed \/ (req[h].op = "register" /\ req[h].pc = "save")
          /\ record # None /\ record.status = "disabled"
               /\ record' # None /\ record'.status # "disabled" =>
               req[h].missed \/ req[h].op = "enable"
  <1>1. IInv /\ [Next]_vars => [\A h \in Handlers : Undo(h)]_vars
    BY Acts, Undoes
  <1>. QED
    BY <1>1, Invariance, PTL DEF Spec, OnlyOverlapUndoes

-----------------------------------------------------------------------------
(* The agent of this module is one that InstanceLifecycle allows. *)
Obeys == [Listing!Next]_(Listing!vars)

LEMMA OneSlot ==
  ASSUME NEW s \in Slots, \A t \in Slots \ {s} : inst'[t] = inst[t]
  PROVE  /\ Shown' = [Shown EXCEPT ![s] = Shown'[s]]
         /\ Usable' = [Usable EXCEPT ![s] = Usable'[s]]
<1>1. Slots' = Slots
  BY DEF Slots, Web, Restore
<1>2. Shown' = [Shown EXCEPT ![s] = Shown'[s]]
  BY <1>1 DEF Shown
<1>3. Usable' = [Usable EXCEPT ![s] = Usable'[s]]
  <2>1. \A t \in Slots \ {s} : Usable'[t] = Usable[t]
    BY <1>1 DEF Usable
  <2>2. QED
    BY <1>1, <2>1 DEF Usable
<1>4. QED
  BY <1>2, <1>3

(* An instance is stopped, if there is one. *)
LEMMA StopObeys ==
  ASSUME TypeOK, NEW s \in Slots, inst' = [inst EXCEPT ![s] = None]
  PROVE  Obeys
<1>1. /\ inst'[s] = None
      /\ \A t \in Slots \ {s} : inst'[t] = inst[t]
  BY DEF TypeOK
<1>2. CASE inst[s] = None
  <2>1. inst' = inst
    BY <1>2 DEF TypeOK
  <2>2. QED
    BY <2>1 DEF Obeys, Listing!vars, Shown, Usable
<1>3. CASE inst[s] # None
  <2>1. inst[s] \in Instances
    BY <1>3 DEF TypeOK
  <2>2. Shown[s] # "none"
    BY <1>3, <2>1 DEF Shown, Instances, States
  <2>3. Shown'[s] = "none" /\ Usable'[s] = FALSE
    BY <1>1 DEF Shown, Usable, Slots, Web, Restore
  <2>4. Listing!Vanish(s)
    BY <1>1, <2>2, <2>3, OneSlot DEF Listing!Vanish
  <2>5. QED
    BY <2>4 DEF Obeys, Listing!Next
<1>4. QED
  BY <1>2, <1>3

(* A free id is taken. *)
LEMMA DeployObeys ==
  ASSUME TypeOK, NEW s \in Slots, inst[s] = None, NEW c, NEW m,
         Loading(c, m) \in Instances, inst' = [inst EXCEPT ![s] = Loading(c, m)]
  PROVE  Obeys
<1>1. /\ inst'[s] # None /\ inst'[s].state = "loading"
      /\ \A t \in Slots \ {s} : inst'[t] = inst[t]
  BY AdminAssumption DEF TypeOK, Loading
<1>2. Shown[s] = "none" /\ Usable[s] = FALSE
  BY DEF Shown, Usable
<1>3. Shown'[s] = "loading" /\ Usable'[s] = FALSE
  BY <1>1 DEF Shown, Usable, Slots, Web, Restore
<1>4. Usable' = Usable
  BY <1>1, <1>2, <1>3, OneSlot DEF Usable
<1>5. Listing!Appear(s)
  BY <1>1, <1>2, <1>3, <1>4, OneSlot DEF Listing!Appear
<1>6. QED
  BY <1>5 DEF Obeys, Listing!Next

(* A load ends, well or badly, for the instance it belongs to. *)
LEMMA ShowObeys ==
  ASSUME TypeOK, NEW s \in Slots, NEW m, NEW how \in {"ready", "error"}, Show(s, m, how)
  PROVE  Obeys
<1>1. CASE inst' = inst
  BY <1>1 DEF Obeys, Listing!vars, Shown, Usable
<1>2. CASE /\ inst[s] # None /\ inst[s].state = "loading"
           /\ inst' = [inst EXCEPT ![s].state = how]
  <2>1. inst[s] \in Instances
    BY <1>2 DEF TypeOK
  <2>2. inst'[s] \in Instances /\ inst'[s].state = how
    BY <1>2, <2>1 DEF TypeOK, Instances, States
  <2>3. inst'[s] # None /\ \A t \in Slots \ {s} : inst'[t] = inst[t]
    BY <1>2, <2>2, AdminAssumption DEF TypeOK
  <2>4. Shown[s] = "loading" /\ Usable[s] = FALSE
    BY <1>2 DEF Shown, Usable
  <2>5. Shown'[s] = how
    BY <2>2, <2>3 DEF Shown, Slots, Web, Restore
  <2>6. Usable'[s] = (how = "ready")
    BY <2>2, <2>3 DEF Usable, Slots, Web, Restore
  <2>7. CASE how = "ready"
    <3>1. Usable'[s] = TRUE
      BY <2>6, <2>7
    <3>2. Listing!BecomeReady(s)
      BY <2>3, <2>4, <2>5, <2>7, <3>1, OneSlot DEF Listing!BecomeReady
    <3>3. QED
      BY <3>2 DEF Obeys, Listing!Next
  <2>8. CASE how = "error"
    <3>1. Usable'[s] = FALSE
      BY <2>6, <2>8
    <3>2. Usable' = Usable
      BY <2>3, <2>4, <3>1, OneSlot DEF Usable
    <3>3. Listing!BecomeFailed(s)
      BY <2>3, <2>4, <2>5, <2>8, <3>2, OneSlot DEF Listing!BecomeFailed
    <3>4. QED
      BY <3>3 DEF Obeys, Listing!Next
  <2>9. QED
    BY <2>7, <2>8
<1>3. QED
  BY <1>1, <1>2 DEF Show

LEMMA RestartObeys ==
  ASSUME Restart
  PROVE  Obeys
<1>1. \A s \in Slots : inst'[s] = None
  BY DEF Restart
<1>2. Shown' = [s \in Slots |-> "none"] /\ Usable' = [s \in Slots |-> FALSE]
  BY <1>1 DEF Shown, Usable, Slots, Web, Restore
<1>3. Listing!Restart
  BY <1>2 DEF Listing!Restart
<1>4. QED
  BY <1>3 DEF Obeys, Listing!Next

LEMMA ServeObeys ==
  ASSUME TypeOK, NEW h \in Handlers, Serve(h)
  PROVE  Obeys
<1>1. CASE UNCHANGED inst
  BY <1>1 DEF Obeys, Listing!vars, Shown, Usable
<1>2. CASE Stop(h)
  <2>1. Busy(h) /\ req[h].todo \subseteq Slots
    BY <1>2 DEF Stop, At, Busy, TypeOK, Reqs
  <2>2. QED
    BY <1>2, <2>1, StopObeys DEF Stop
<1>3. CASE Replace(h)
  BY <1>3, StopObeys DEF Replace, Slots
<1>4. CASE Deploy(h)
  <2>1. req[h].cur.config \in Configs
    BY <1>4 DEF Deploy, At, Busy, TypeOK, Reqs, Records
  <2>2. Loading(req[h].cur.config, h) \in Instances
    BY <2>1 DEF Loading, Instances, States
  <2>3. CASE inst[Web] = None /\ inst' = [inst EXCEPT ![Web] = Loading(req[h].cur.config, h)]
    BY <2>2, <2>3, DeployObeys DEF Slots
  <2>4. QED
    BY <1>1, <1>4, <2>3 DEF Deploy
<1>5. CASE Loads(h)
  <2>1. Show(Web, h, "ready") \/ Show(Web, h, "error")
    BY <1>5 DEF Loads
  <2>2. QED
    BY <2>1, ShowObeys DEF Slots
<1>6. QED
  BY <1>1, <1>2, <1>3, <1>4, <1>5
  DEF Serve, Save, Write, Get, Put, NoRecord, List, Stopped, Erase, Fix, others

(* The agent as the console sees it obeys the life cycle that the agent's  *)
(* own model implements: AgentObeys.                                       *)
THEOREM AgentObeysHolds == Spec => AgentObeys
<1>1. Init => Listing!Init
  BY DEF Init, Listing!Init, Shown, Usable
<1>2. IInv /\ [Next]_vars => [Listing!Next]_(Listing!vars)
  <2> SUFFICES ASSUME IInv, TypeOK, [Next]_vars PROVE Obeys
    BY DEF Obeys, IInv
  <2>1. ASSUME NEW h \in Handlers, Begin(h) PROVE UNCHANGED inst
    BY <2>1 DEF Begin, BeginRegister, BeginUpdate, BeginEdit, BeginToggle, BeginDelete, Arrive
  <2>2. CASE UNCHANGED inst
    BY <2>2 DEF Obeys, Listing!vars, Shown, Usable
  <2>3. CASE HealStop
    BY <2>3, StopObeys DEF HealStop, TypeOK, Repairs
  <2>4. CASE HealDeploy
    <3>1. heal \in Repairs
      BY <2>4 DEF HealDeploy, TypeOK
    <3>2. heal.slot \in Slots /\ Loading(heal.config, Healer) \in Instances
      BY <3>1 DEF Repairs, Loading, Instances, States
    <3>3. QED
      BY <2>2, <2>4, <3>2, DeployObeys DEF HealDeploy
  <2>5. CASE HealEnds
    <3>1. heal.slot \in Slots
      BY <2>5 DEF HealEnds, TypeOK, Repairs
    <3>2. QED
      BY <2>5, <3>1, ShowObeys DEF HealEnds
  <2>6. CASE BootDeploys
    <3>1. record.config \in Configs
      BY <2>6 DEF BootDeploys, IInv, Booting, TypeOK, Records
    <3>2. Loading(record.config, Booter) \in Instances
      BY <3>1 DEF Loading, Instances, States
    <3>3. QED
      BY <2>6, <3>2, DeployObeys DEF BootDeploys, Slots
  <2>7. CASE BootEnds
    BY <2>7, ShowObeys DEF BootEnds, Slots
  <2>8. QED
    BY <2>1, <2>2, <2>3, <2>4, <2>5, <2>6, <2>7, ServeObeys, RestartObeys
    DEF Next, HealProbe, vars
<1>3. QED
  BY <1>1, <1>2, Invariance, PTL DEF Spec, AgentObeys, Listing!Spec
=============================================================================
