--------------------------- MODULE BootstrapProofs ---------------------------
(***************************************************************************)
(* Proofs about Bootstrap, for any number of processes, addresses, models  *)
(* and commands.  The inductive invariant says where each command can be   *)
(* and what it was given (Routes), that a process is in a critical section *)
(* only with the lock (Locks), and what holds of the files between two     *)
(* steps: there is one id (OneId), a cluster comes with its nodes and with *)
(* a configuration (Whole, Named), a daemon's models stay (Served), and a  *)
(* configuration is as its reader loaded it (Fresh).                       *)
(***************************************************************************)
EXTENDS Bootstrap, TLAPS

(* Where a command can be, and what it was given. *)
Route(p) ==
  \/ pc[p] \in Ended \cup {"idle"}
  \/ /\ cmd[p] = "init"
     /\ pc[p] \in {"id", "truncid", "writeid", "open", "create", "peers", "save", "fill"}
  \/ /\ cmd[p] = "join"
     /\ pc[p] \in {"id", "truncid", "writeid", "open", "close", "save", "fill",
                   "discover", "resave", "refill", "joining"}
  \/ /\ cmd[p] = "run"
     /\ pc[p] \in {"open", "id", "truncid", "writeid", "auto", "resave", "refill",
                   "boot", "serve"}
  \/ /\ cmd[p] \in {"register", "remove", "list"}
     /\ pc[p] \in {"open", "store"}
  \/ /\ cmd[p] = "status"
     /\ pc[p] \in {"ask", "openro", "read"}

Given(p) ==
  /\ cmd[p] \in {"join", "run"} => arg[p] \in Addrs \cup {None}
  /\ pc[p] # "idle" /\ cmd[p] \in {"register", "remove"} => arg[p] \in Models

Routes == \A p \in Procs : Route(p) /\ Given(p)

(* Where a command has the database open for writing. *)
Locked(p) ==
  \/ pc[p] \in {"create", "peers", "close", "store"}
  \/ cmd[p] = "init" /\ pc[p] \in {"save", "fill"}
  \/ cmd[p] = "run" /\ pc[p] \in {"id", "truncid", "writeid", "auto", "resave", "refill",
                                  "boot", "serve"}

Locks ==
  /\ \A p \in Procs : Locked(p) => writer = p
  /\ writer # None => readers = {}

(* A command that is past ensureNodeID has its id, and a daemon that is    *)
(* past Validate a configuration that names a node.                        *)
KnowsItself(p) ==
  /\ cmd[p] \in {"init", "join"} /\ pc[p] \notin Ended \cup {"idle", "id", "truncid", "writeid"}
       => id[p] # None
  /\ cmd[p] = "run" /\ pc[p] \notin Ended \cup {"idle"} => CanRun(cfg[p])

Identities == \A p \in Procs : KnowsItself(p)

(* Unless two make an id at once, whoever makes one finds none, and every  *)
(* id that is known is the one in the file.                                *)
OneId ==
  ~raced =>
    /\ \A p, q \in Procs : Making(p) /\ Making(q) => p = q
    /\ \A p \in Procs : Making(p) => idFile = None
    /\ cfgFile.node \in {None, idFile}
    /\ db.peers \subseteq {idFile}
    /\ \A p \in Procs : id[p] \in {None, idFile} /\ cfg[p].node \in {None, idFile}

(* A cluster has its nodes, but for the init that is making it. *)
Whole ==
  /\ \A p \in Procs : pc[p] = "peers" => db.cluster # None
  /\ ~torn => \/ db.cluster = None <=> db.peers = {}
              \/ \E p \in Procs : pc[p] = "peers"

(* It has a configuration, but for the init that is making it and for      *)
(* whoever writes one.                                                     *)
Named ==
  db.cluster # None /\ ~torn /\ ~cut =>
    \/ cfgFile.node # None
    \/ \E p \in Procs : cmd[p] = "init" /\ pc[p] \in {"peers", "save", "fill"}
    \/ \E p \in Procs : pc[p] \in {"fill", "refill"}

(* A daemon's models are those of the database. *)
Served == DaemonHasModels

(* A daemon that has not joined yet has the configuration that is saved,   *)
(* or was told that it is behind.                                          *)
Fresh ==
  \A p \in Procs :
    /\ At(p, "run", "resave") => cfg[p].join = None
    /\ cmd[p] = "run" /\ pc[p] \in {"open", "id", "truncid", "writeid", "auto", "resave"}
         /\ p \notin behind => cfg[p] = cfgFile

IInv ==
  /\ TypeOK /\ Routes /\ Locks /\ Identities
  /\ OneId /\ Whole /\ Named /\ Served /\ Fresh
-----------------------------------------------------------------------------
(* What Begin does: the process is at a beginning, with a configuration it *)
(* could read, and it is a daemon only if it can run.                      *)
Begun(p, c, a, l) ==
  /\ pc[p] = "idle"
  /\ a \in Args(c)
  /\ cmd' = [cmd EXCEPT ![p] = c]
  /\ arg' = [arg EXCEPT ![p] = a]
  /\ pc' = [pc EXCEPT ![p] = l]
  /\ \/ cfgFile = Garbled /\ l = "refused" /\ UNCHANGED cfg
     \/ /\ cfgFile # Garbled
        /\ cfg' = [cfg EXCEPT ![p] = cfgFile]
        /\ CASE c \in {"init", "join"} -> l = "id"
             [] c = "run" -> (l = "open" /\ CanRun(cfgFile)) \/ l = "refused"
             [] c \in {"register", "remove", "list"} -> l = "open"
             [] OTHER -> l = "ask"
  /\ UNCHANGED <<files, lock, id, seen, hist>>

LEMMA BeginStep ==
  ASSUME NEW p \in Procs, NEW c \in Cmds, NEW a \in Args(c), Begin(p, c, a)
  PROVE  \E l \in {"id", "open", "refused", "ask"} : c \in AllCmds /\ Begun(p, c, a, l)
PROOF
  <1>1. c \in AllCmds
    BY BootAssumption
  <1>0. CASE cfgFile = Garbled
    <2>1. Begun(p, c, a, "refused")
      BY <1>0 DEF Begin, Goto, Begun
    <2>. QED
      BY <1>1, <2>1
  <1>2. CASE cfgFile # Garbled /\ c \in {"init", "join"}
    <2>1. Begun(p, c, a, "id")
      BY <1>2 DEF Begin, Goto, Begun
    <2>. QED
      BY <1>1, <2>1
  <1>3. CASE cfgFile # Garbled /\ c = "run"
    <2>1. CASE CanRun(cfgFile)
      <3>1. Begun(p, c, a, "open")
        BY <1>3, <2>1 DEF Begin, Goto, Begun
      <3>. QED
        BY <1>1, <3>1
    <2>2. CASE ~CanRun(cfgFile)
      <3>1. Begun(p, c, a, "refused")
        BY <1>3, <2>2 DEF Begin, Goto, Begun
      <3>. QED
        BY <1>1, <3>1
    <2>. QED
      BY <2>1, <2>2
  <1>4. CASE cfgFile # Garbled /\ c \in {"register", "remove", "list"}
    <2>1. Begun(p, c, a, "open")
      BY <1>4 DEF Begin, Goto, Begun
    <2>. QED
      BY <1>1, <2>1
  <1>5. CASE cfgFile # Garbled /\ c = "status"
    <2>1. Begun(p, c, a, "ask")
      BY <1>5 DEF Begin, Goto, Begun
    <2>. QED
      BY <1>1, <2>1
  <1>. QED
    BY <1>0, <1>1, <1>2, <1>3, <1>4, <1>5 DEF AllCmds

(* Where a command goes on that has its id. *)
LEMMA IdentifiedStep ==
  ASSUME Routes, NEW p \in Procs, pc[p] \in {"id", "writeid"}
  PROVE  /\ cmd[p] \in {"init", "join", "run"}
         /\ cmd[p] = "init" => Identified(p) = {"open"}
         /\ cmd[p] = "join" => Identified(p) = {"open", "save"}
         /\ cmd[p] = "run" => Identified(p) = {"auto"}
PROOF
  <1>1. cmd[p] \in {"init", "join", "run"}
    BY DEF Routes, Route, Ended
  <1>. QED
    BY <1>1 DEF Identified

(* A command that dies was somewhere, and is nowhere now. *)
LEMMA DeadStep ==
  ASSUME TypeOK, NEW p \in Procs, Die(p)
  PROVE  pc' = [pc EXCEPT ![p] = "dead"] /\ pc[p] # "idle" /\ pc[p] \notin Ended
PROOF
  BY DEF Die, Goto, Alive

(* What a command writes names a node it knows. *)
LEMMA WantedStep ==
  ASSUME TypeOK, Routes, Identities, NEW p \in Procs, pc[p] \in {"fill", "refill"}
  PROVE  Wanted(p) \in Configs /\ CanRun(Wanted(p))
PROOF
  <1> USE DEF TypeOK, Configs, CanRun, Ended
  <1>0. /\ Route(p) /\ Given(p) /\ KnowsItself(p)
    BY DEF Routes, Identities
  <1>1. CASE cmd[p] = "init"
    <2>1. Wanted(p) = [node |-> id[p], join |-> None]
      BY <1>1 DEF Wanted
    <2>. QED
      BY <1>0, <1>1, <2>1 DEF KnowsItself
  <1>2. CASE cmd[p] = "join"
    <2>1. Wanted(p) = [node |-> id[p], join |-> arg[p]]
      BY <1>2 DEF Wanted
    <2>. QED
      BY <1>0, <1>2, <2>1 DEF KnowsItself, Given
  <1>3. CASE cmd[p] = "run"
    <2>1. Wanted(p) = [cfg[p] EXCEPT !.join = arg[p]]
      BY <1>3 DEF Wanted
    <2>. QED
      BY <1>0, <1>3, <2>1 DEF KnowsItself, Given
  <1>. QED
    BY <1>0, <1>1, <1>2, <1>3 DEF Route

(* A command that begins keeps the types: it loads what it can read.       *)
LEMMA BeginTypes ==
  ASSUME TypeOK, NEW p \in Procs, NEW c \in Cmds, NEW a \in Args(c), Begin(p, c, a)
  PROVE  TypeOK'
PROOF
  <1>1. PICK l \in {"id", "open", "refused", "ask"} : c \in AllCmds /\ Begun(p, c, a, l)
    BY BeginStep
  <1>2. cfg' \in [Procs -> Configs]
    BY <1>1 DEF Begun, TypeOK
  <1>3. /\ cmd' \in [Procs -> AllCmds \cup {None}]
        /\ arg' \in [Procs -> Addrs \cup Models \cup {None}]
    BY <1>1 DEF Begun, Args, TypeOK
  <1>4. pc' = [pc EXCEPT ![p] = l] /\ UNCHANGED <<files, lock, id, seen, hist>>
    BY <1>1 DEF Begun
  <1>. QED
    BY <1>2, <1>3, <1>4 DEF TypeOK, Ended, files, lock, hist

(* The types.                                                              *)
LEMMA TypeStep ==
  ASSUME TypeOK, Routes, Identities, NEW p \in Procs, Step(p)
  PROVE  TypeOK'
PROOF
  <1> USE BootAssumption DEF files, lock, procs, hist, Goto, At, Close, Ended,
            TypeOK, Routes, Route, Given, Configs, Default, AllCmds
  <1>1. CASE \E c \in Cmds : \E a \in Args(c) : Begin(p, c, a)
    BY <1>1, BeginTypes
  <1>2. CASE ReadId(p)
    <2>1. CASE idFile = None
      BY <1>2, <2>1 DEF ReadId
    <2>2. CASE idFile # None
      <3>1. PICK l \in {"open", "save", "auto"} : pc' = [pc EXCEPT ![p] = l]
        BY <1>2, <2>2, IdentifiedStep DEF ReadId
      <3>. QED
        BY <1>2, <2>2, <3>1 DEF ReadId
    <2>. QED
      BY <2>1, <2>2
  <1>3. CASE TruncId(p)
    BY <1>3 DEF TruncId
  <1>4. CASE WriteId(p)
    BY <1>4 DEF WriteId, IdSaved, Identified
  <1>5. CASE Open(p)
    <2>1. CASE FreeToWrite
      <3>1. PICK l \in {"create", "close", "id", "store"} : pc' = [pc EXCEPT ![p] = l]
        BY <1>5, <2>1 DEF Open, Opened
      <3>2. /\ db' = [made |-> TRUE, cluster |-> db.cluster, peers |-> db.peers,
                      models |-> db.models]
            /\ writer' = p
            /\ UNCHANGED <<idFile, cfgFile, readers, cmd, cfg, id, arg, seen, hist>>
        BY <1>5, <2>1 DEF Open
      <3>. QED
        BY <3>1, <3>2
    <2>2. CASE ~FreeToWrite
      BY <1>5, <2>2 DEF Open
    <2>. QED
      BY <2>1, <2>2
  <1>6. CASE CloseEarly(p)
    BY <1>6 DEF CloseEarly
  <1>7. CASE CreateCluster(p)
    BY <1>7 DEF CreateCluster, HasCluster, SetClusterMeta
  <1>8. CASE SetPeers(p)
    <2>1. id[p] \in Procs
      BY <1>8 DEF SetPeers, Identities, KnowsItself, Routes, Route
    <2>. QED
      BY <1>8, <2>1 DEF SetPeers
  <1>9. CASE PutModel(p) \/ DeleteModel(p) \/ ListModels(p)
    <2>1. PICK s \in SUBSET Models : db' = [db EXCEPT !.models = s]
      BY <1>9 DEF PutModel, DeleteModel, ListModels, UseModels
    <2>. QED
      BY <1>9, <2>1 DEF PutModel, DeleteModel, ListModels, UseModels
  <1>10. CASE Ask(p)
    BY <1>10 DEF Ask, ConsoleAnswers
  <1>11. CASE OpenReadOnly(p)
    BY <1>11 DEF OpenReadOnly, FreeToRead
  <1>12. CASE Read(p)
    BY <1>12 DEF Read
  <1>13. CASE TruncConfig(p)
    BY <1>13 DEF TruncConfig, Alive
  <1>14. CASE WriteConfig(p)
    <2>1. Wanted(p) \in Configs
      BY <1>14, WantedStep DEF WriteConfig
    <2>2. Saved(p) \in {"ok", "discover", "joining", "boot"}
      BY <1>14 DEF WriteConfig, Saved, Routes, Route
    <2>3. cfgFile' \in {Wanted(p), Garbled} /\ cut' \in BOOLEAN
      BY <1>14 DEF WriteConfig
    <2>4. cfgFile' \in Configs \cup {Garbled}
      BY <2>1, <2>3
    <2>. QED
      BY <1>14, <2>2, <2>3, <2>4 DEF WriteConfig
  <1>15. CASE SaveIgnored(p)
    BY <1>15 DEF SaveIgnored, Saved
  <1>16. CASE Discover(p)
    BY <1>16 DEF Discover
  <1>17. CASE Join(p)
    BY <1>17 DEF Join
  <1>18. CASE AutoJoin(p)
    BY <1>18 DEF AutoJoin, LooksForOne
  <1>19. CASE Boot(p)
    BY <1>19 DEF Boot
  <1>20. CASE Die(p)
    BY <1>20 DEF Die, Alive
  <1>. QED
    BY <1>1, <1>2, <1>3, <1>4, <1>5, <1>6, <1>7, <1>8, <1>9, <1>10, <1>11, <1>12, <1>13,
       <1>14, <1>15, <1>16, <1>17, <1>18, <1>19, <1>20 DEF Step

(* Every command keeps to its route.                                       *)
LEMMA RoutesStep ==
  ASSUME TypeOK, Routes, NEW p \in Procs, Step(p)
  PROVE  Routes'
PROOF
  <1> USE BootAssumption DEF files, lock, procs, hist, Goto, At, Close, Ended,
            TypeOK, Routes, Route, Given, AllCmds
  <1>1. CASE \E c \in Cmds : \E a \in Args(c) : Begin(p, c, a)
    <2>1. PICK c \in Cmds : \E a \in Args(c) : Begin(p, c, a)
      BY <1>1
    <2>2. PICK a \in Args(c) : Begin(p, c, a)
      BY <2>1
    <2>3. PICK l \in {"id", "open", "refused", "ask"} : c \in AllCmds /\ Begun(p, c, a, l)
      BY <2>2, BeginStep
    <2>. QED
      BY <2>3 DEF Begun, Args
  <1>2. CASE ReadId(p)
    BY <1>2 DEF ReadId, Making, Identified
  <1>3. CASE TruncId(p)
    BY <1>3 DEF TruncId
  <1>4. CASE WriteId(p)
    BY <1>4 DEF WriteId, IdSaved, Identified
  <1>5. CASE Open(p)
    BY <1>5 DEF Open, Opened, FreeToWrite
  <1>6. CASE CloseEarly(p)
    BY <1>6 DEF CloseEarly
  <1>7. CASE CreateCluster(p)
    BY <1>7 DEF CreateCluster, HasCluster, SetClusterMeta
  <1>8. CASE SetPeers(p)
    BY <1>8 DEF SetPeers
  <1>9. CASE PutModel(p) \/ DeleteModel(p) \/ ListModels(p)
    BY <1>9 DEF PutModel, DeleteModel, ListModels, UseModels
  <1>10. CASE Ask(p)
    BY <1>10 DEF Ask, ConsoleAnswers
  <1>11. CASE OpenReadOnly(p)
    BY <1>11 DEF OpenReadOnly, FreeToRead
  <1>12. CASE Read(p)
    BY <1>12 DEF Read
  <1>13. CASE TruncConfig(p)
    BY <1>13 DEF TruncConfig, Alive
  <1>14. CASE WriteConfig(p)
    BY <1>14 DEF WriteConfig, Alive, Wanted, Saved
  <1>15. CASE SaveIgnored(p)
    BY <1>15 DEF SaveIgnored, Saved
  <1>16. CASE Discover(p)
    BY <1>16 DEF Discover
  <1>17. CASE Join(p)
    BY <1>17 DEF Join
  <1>18. CASE AutoJoin(p)
    BY <1>18 DEF AutoJoin, LooksForOne
  <1>19. CASE Boot(p)
    BY <1>19 DEF Boot
  <1>20. CASE Die(p)
    BY <1>20 DEF Die, Alive
  <1>. QED
    BY <1>1, <1>2, <1>3, <1>4, <1>5, <1>6, <1>7, <1>8, <1>9, <1>10, <1>11, <1>12, <1>13,
       <1>14, <1>15, <1>16, <1>17, <1>18, <1>19, <1>20 DEF Step

(* The lock: a process enters a critical section only by opening the file. *)
LEMMA LocksStep ==
  ASSUME TypeOK, Routes, Locks, NEW p \in Procs, Step(p)
  PROVE  Locks'
PROOF
  <1> USE BootAssumption DEF files, lock, procs, hist, Goto, At, Close, Ended,
            TypeOK, Routes, Route, Locks, Locked
  <1>1. CASE \E c \in Cmds : \E a \in Args(c) : Begin(p, c, a)
    <2>1. PICK c \in Cmds : \E a \in Args(c) : Begin(p, c, a)
      BY <1>1
    <2>2. PICK a \in Args(c) : Begin(p, c, a)
      BY <2>1
    <2>3. PICK l \in {"id", "open", "refused", "ask"} : c \in AllCmds /\ Begun(p, c, a, l)
      BY <2>2, BeginStep
    <2>. QED
      BY <2>3 DEF Begun
  <1>2. CASE ReadId(p)
    BY <1>2 DEF ReadId, Making, Identified
  <1>3. CASE TruncId(p)
    BY <1>3 DEF TruncId
  <1>4. CASE WriteId(p)
    BY <1>4 DEF WriteId, IdSaved, Identified
  <1>5. CASE Open(p)
    BY <1>5 DEF Open, Opened, FreeToWrite
  <1>6. CASE CloseEarly(p)
    BY <1>6 DEF CloseEarly
  <1>7. CASE CreateCluster(p)
    BY <1>7 DEF CreateCluster, HasCluster, SetClusterMeta
  <1>8. CASE SetPeers(p)
    BY <1>8 DEF SetPeers
  <1>9. CASE PutModel(p) \/ DeleteModel(p) \/ ListModels(p)
    BY <1>9 DEF PutModel, DeleteModel, ListModels, UseModels
  <1>10. CASE Ask(p)
    BY <1>10 DEF Ask, ConsoleAnswers
  <1>11. CASE OpenReadOnly(p)
    BY <1>11 DEF OpenReadOnly, FreeToRead
  <1>12. CASE Read(p)
    BY <1>12 DEF Read
  <1>13. CASE TruncConfig(p)
    BY <1>13 DEF TruncConfig, Alive
  <1>14. CASE WriteConfig(p)
    BY <1>14 DEF WriteConfig, Alive, Wanted, Saved
  <1>15. CASE SaveIgnored(p)
    BY <1>15 DEF SaveIgnored, Saved
  <1>16. CASE Discover(p)
    BY <1>16 DEF Discover
  <1>17. CASE Join(p)
    BY <1>17 DEF Join
  <1>18. CASE AutoJoin(p)
    BY <1>18 DEF AutoJoin, LooksForOne
  <1>19. CASE Boot(p)
    BY <1>19 DEF Boot
  <1>20. CASE Die(p)
    BY <1>20 DEF Die, Alive
  <1>. QED
    BY <1>1, <1>2, <1>3, <1>4, <1>5, <1>6, <1>7, <1>8, <1>9, <1>10, <1>11, <1>12, <1>13,
       <1>14, <1>15, <1>16, <1>17, <1>18, <1>19, <1>20 DEF Step

(* Ids are found or made before they are used.                             *)
LEMMA IdentitiesStep ==
  ASSUME TypeOK, Routes, Identities, NEW p \in Procs, Step(p)
  PROVE  Identities'
PROOF
  <1> USE BootAssumption DEF files, lock, procs, hist, Goto, At, Close, Ended,
            TypeOK, Routes, Route, Identities, KnowsItself, CanRun
  <1>1. CASE \E c \in Cmds : \E a \in Args(c) : Begin(p, c, a)
    <2>1. PICK c \in Cmds : \E a \in Args(c) : Begin(p, c, a)
      BY <1>1
    <2>2. PICK a \in Args(c) : Begin(p, c, a)
      BY <2>1
    <2>3. PICK l \in {"id", "open", "refused", "ask"} : c \in AllCmds /\ Begun(p, c, a, l)
      BY <2>2, BeginStep
    <2>. QED
      BY <2>3 DEF Begun, CanRun
  <1>2. CASE ReadId(p)
    BY <1>2 DEF ReadId, Making, Identified
  <1>3. CASE TruncId(p)
    BY <1>3 DEF TruncId
  <1>4. CASE WriteId(p)
    BY <1>4 DEF WriteId, IdSaved, Identified
  <1>5. CASE Open(p)
    BY <1>5 DEF Open, Opened, FreeToWrite
  <1>6. CASE CloseEarly(p)
    BY <1>6 DEF CloseEarly
  <1>7. CASE CreateCluster(p)
    BY <1>7 DEF CreateCluster, HasCluster, SetClusterMeta
  <1>8. CASE SetPeers(p)
    BY <1>8 DEF SetPeers
  <1>9. CASE PutModel(p) \/ DeleteModel(p) \/ ListModels(p)
    BY <1>9 DEF PutModel, DeleteModel, ListModels, UseModels
  <1>10. CASE Ask(p)
    BY <1>10 DEF Ask, ConsoleAnswers
  <1>11. CASE OpenReadOnly(p)
    BY <1>11 DEF OpenReadOnly, FreeToRead
  <1>12. CASE Read(p)
    BY <1>12 DEF Read
  <1>13. CASE TruncConfig(p)
    BY <1>13 DEF TruncConfig, Alive
  <1>14. CASE WriteConfig(p)
    BY <1>14 DEF WriteConfig, Alive, Wanted, Saved
  <1>15. CASE SaveIgnored(p)
    BY <1>15 DEF SaveIgnored, Saved
  <1>16. CASE Discover(p)
    BY <1>16 DEF Discover
  <1>17. CASE Join(p)
    BY <1>17 DEF Join
  <1>18. CASE AutoJoin(p)
    BY <1>18 DEF AutoJoin, LooksForOne
  <1>19. CASE Boot(p)
    BY <1>19 DEF Boot
  <1>20. CASE Die(p)
    BY <1>20 DEF Die, Alive
  <1>. QED
    BY <1>1, <1>2, <1>3, <1>4, <1>5, <1>6, <1>7, <1>8, <1>9, <1>10, <1>11, <1>12, <1>13,
       <1>14, <1>15, <1>16, <1>17, <1>18, <1>19, <1>20 DEF Step

(* An id is only made where there is none, by one at a time.               *)
LEMMA OneIdStep ==
  ASSUME TypeOK, Routes, Identities, OneId, NEW p \in Procs, Step(p)
  PROVE  OneId'
PROOF
  <1> USE BootAssumption DEF files, lock, procs, hist, Goto, At, Close, Ended,
            TypeOK, Routes, Route, Identities, KnowsItself, OneId, Making, Configs, Default
  <1>1. CASE \E c \in Cmds : \E a \in Args(c) : Begin(p, c, a)
    <2>1. PICK c \in Cmds : \E a \in Args(c) : Begin(p, c, a)
      BY <1>1
    <2>2. PICK a \in Args(c) : Begin(p, c, a)
      BY <2>1
    <2>3. PICK l \in {"id", "open", "refused", "ask"} : c \in AllCmds /\ Begun(p, c, a, l)
      BY <2>2, BeginStep
    <2>5. /\ ~Making(p)' /\ UNCHANGED <<idFile, cfgFile, db, id, raced>>
          /\ cfg' \in {cfg, [cfg EXCEPT ![p] = cfgFile]}
          /\ \A q \in Procs : Making(q)' => Making(q)
      BY <2>3 DEF Begun
    <2>6. \A q \in Procs : cfg'[q].node \in {cfg[q].node, cfgFile.node}
      BY <2>5
    <2>. QED
      BY <2>5, <2>6
  <1>2. CASE ReadId(p)
    <2>1. CASE idFile = None
      <3>1. pc' = [pc EXCEPT ![p] = "truncid"] /\ id' = id
        BY <1>2, <2>1 DEF ReadId
      <3>2. CASE \E q \in Procs : Making(q)
        BY <1>2, <2>1, <3>2 DEF ReadId
      <3>3. CASE ~\E q \in Procs : Making(q)
        <4>1. \A q \in Procs : Making(q)' => q = p
          BY <3>1, <3>3
        <4>. QED
          BY <1>2, <2>1, <3>1, <4>1 DEF ReadId
      <3>. QED
        BY <3>2, <3>3
    <2>2. CASE idFile # None
      <3>1. /\ id' = [id EXCEPT ![p] = idFile]
            /\ UNCHANGED <<idFile, cfgFile, db, cfg, raced>>
        BY <1>2, <2>2 DEF ReadId
      <3>2. PICK l \in {"open", "save", "auto"} : pc' = [pc EXCEPT ![p] = l]
        BY <1>2, <2>2, IdentifiedStep DEF ReadId
      <3>3. \A q \in Procs : Making(q)' => Making(q)
        BY <3>2
      <3>. QED
        BY <3>1, <3>3
    <2>. QED
      BY <2>1, <2>2
  <1>3. CASE TruncId(p)
    BY <1>3 DEF TruncId
  <1>4. CASE WriteId(p)
    BY <1>4 DEF WriteId, IdSaved, Identified
  <1>5. CASE Open(p)
    BY <1>5 DEF Open, Opened, FreeToWrite
  <1>6. CASE CloseEarly(p)
    BY <1>6 DEF CloseEarly
  <1>7. CASE CreateCluster(p)
    BY <1>7 DEF CreateCluster, HasCluster, SetClusterMeta
  <1>8. CASE SetPeers(p)
    BY <1>8 DEF SetPeers
  <1>9. CASE PutModel(p) \/ DeleteModel(p) \/ ListModels(p)
    BY <1>9 DEF PutModel, DeleteModel, ListModels, UseModels
  <1>10. CASE Ask(p)
    BY <1>10 DEF Ask, ConsoleAnswers
  <1>11. CASE OpenReadOnly(p)
    BY <1>11 DEF OpenReadOnly, FreeToRead
  <1>12. CASE Read(p)
    BY <1>12 DEF Read
  <1>13. CASE TruncConfig(p)
    BY <1>13 DEF TruncConfig, Alive
  <1>14. CASE WriteConfig(p)
    <2>1. cfgFile' \in {Wanted(p), Garbled} /\ UNCHANGED <<idFile, db, id, cfg, raced>>
      BY <1>14 DEF WriteConfig
    <2>2. cfgFile'.node \in {None, id[p], cfg[p].node}
      <3>1. Wanted(p).node \in {id[p], cfg[p].node}
        BY <1>14 DEF WriteConfig, Wanted
      <3>. QED
        BY <2>1, <3>1 DEF Garbled
    <2>3. \A q \in Procs : Making(q)' => Making(q)
      BY <1>14 DEF WriteConfig, Saved
    <2>. QED
      BY <2>1, <2>2, <2>3
  <1>15. CASE SaveIgnored(p)
    BY <1>15 DEF SaveIgnored, Saved
  <1>16. CASE Discover(p)
    BY <1>16 DEF Discover
  <1>17. CASE Join(p)
    BY <1>17 DEF Join
  <1>18. CASE AutoJoin(p)
    BY <1>18 DEF AutoJoin, LooksForOne
  <1>19. CASE Boot(p)
    BY <1>19 DEF Boot
  <1>20. CASE Die(p)
    BY <1>20 DEF Die, Alive
  <1>. QED
    BY <1>1, <1>2, <1>3, <1>4, <1>5, <1>6, <1>7, <1>8, <1>9, <1>10, <1>11, <1>12, <1>13,
       <1>14, <1>15, <1>16, <1>17, <1>18, <1>19, <1>20 DEF Step

(* A cluster gets its nodes under the lock.                                *)
LEMMA WholeStep ==
  ASSUME TypeOK, Routes, Locks, Identities, Whole, NEW p \in Procs, Step(p)
  PROVE  Whole'
PROOF
  <1> USE BootAssumption DEF files, lock, procs, hist, Goto, At, Close, Ended,
            TypeOK, Routes, Route, Locks, Locked, Identities, KnowsItself, Whole
  <1>1. CASE \E c \in Cmds : \E a \in Args(c) : Begin(p, c, a)
    <2>1. PICK c \in Cmds : \E a \in Args(c) : Begin(p, c, a)
      BY <1>1
    <2>2. PICK a \in Args(c) : Begin(p, c, a)
      BY <2>1
    <2>3. PICK l \in {"id", "open", "refused", "ask"} : c \in AllCmds /\ Begun(p, c, a, l)
      BY <2>2, BeginStep
    <2>5. /\ UNCHANGED <<db, torn>>
          /\ \A q \in Procs : pc'[q] = "peers" <=> pc[q] = "peers"
      BY <2>3 DEF Begun
    <2>. QED
      BY <2>5
  <1>2. CASE ReadId(p)
    BY <1>2 DEF ReadId, Making, Identified
  <1>3. CASE TruncId(p)
    BY <1>3 DEF TruncId
  <1>4. CASE WriteId(p)
    BY <1>4 DEF WriteId, IdSaved, Identified
  <1>5. CASE Open(p)
    BY <1>5 DEF Open, Opened, FreeToWrite
  <1>6. CASE CloseEarly(p)
    BY <1>6 DEF CloseEarly
  <1>7. CASE CreateCluster(p)
    BY <1>7 DEF CreateCluster, HasCluster, SetClusterMeta
  <1>8. CASE SetPeers(p)
    BY <1>8 DEF SetPeers
  <1>9. CASE PutModel(p) \/ DeleteModel(p) \/ ListModels(p)
    BY <1>9 DEF PutModel, DeleteModel, ListModels, UseModels
  <1>10. CASE Ask(p)
    BY <1>10 DEF Ask, ConsoleAnswers
  <1>11. CASE OpenReadOnly(p)
    BY <1>11 DEF OpenReadOnly, FreeToRead
  <1>12. CASE Read(p)
    BY <1>12 DEF Read
  <1>13. CASE TruncConfig(p)
    BY <1>13 DEF TruncConfig, Alive
  <1>14. CASE WriteConfig(p)
    BY <1>14 DEF WriteConfig, Alive, Wanted, Saved
  <1>15. CASE SaveIgnored(p)
    BY <1>15 DEF SaveIgnored, Saved
  <1>16. CASE Discover(p)
    BY <1>16 DEF Discover
  <1>17. CASE Join(p)
    BY <1>17 DEF Join
  <1>18. CASE AutoJoin(p)
    BY <1>18 DEF AutoJoin, LooksForOne
  <1>19. CASE Boot(p)
    BY <1>19 DEF Boot
  <1>20. CASE Die(p)
    <2>1. CASE torn'
      BY <1>20, <2>1, DeadStep DEF Die
    <2>2. CASE ~torn'
      <3>1. ~torn /\ pc[p] # "peers"
        BY <1>20, <2>2 DEF Die, Routes, Route
      <3>. QED
        BY <1>20, <3>1, DeadStep DEF Die
    <2>. QED
      BY <2>1, <2>2
  <1>. QED
    BY <1>1, <1>2, <1>3, <1>4, <1>5, <1>6, <1>7, <1>8, <1>9, <1>10, <1>11, <1>12, <1>13,
       <1>14, <1>15, <1>16, <1>17, <1>18, <1>19, <1>20 DEF Step

(* Whoever makes a cluster or empties the configuration is about to write. *)
LEMMA NamedStep ==
  ASSUME TypeOK, Routes, Identities, Named, NEW p \in Procs, Step(p)
  PROVE  Named'
PROOF
  <1> USE BootAssumption DEF files, lock, procs, hist, Goto, At, Close, Ended,
            TypeOK, Routes, Route, Identities, KnowsItself, Named, Configs, Default, CanRun
  <1>1. CASE \E c \in Cmds : \E a \in Args(c) : Begin(p, c, a)
    <2>1. PICK c \in Cmds : \E a \in Args(c) : Begin(p, c, a)
      BY <1>1
    <2>2. PICK a \in Args(c) : Begin(p, c, a)
      BY <2>1
    <2>3. PICK l \in {"id", "open", "refused", "ask"} : c \in AllCmds /\ Begun(p, c, a, l)
      BY <2>2, BeginStep
    <2>. QED
      BY <2>3 DEF Begun
  <1>2. CASE ReadId(p)
    BY <1>2 DEF ReadId, Making, Identified
  <1>3. CASE TruncId(p)
    BY <1>3 DEF TruncId
  <1>4. CASE WriteId(p)
    BY <1>4 DEF WriteId, IdSaved, Identified
  <1>5. CASE Open(p)
    BY <1>5 DEF Open, Opened, FreeToWrite
  <1>6. CASE CloseEarly(p)
    BY <1>6 DEF CloseEarly
  <1>7. CASE CreateCluster(p)
    BY <1>7 DEF CreateCluster, HasCluster, SetClusterMeta
  <1>8. CASE SetPeers(p)
    BY <1>8 DEF SetPeers
  <1>9. CASE PutModel(p) \/ DeleteModel(p) \/ ListModels(p)
    BY <1>9 DEF PutModel, DeleteModel, ListModels, UseModels
  <1>10. CASE Ask(p)
    BY <1>10 DEF Ask, ConsoleAnswers
  <1>11. CASE OpenReadOnly(p)
    BY <1>11 DEF OpenReadOnly, FreeToRead
  <1>12. CASE Read(p)
    BY <1>12 DEF Read
  <1>13. CASE TruncConfig(p)
    BY <1>13 DEF TruncConfig, Alive
  <1>14. CASE WriteConfig(p)
    BY <1>14 DEF WriteConfig, Alive, Wanted, Saved
  <1>15. CASE SaveIgnored(p)
    <2>1. CASE pc[p] = "refill"
      BY <1>15, <2>1 DEF SaveIgnored
    <2>2. CASE pc[p] = "resave"
      BY <1>15, <2>2 DEF SaveIgnored, Saved, Routes, Route
    <2>. QED
      BY <1>15, <2>1, <2>2 DEF SaveIgnored
  <1>16. CASE Discover(p)
    BY <1>16 DEF Discover
  <1>17. CASE Join(p)
    BY <1>17 DEF Join
  <1>18. CASE AutoJoin(p)
    BY <1>18 DEF AutoJoin, LooksForOne
  <1>19. CASE Boot(p)
    BY <1>19 DEF Boot
  <1>20. CASE Die(p)
    <2>1. SUFFICES ASSUME db.cluster # None, ~torn', ~cut', cfgFile.node = None
                   PROVE  \/ \E q \in Procs : /\ cmd[q] = "init"
                                               /\ pc'[q] \in {"peers", "save", "fill"}
                          \/ \E q \in Procs : pc'[q] \in {"fill", "refill"}
      BY <1>20 DEF Die
    <2>2. /\ ~torn /\ ~cut
          /\ ~(cmd[p] = "init" /\ pc[p] \in {"peers", "save", "fill"})
          /\ pc[p] \notin {"fill", "refill"}
      BY <1>20, <2>1 DEF Die
    <2>. QED
      BY <2>1, <2>2, <1>20, DeadStep
  <1>. QED
    BY <1>1, <1>2, <1>3, <1>4, <1>5, <1>6, <1>7, <1>8, <1>9, <1>10, <1>11, <1>12, <1>13,
       <1>14, <1>15, <1>16, <1>17, <1>18, <1>19, <1>20 DEF Step

(* Nobody else has the lock while a daemon serves.                         *)
LEMMA ServedStep ==
  ASSUME TypeOK, Routes, Locks, Served, NEW p \in Procs, Step(p)
  PROVE  Served'
PROOF
  <1> USE BootAssumption DEF files, lock, procs, hist, Goto, At, Close, Ended,
            TypeOK, Routes, Route, Locks, Locked, Served, DaemonHasModels
  <1>1. CASE \E c \in Cmds : \E a \in Args(c) : Begin(p, c, a)
    <2>1. PICK c \in Cmds : \E a \in Args(c) : Begin(p, c, a)
      BY <1>1
    <2>2. PICK a \in Args(c) : Begin(p, c, a)
      BY <2>1
    <2>3. PICK l \in {"id", "open", "refused", "ask"} : c \in AllCmds /\ Begun(p, c, a, l)
      BY <2>2, BeginStep
    <2>. QED
      BY <2>3 DEF Begun
  <1>2. CASE ReadId(p)
    BY <1>2 DEF ReadId, Making, Identified
  <1>3. CASE TruncId(p)
    BY <1>3 DEF TruncId
  <1>4. CASE WriteId(p)
    BY <1>4 DEF WriteId, IdSaved, Identified
  <1>5. CASE Open(p)
    BY <1>5 DEF Open, Opened, FreeToWrite
  <1>6. CASE CloseEarly(p)
    BY <1>6 DEF CloseEarly
  <1>7. CASE CreateCluster(p)
    BY <1>7 DEF CreateCluster, HasCluster, SetClusterMeta
  <1>8. CASE SetPeers(p)
    BY <1>8 DEF SetPeers
  <1>9. CASE PutModel(p) \/ DeleteModel(p) \/ ListModels(p)
    BY <1>9 DEF PutModel, DeleteModel, ListModels, UseModels
  <1>10. CASE Ask(p)
    BY <1>10 DEF Ask, ConsoleAnswers
  <1>11. CASE OpenReadOnly(p)
    BY <1>11 DEF OpenReadOnly, FreeToRead
  <1>12. CASE Read(p)
    BY <1>12 DEF Read
  <1>13. CASE TruncConfig(p)
    BY <1>13 DEF TruncConfig, Alive
  <1>14. CASE WriteConfig(p)
    BY <1>14 DEF WriteConfig, Alive, Wanted, Saved
  <1>15. CASE SaveIgnored(p)
    BY <1>15 DEF SaveIgnored, Saved
  <1>16. CASE Discover(p)
    BY <1>16 DEF Discover
  <1>17. CASE Join(p)
    BY <1>17 DEF Join
  <1>18. CASE AutoJoin(p)
    BY <1>18 DEF AutoJoin, LooksForOne
  <1>19. CASE Boot(p)
    BY <1>19 DEF Boot
  <1>20. CASE Die(p)
    BY <1>20 DEF Die, Alive
  <1>. QED
    BY <1>1, <1>2, <1>3, <1>4, <1>5, <1>6, <1>7, <1>8, <1>9, <1>10, <1>11, <1>12, <1>13,
       <1>14, <1>15, <1>16, <1>17, <1>18, <1>19, <1>20 DEF Step

(* A write of the configuration leaves those that have loaded it behind.   *)
LEMMA FreshStep ==
  ASSUME TypeOK, Routes, Fresh, NEW p \in Procs, Step(p)
  PROVE  Fresh'
PROOF
  <1> USE BootAssumption DEF files, lock, procs, hist, Goto, At, Close, Ended,
            TypeOK, Routes, Route, Fresh, Alive, Configs
  <1>1. CASE \E c \in Cmds : \E a \in Args(c) : Begin(p, c, a)
    <2>1. PICK c \in Cmds : \E a \in Args(c) : Begin(p, c, a)
      BY <1>1
    <2>2. PICK a \in Args(c) : Begin(p, c, a)
      BY <2>1
    <2>3. PICK l \in {"id", "open", "refused", "ask"} : c \in AllCmds /\ Begun(p, c, a, l)
      BY <2>2, BeginStep
    <2>. QED
      BY <2>3 DEF Begun
  <1>2. CASE ReadId(p)
    BY <1>2 DEF ReadId, Making, Identified
  <1>3. CASE TruncId(p)
    BY <1>3 DEF TruncId
  <1>4. CASE WriteId(p)
    BY <1>4 DEF WriteId, IdSaved, Identified
  <1>5. CASE Open(p)
    BY <1>5 DEF Open, Opened, FreeToWrite
  <1>6. CASE CloseEarly(p)
    BY <1>6 DEF CloseEarly
  <1>7. CASE CreateCluster(p)
    BY <1>7 DEF CreateCluster, HasCluster, SetClusterMeta
  <1>8. CASE SetPeers(p)
    BY <1>8 DEF SetPeers
  <1>9. CASE PutModel(p) \/ DeleteModel(p) \/ ListModels(p)
    BY <1>9 DEF PutModel, DeleteModel, ListModels, UseModels
  <1>10. CASE Ask(p)
    BY <1>10 DEF Ask, ConsoleAnswers
  <1>11. CASE OpenReadOnly(p)
    BY <1>11 DEF OpenReadOnly, FreeToRead
  <1>12. CASE Read(p)
    BY <1>12 DEF Read
  <1>13. CASE TruncConfig(p)
    BY <1>13 DEF TruncConfig, Alive
  <1>14. CASE WriteConfig(p)
    BY <1>14 DEF WriteConfig, Alive, Wanted, Saved
  <1>15. CASE SaveIgnored(p)
    BY <1>15 DEF SaveIgnored, Saved
  <1>16. CASE Discover(p)
    BY <1>16 DEF Discover
  <1>17. CASE Join(p)
    BY <1>17 DEF Join
  <1>18. CASE AutoJoin(p)
    BY <1>18 DEF AutoJoin, LooksForOne
  <1>19. CASE Boot(p)
    BY <1>19 DEF Boot
  <1>20. CASE Die(p)
    BY <1>20 DEF Die, Alive
  <1>. QED
    BY <1>1, <1>2, <1>3, <1>4, <1>5, <1>6, <1>7, <1>8, <1>9, <1>10, <1>11, <1>12, <1>13,
       <1>14, <1>15, <1>16, <1>17, <1>18, <1>19, <1>20 DEF Step

-----------------------------------------------------------------------------
LEMMA InitIInv == Init => IInv
PROOF
  <1> SUFFICES ASSUME Init
               PROVE  IInv
    OBVIOUS
  <1>1. TypeOK
    BY DEF Init, TypeOK, Configs, Default
  <1>2. Routes /\ Locks /\ Identities
    BY DEF Init, Routes, Route, Given, Locks, Locked, Identities, KnowsItself
  <1>3. OneId
    BY DEF Init, OneId, Making, Default
  <1>4. Whole /\ Named /\ Served /\ Fresh
    BY DEF Init, Whole, Named, Served, DaemonHasModels, Fresh, At
  <1>. QED
    BY <1>1, <1>2, <1>3, <1>4 DEF IInv

LEMMA NextIInv == IInv /\ [Next]_vars => IInv'
PROOF
  <1>1. ASSUME IInv, NEW p \in Procs, Step(p)
        PROVE  IInv'
    BY <1>1, TypeStep, RoutesStep, LocksStep, IdentitiesStep, OneIdStep, WholeStep,
       NamedStep, ServedStep, FreshStep DEF IInv
  <1>2. ASSUME IInv, UNCHANGED vars
        PROVE  IInv'
    BY <1>2 DEF IInv, vars, files, lock, procs, hist, TypeOK, Routes, Route, Given, Locks,
      Locked, Identities, KnowsItself, OneId, Making, Whole, Named, Served, DaemonHasModels,
      Fresh, At, Alive
  <1>. QED
    BY <1>1, <1>2 DEF Next

LEMMA Invariance == Spec => []IInv
PROOF
  BY InitIInv, NextIInv, PTL DEF Spec

-----------------------------------------------------------------------------
(* Every variable has its type. *)
THEOREM TypeCorrect == Spec => []TypeOK
PROOF
  <1>1. IInv => TypeOK
    BY DEF IInv
  <1>. QED
    BY <1>1, Invariance, PTL

(* node_id, the configuration and the list of nodes name one id, unless    *)
(* two commands have made one at once.                                     *)
THEOREM IdsAgreeHolds == Spec => []IdsAgree
PROOF
  <1>1. IInv => IdsAgree
    BY DEF IInv, OneId, IdsAgree
  <1>. QED
    BY <1>1, Invariance, PTL

(* A machine that has a cluster can run, unless an init or a write of the  *)
(* configuration was cut short.                                            *)
THEOREM ClusterCanRunHolds == Spec => []ClusterCanRun
PROOF
  <1>1. IInv => ClusterCanRun
    BY DEF IInv, Whole, Named, ClusterCanRun
  <1>. QED
    BY <1>1, Invariance, PTL

(* A status that reads the database sees a whole cluster or none. *)
THEOREM StatusIsWholeHolds == Spec => []StatusIsWhole
PROOF
  <1>1. IInv => StatusIsWhole
    BY BootAssumption DEF IInv, Whole, Locks, Locked, StatusIsWhole
  <1>. QED
    BY <1>1, Invariance, PTL

(* No command changes the models behind a daemon that serves. *)
THEOREM DaemonHasModelsHolds == Spec => []DaemonHasModels
PROOF
  <1>1. IInv => DaemonHasModels
    BY DEF IInv, Served
  <1>. QED
    BY <1>1, Invariance, PTL

(* A cluster that was made is there for good. *)
THEOREM ClusterIsForeverHolds == Spec => ClusterIsForever
PROOF
  <1>1. IInv /\ [Next]_vars => [db.cluster # None => db'.cluster = db.cluster]_vars
    <2>1. ASSUME TypeOK, NEW p \in Procs, Step(p), db.cluster # None
          PROVE  db'.cluster = db.cluster
      BY <2>1 DEF Step, TypeOK, files, Begin, ReadId, TruncId, WriteId, Open, CloseEarly,
        CreateCluster, HasCluster, SetPeers, PutModel, DeleteModel, ListModels, UseModels, Ask,
        OpenReadOnly, Read, TruncConfig, WriteConfig, SaveIgnored, Discover, Join, AutoJoin,
        Boot, Die
    <2>. QED
      BY <2>1 DEF IInv, Next
  <1>. QED
    BY <1>1, Invariance, PTL DEF Spec, ClusterIsForever

(* An address is replaced by a daemon only if it was saved after the       *)
(* daemon had loaded the configuration.                                    *)
THEOREM AddressIsKeptHolds == Spec => AddressIsKept
PROOF
  <1>1. IInv /\ [Next]_vars =>
          [\A p \in Procs : At(p, "run", "resave") /\ pc'[p] = "refill" /\ cfgFile.join # None
             => p \in behind]_vars
    BY DEF IInv, Fresh, At
  <1>. QED
    BY <1>1, Invariance, PTL DEF Spec, AddressIsKept
==============================================================================
