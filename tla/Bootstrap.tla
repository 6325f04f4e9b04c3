------------------------------ MODULE Bootstrap ------------------------------
(***************************************************************************)
(* The commands of meshserve on one machine (cmd/meshserve): init, join,   *)
(* run, model register, remove and list, and status.  Each invocation is a *)
(* process of its own.  They meet in three files: node_id and              *)
(* meshserve.yaml, written by truncating and filling without any lock, and *)
(* the bbolt database, which a process opens under the file's lock,        *)
(* exclusive or shared, and gives up after two seconds.  A process may die *)
(* between any two steps.                                                  *)
(***************************************************************************)
EXTENDS Naturals, FiniteSets

CONSTANTS
  Procs,    \* invocations; one that makes an id or a cluster names it
  Addrs,    \* addresses of other nodes
  Models,   \* names of models
  Cmds,     \* the commands that are given
  None

AllCmds == {"init", "join", "run", "register", "remove", "list", "status"}

ASSUME BootAssumption ==
  /\ Cmds \subseteq AllCmds
  /\ None \notin Procs \cup Addrs \cup Models

VARIABLES
  idFile,   \* node_id; None when it is missing or empty
  cfgFile,  \* meshserve.yaml, likewise Default
  db,       \* the database
  writer,   \* the process that has it open, and locked
  readers,  \* those that have it open read only
  cmd, pc,  \* what each process runs, and where it is
  cfg,      \* the configuration it has loaded
  id,       \* its nodeID
  arg,      \* the address it joins, or the model's name
  seen,     \* the models that a daemon has deployed at its start
  raced,    \* history: two processes have made an id at the same time
  torn,     \* history: an init died after it had made its cluster
  cut,      \* history: the last write of the configuration was cut short or mixed
  behind    \* history: processes whose loaded configuration is out of date

files == <<idFile, cfgFile, db>>
lock  == <<writer, readers>>
procs == <<cmd, pc, cfg, id, arg, seen>>
hist  == <<raced, torn, cut, behind>>
vars  == <<files, lock, procs, hist>>

(* config.Default, and config.Load of a file that is missing or empty; and *)
(* a file that config.Load cannot parse.                                   *)
Default == [node |-> None, join |-> None]
Garbled == [node |-> None, join |-> "garbled"]

Init ==
  /\ idFile = None /\ cfgFile = Default
  /\ db = [made |-> FALSE, cluster |-> None, peers |-> {}, models |-> {}]
  /\ writer = None /\ readers = {}
  /\ cmd = [p \in Procs |-> None]
  /\ pc = [p \in Procs |-> "idle"]
  /\ cfg = [p \in Procs |-> Default]
  /\ id = [p \in Procs |-> None]
  /\ arg = [p \in Procs |-> None]
  /\ seen = [p \in Procs |-> {}]
  /\ raced = FALSE /\ torn = FALSE /\ cut = FALSE /\ behind = {}

Ended   == {"ok", "refused", "locked", "dead"}
Alive(p) == pc[p] \notin Ended \cup {"idle"}
At(p, c, l) == cmd[p] = c /\ pc[p] = l
Goto(p, l) == pc' = [pc EXCEPT ![p] = l]

(* A process that ends closes the database. *)
Close(p) ==
  /\ writer' = IF writer = p THEN None ELSE writer
  /\ readers' = readers \ {p}

-----------------------------------------------------------------------------
(* Validate refuses a configuration that names no node.  Every command     *)
(* begins with loadConfig; only run validates what it has loaded.          *)
CanRun(c) == c.node # None

Begin(p, c, a) ==
  /\ pc[p] = "idle"
  /\ cmd' = [cmd EXCEPT ![p] = c]
  /\ arg' = [arg EXCEPT ![p] = a]
  /\ \/ /\ cfgFile = Garbled
        /\ Goto(p, "refused")
        /\ UNCHANGED cfg
     \/ /\ cfgFile # Garbled
        /\ cfg' = [cfg EXCEPT ![p] = cfgFile]
        /\ Goto(p, CASE c \in {"init", "join"} -> "id"
                     [] c = "run" -> IF CanRun(cfgFile) THEN "open" ELSE "refused"
                     [] c \in {"register", "remove", "list"} -> "open"
                     [] c = "status" -> "ask")
  /\ UNCHANGED <<files, lock, id, seen, hist>>

(* What a command is given.  The mutant mixes up the two kinds. *)
ArgsSwapped(c) == IF c = "join" THEN Models ELSE Addrs
Args(c) == CASE c = "join" -> Addrs \cup {None}
             [] c \in {"register", "remove"} -> Models
             [] OTHER -> {None}

(* ensureNodeID takes the id in the file, or makes one. *)
Making(p) == pc[p] \in {"truncid", "writeid"}

(* join opens the database, and closes it again, if it is given a token. *)
Identified(p) ==
  CASE cmd[p] = "init" -> {"open"}
    [] cmd[p] = "join" -> {"open", "save"}
    [] cmd[p] = "run"  -> {"auto"}

ReadId(p) ==
  /\ pc[p] = "id"
  /\ \/ /\ idFile # None
        /\ id' = [id EXCEPT ![p] = idFile]
        /\ \E l \in Identified(p) : Goto(p, l)
        /\ UNCHANGED raced
     \/ /\ idFile = None
        /\ Goto(p, "truncid")
        /\ raced' = (raced \/ \E q \in Procs : Making(q))
        /\ UNCHANGED id
  /\ UNCHANGED <<files, lock, cmd, cfg, arg, seen, torn, cut, behind>>

(* os.WriteFile truncates ... *)
TruncId(p) ==
  /\ pc[p] = "truncid"
  /\ idFile' = None
  /\ Goto(p, "writeid")
  /\ UNCHANGED <<cfgFile, db, lock, cmd, cfg, id, arg, seen, hist>>

(* ... and fills.  The mutant forgets to. *)
IdUnsaved(p) == UNCHANGED idFile
IdSaved(p)   == idFile' = p
WriteId(p) ==
  /\ pc[p] = "writeid"
  /\ IdSaved(p)
  /\ id' = [id EXCEPT ![p] = p]
  /\ \E l \in Identified(p) : Goto(p, l)
  /\ UNCHANGED <<cfgFile, db, lock, cmd, cfg, arg, seen, hist>>

-----------------------------------------------------------------------------
(* The database. *)

(* The lock of the file: one writer or any number of readers.  The mutants *)
(* look for other writers only, or for none.                               *)
Unlocked     == TRUE
NoWriter     == writer = None
FreeToWrite  == writer = None /\ readers = {}
FreeToRead   == writer = None

(* raftstore.Open. *)
Opened(p) ==
  CASE cmd[p] = "init" -> "create"
    [] cmd[p] = "join" -> "close"
    [] cmd[p] = "run"  -> "id"
    [] OTHER -> "store"

Open(p) ==
  /\ pc[p] = "open"
  /\ \/ /\ FreeToWrite
        /\ writer' = p
        /\ db' = [db EXCEPT !.made = TRUE]
        /\ Goto(p, Opened(p))
     \/ /\ ~FreeToWrite
        /\ Goto(p, "locked")
        /\ UNCHANGED <<writer, db>>
  /\ UNCHANGED <<idFile, cfgFile, readers, cmd, cfg, id, arg, seen, hist>>

(* join closes it at once. *)
CloseEarly(p) ==
  /\ At(p, "join", "close")
  /\ Close(p)
  /\ Goto(p, "save")
  /\ UNCHANGED <<files, cmd, cfg, id, arg, seen, hist>>

(* init refuses if there is a cluster, ...  The mutant does not look. *)
SetClusterMeta(p) == db' = [db EXCEPT !.cluster = p]
NotLooking == FALSE
HasCluster == db.cluster # None
CreateCluster(p) ==
  /\ At(p, "init", "create")
  /\ \/ /\ HasCluster
        /\ Close(p)
        /\ Goto(p, "refused")
        /\ UNCHANGED db
     \/ /\ ~HasCluster
        /\ SetClusterMeta(p)
        /\ Goto(p, "peers")
        /\ UNCHANGED lock
  /\ UNCHANGED <<idFile, cfgFile, cmd, cfg, id, arg, seen, hist>>

(* ... and writes the list of nodes in a transaction of its own. *)
SetPeers(p) ==
  /\ At(p, "init", "peers")
  /\ db' = [db EXCEPT !.peers = {id[p]}]
  /\ Goto(p, "save")
  /\ UNCHANGED <<idFile, cfgFile, lock, cmd, cfg, id, arg, seen, hist>>

(* model register, remove and list, which takes the same lock. *)
UseModels(p, c, s) ==
  /\ At(p, c, "store")
  /\ db' = [db EXCEPT !.models = s]
  /\ Close(p)
  /\ Goto(p, "ok")
  /\ UNCHANGED <<idFile, cfgFile, cmd, cfg, id, arg, seen, hist>>

PutModel(p)    == UseModels(p, "register", db.models \cup {arg[p]})
DeleteModel(p) == UseModels(p, "remove", db.models \ {arg[p]})
ListModels(p)  == UseModels(p, "list", db.models)

(* status asks a daemon that serves, or, when it gets no answer, reads the *)
(* database itself.                                                        *)
ConsoleAnswers == \E d \in Procs : pc[d] = "serve"
Ask(p) ==
  /\ At(p, "status", "ask")
  /\ \/ ConsoleAnswers /\ Goto(p, "ok")
     \/ Goto(p, "openro")
  /\ UNCHANGED <<files, lock, cmd, cfg, id, arg, seen, hist>>

OpenReadOnly(p) ==
  /\ At(p, "status", "openro")
  /\ IF db.made /\ FreeToRead
     THEN readers' = readers \cup {p} /\ Goto(p, "read")
     ELSE UNCHANGED readers /\ Goto(p, "locked")
  /\ UNCHANGED <<files, writer, cmd, cfg, id, arg, seen, hist>>

Read(p) ==
  /\ At(p, "status", "read")
  /\ Close(p)
  /\ Goto(p, "ok")
  /\ UNCHANGED <<files, cmd, cfg, id, arg, seen, hist>>

-----------------------------------------------------------------------------
(* The configuration. *)

(* What a command saves: init and join name the node and the address to    *)
(* join, run adds an address to what it has loaded.  The mutant of init    *)
(* leaves the node out.                                                    *)
WantedBare(p) ==
  IF cmd[p] = "init" THEN Default
  ELSE [node |-> IF cmd[p] = "join" THEN id[p] ELSE cfg[p].node, join |-> arg[p]]
Wanted(p) ==
  CASE cmd[p] = "init" -> [node |-> id[p], join |-> None]
    [] cmd[p] = "join" -> [node |-> id[p], join |-> arg[p]]
    [] cmd[p] = "run"  -> [cfg[p] EXCEPT !.join = arg[p]]

Saved(p) ==
  CASE cmd[p] = "init" -> "ok"
    [] cmd[p] = "join" -> IF arg[p] = None THEN "discover" ELSE "joining"
    [] cmd[p] = "run"  -> "boot"

(* saveConfig truncates ... *)
TruncConfig(p) ==
  /\ pc[p] \in {"save", "resave"}
  /\ cfgFile' = Default
  /\ Goto(p, IF pc[p] = "save" THEN "fill" ELSE "refill")
  /\ behind' = behind \cup {q \in Procs \ {p} : Alive(q)}
  /\ UNCHANGED <<idFile, db, lock, cmd, cfg, id, arg, seen, raced, torn, cut>>

(* ... and fills.  What another has filled in since is written over from   *)
(* the beginning, and its tail stays if it was longer.                     *)
WriteConfig(p) ==
  /\ pc[p] \in {"fill", "refill"}
  /\ \/ cfgFile' = Wanted(p) /\ cut' = FALSE
     \/ cfgFile \notin {Default, Wanted(p)} /\ cfgFile' = Garbled /\ cut' = TRUE
  /\ Goto(p, Saved(p))
  /\ IF cmd[p] = "init" THEN Close(p) ELSE UNCHANGED lock
  /\ behind' = behind \cup {q \in Procs \ {p} : Alive(q)}
  /\ UNCHANGED <<idFile, db, cmd, cfg, id, arg, seen, raced, torn>>

(* autoJoin, and join when it has discovered an address, ignore that they  *)
(* could not save it.                                                      *)
SaveIgnored(p) ==
  /\ pc[p] \in {"resave", "refill"}
  /\ Goto(p, Saved(p))
  /\ cut' = (cut \/ pc[p] = "refill")
  /\ UNCHANGED <<files, lock, cmd, cfg, id, arg, seen, raced, torn, behind>>

(* DiscoverFirst, and a second saveConfig. *)
Discover(p) ==
  /\ At(p, "join", "discover")
  /\ \/ /\ \E a \in Addrs : arg' = [arg EXCEPT ![p] = a]
        /\ Goto(p, "resave")
     \/ /\ Goto(p, "refused")
        /\ UNCHANGED arg
  /\ UNCHANGED <<files, lock, cmd, cfg, id, seen, hist>>

(* The join itself; the command ends by leaving again. *)
Join(p) ==
  /\ At(p, "join", "joining")
  /\ \E l \in {"ok", "refused"} : Goto(p, l)
  /\ UNCHANGED <<files, lock, cmd, cfg, id, arg, seen, hist>>

(* autoJoin passes over a node that has a cluster or an address, and finds *)
(* one or not for the others.  The mutant does not look at the address.    *)
JoinsAnyhow(p)   == db.cluster = None
LooksForOne(p)   == db.cluster = None /\ cfg[p].join = None
AutoJoin(p) ==
  /\ At(p, "run", "auto")
  /\ \/ /\ LooksForOne(p)
        /\ \E a \in Addrs : arg' = [arg EXCEPT ![p] = a]
        /\ Goto(p, "resave")
     \/ /\ Goto(p, "boot")
        /\ UNCHANGED arg
  /\ UNCHANGED <<files, lock, cmd, cfg, id, seen, hist>>

(* The daemon deploys the models it finds, and serves. *)
Boot(p) ==
  /\ At(p, "run", "boot")
  /\ seen' = [seen EXCEPT ![p] = db.models]
  /\ Goto(p, "serve")
  /\ UNCHANGED <<files, lock, cmd, cfg, id, arg, hist>>

-----------------------------------------------------------------------------
(* A process is killed, or fails for a reason outside (a full disk, a port *)
(* that is taken); a daemon that serves is told to stop.                   *)
Die(p) ==
  /\ Alive(p)
  /\ Goto(p, "dead")
  /\ Close(p)
  /\ torn' = (torn \/ (cmd[p] = "init" /\ pc[p] \in {"peers", "save", "fill"}))
  /\ cut' = (cut \/ pc[p] \in {"fill", "refill"})
  /\ UNCHANGED <<files, cmd, cfg, id, arg, seen, raced, behind>>

Step(p) ==
  \/ \E c \in Cmds : \E a \in Args(c) : Begin(p, c, a)
  \/ ReadId(p) \/ TruncId(p) \/ WriteId(p)
  \/ Open(p) \/ CloseEarly(p) \/ CreateCluster(p) \/ SetPeers(p)
  \/ PutModel(p) \/ DeleteModel(p) \/ ListModels(p)
  \/ Ask(p) \/ OpenReadOnly(p) \/ Read(p)
  \/ TruncConfig(p) \/ WriteConfig(p) \/ SaveIgnored(p) \/ Discover(p) \/ Join(p)
  \/ AutoJoin(p) \/ Boot(p) \/ Die(p)

Next == \E p \in Procs : Step(p)

Spec == Init /\ [][Next]_vars
-----------------------------------------------------------------------------
(* Properties. *)

Configs == [node : Procs \cup {None}, join : Addrs \cup {None}]

(* Every variable has its type. *)
TypeOK ==
  /\ idFile \in Procs \cup {None} /\ cfgFile \in Configs \cup {Garbled}
  /\ db \in [made : BOOLEAN, cluster : Procs \cup {None}, peers : SUBSET Procs,
             models : SUBSET Models]
  /\ writer \in Procs \cup {None} /\ readers \subseteq Procs
  /\ cmd \in [Procs -> AllCmds \cup {None}]
  /\ pc \in [Procs -> Ended \cup
       {"idle", "id", "truncid", "writeid", "open", "close", "create", "peers", "store",
        "ask", "openro", "read", "save", "fill", "resave", "refill", "discover", "joining", "auto", "boot",
        "serve"}]
  /\ cfg \in [Procs -> Configs]
  /\ id \in [Procs -> Procs \cup {None}]
  /\ arg \in [Procs -> Addrs \cup Models \cup {None}]
  /\ seen \in [Procs -> SUBSET Models]
  /\ raced \in BOOLEAN /\ torn \in BOOLEAN /\ cut \in BOOLEAN /\ behind \subseteq Procs

(* A cluster that was made is there for good, however many inits run at    *)
(* once and wherever they die.                                             *)
ClusterIsForever == [][db.cluster # None => db'.cluster = db.cluster]_vars

(* The id in node_id, in the configuration and in the list of nodes is the *)
(* same, whatever has died, unless two commands made an id at once.        *)
IdsAgree ==
  ~raced => /\ cfgFile.node \in {None, idFile}
            /\ db.peers \subseteq {idFile}

(* A machine that has a cluster can run: its configuration names the node, *)
(* and the list of nodes, from which the leader comes, is there; unless an *)
(* init or a write of the configuration was cut short, or two were mixed.  *)
ClusterCanRun ==
  /\ db.cluster # None /\ ~torn /\ ~cut
  /\ \A p \in Procs : pc[p] \notin {"peers", "save", "fill", "refill"}
  => cfgFile.node # None /\ db.peers # {}

(* A status that reads the database sees a whole cluster or none. *)
StatusIsWhole ==
  readers # {} /\ ~torn => (db.cluster = None <=> db.peers = {})

(* No command changes the models behind a daemon: it has deployed those    *)
(* that are in the database.                                               *)
DaemonHasModels == \A p \in Procs : pc[p] = "serve" => seen[p] = db.models

(* An address to join is replaced by a daemon only if it was saved after   *)
(* the daemon had loaded the configuration.                                *)
AddressIsKept ==
  [][\A p \in Procs : At(p, "run", "resave") /\ pc'[p] = "refill" /\ cfgFile.join # None
       => p \in behind]_vars
=============================================================================
