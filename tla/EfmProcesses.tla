------------------------------ MODULE EfmProcesses ------------------------------
(***************************************************************************)
(* The efm command line (src/efm/cli.py, process.py, http_mock.py,         *)
(* db_mock.py): `efm up`, `efm down` and `efm status` are processes that   *)
(* share nothing but the operating system: the process table, one file     *)
(* /tmp/efm-<name>.pid per HTTP mock, and one file /tmp/efm-<name>.db per  *)
(* SQLite mock.  A mock server is a child of the `up` that spawned it and  *)
(* outlives it.                                                            *)
(*                                                                         *)
(* A command is a record with a program counter; each action is one system *)
(* call of a command, or one transition of a mock server's process.  The   *)
(* routes file, rewritten with the same contents by each spawn, is left    *)
(* out: a child that reads it half-written exits, as it may anyway.        *)
(***************************************************************************)
EXTENDS Integers, Sequences, FiniteSets

CONSTANTS
  Config,      \* the names in the config file, in order (a name may repeat)
  Http,        \* the names of type http
  Sqlite,      \* the names of type sqlite
  Port,        \* the port of each http name (two names may share one)
  Rerunnable,  \* the sqlite names whose schema can run twice (IF NOT EXISTS)
  Commands,    \* the command lines open at once
  MaxUps,      \* bound on the number of `efm up` commands
  MaxCrashes,  \* bound on the number of commands killed half-way
  MaxReuses    \* bound on the number of pids the system gives out again

ASSUME ConfigOK ==
  /\ Http \cap Sqlite = {} /\ "none" \notin Http \cup Sqlite
  /\ Config \in Seq(Http \cup Sqlite) /\ Config # <<>>
  /\ Port \in [Http -> Nat]
  /\ "init" \notin Commands
  /\ Rerunnable \subseteq Sqlite
  /\ MaxUps \in Nat
  /\ MaxCrashes \in Nat
  /\ MaxReuses \in Nat

VARIABLES
  pidFile,   \* the contents of a name's pid file, NoFile or Empty
  db,        \* what a name's database file holds: NoDb, or how often it was seeded
  procs,     \* the process table
  cmd,       \* the command lines
  ups,       \* the number of `efm up` commands
  crashes    \* the number of commands killed half-way

vars == <<pidFile, db, procs, cmd, ups, crashes>>

Names == Http \cup Sqlite
Pids  == 1..(MaxUps * Len(Config))

NoFile == -1
Empty  == -2       \* created or truncated, not written yet: int("") fails
NoPid  == 0
NoDb   == -1
NoCmd  == "init"   \* the parent of an orphan
NoName == "none"

\* "foreign": the pid of a dead mock server, given to a program of somebody else's.
Phases == {"free", "booting", "serving", "stopping", "zombie", "gone", "foreign"}
Proc   == [phase  : Phases,
           name   : Names \cup {NoName},
           parent : Commands \cup {NoCmd},
           before : SUBSET Names]     \* history: whose servers had this pid and died

Command == [op     : {"none", "up", "down", "status"},
            pc     : {"idle", "read", "reread", "alive", "spawn", "open", "write",
                      "schema", "seed", "kill", "unlink", "next", "rm"},
            at     : 1..Len(Config),     \* the index in Config of the running loop
            name   : Names \cup {NoName},
            todo   : SUBSET Names,       \* the pid files status has still to visit
            pid    : Pids \cup {NoPid},  \* the pid read or spawned
            linked : BOOLEAN,            \* whether the open file still has its name
            last   : {"none", "up", "down", "status", "failed"}]

IdleCommand(last) ==
  [op |-> "none", pc |-> "idle", at |-> 1, name |-> NoName, todo |-> {},
   pid |-> NoPid, linked |-> TRUE, last |-> last]

Init ==
  /\ pidFile = [n \in Names |-> NoFile]
  /\ db = [n \in Names |-> NoDb]
  /\ procs = [p \in Pids |-> [phase |-> "free", name |-> NoName, parent |-> NoCmd,
                              before |-> {}]]
  /\ cmd = [c \in Commands |-> IdleCommand("none")]
  /\ ups = 0
  /\ crashes = 0

-------------------------------------------------------------------------------
(* Reading and writing the shared state.                                   *)

\* Mutant: read_pid lets an empty file through.
StoredOrEmpty(n) == IF pidFile[n] = NoFile THEN NoPid ELSE pidFile[n]

\* read_pid(name): None for a missing and for an unreadable file.
Stored(n) == IF pidFile[n] \in Pids THEN pidFile[n] ELSE NoPid

\* is_running(pid): kill(pid, 0) finds zombies and other programs' processes too.
IsRunning(p) == procs[p].phase \notin {"free", "gone"}

Live == {p \in Pids : procs[p].phase \in {"booting", "serving"}}

At(c, op, pc) == cmd[c].op \in op /\ cmd[c].pc = pc

Set(c, r) == cmd' = [cmd EXCEPT ![c] = r]
Goto(c, pc) == Set(c, [cmd[c] EXCEPT !.pc = pc])

\* The command exits: init adopts its children and reaps the dead ones.
End(c, last) ==
  /\ Set(c, IdleCommand(last))
  /\ procs' = [p \in Pids |->
                 IF procs[p].parent # c THEN procs[p]
                 ELSE [procs[p] EXCEPT
                         !.parent = NoCmd,
                         !.phase = IF @ = "zombie" THEN "gone" ELSE @]]

\* What follows once the service at hand is dealt with.
Visit(c, i, pc) == Set(c, [cmd[c] EXCEPT !.at = i, !.name = Config[i], !.pc = pc,
                                         !.pid = NoPid])
Advance(c) ==
  \/ /\ cmd[c].op \in {"up", "down"} /\ cmd[c].at < Len(Config)
     /\ Visit(c, cmd[c].at + 1, "read")
     /\ UNCHANGED procs
  \/ /\ cmd[c].op = "up" /\ cmd[c].at = Len(Config)
     /\ End(c, "up")
  \/ /\ cmd[c].op = "down" /\ cmd[c].at = Len(Config)
     /\ Visit(c, 1, "rm")
     /\ UNCHANGED procs
  \/ /\ cmd[c].op = "status"
     /\ Goto(c, "next")
     /\ UNCHANGED procs

\* Whoever has this name's file open goes on writing to a file without a name.
Unlinked(n, pcs) ==
  [c \in Commands |-> IF cmd[c].name = n /\ cmd[c].pc \in pcs
                      THEN [cmd[c] EXCEPT !.linked = FALSE] ELSE cmd[c]]

-------------------------------------------------------------------------------
(* The commands.                                                           *)

Up(c) ==
  /\ At(c, {"none"}, "idle")
  /\ ups < MaxUps
  /\ ups' = ups + 1
  /\ Set(c, [IdleCommand("none") EXCEPT !.op = "up", !.pc = "read", !.name = Config[1]])
  /\ UNCHANGED <<pidFile, db, procs, crashes>>

Down(c) ==
  /\ At(c, {"none"}, "idle")
  /\ Set(c, [IdleCommand("none") EXCEPT !.op = "down", !.pc = "read", !.name = Config[1]])
  /\ UNCHANGED <<pidFile, db, procs, ups, crashes>>

\* list_running(): the names PID_DIR.glob finds.
Status(c) ==
  /\ At(c, {"none"}, "idle")
  /\ Set(c, [IdleCommand("none") EXCEPT !.op = "status", !.pc = "next",
                           !.todo = {n \in Names : pidFile[n] # NoFile}])
  /\ UNCHANGED <<pidFile, db, procs, ups, crashes>>

NextFile(c, n) ==
  /\ At(c, {"status"}, "next")
  /\ n \in cmd[c].todo
  /\ Set(c, [cmd[c] EXCEPT !.pc = "read", !.name = n, !.todo = @ \ {n}])
  /\ UNCHANGED <<pidFile, db, procs, ups, crashes>>

StatusEnds(c) ==
  /\ At(c, {"status"}, "next")
  /\ cmd[c].todo = {}
  /\ End(c, "status")
  /\ UNCHANGED <<pidFile, db, ups, crashes>>

\* pid = read_pid(name); `up` reads it once more for is_running if it is there.
ReadPid(c) ==
  /\ At(c, {"up", "down", "status"}, "read")
  /\ LET p == Stored(cmd[c].name)
         found == IF cmd[c].op = "up" THEN "reread" ELSE "alive"
         absent == IF cmd[c].op # "up" THEN "unlink"
                   ELSE IF cmd[c].name \in Http THEN "spawn" ELSE "schema"
     IN Set(c, [cmd[c] EXCEPT !.pid = p, !.pc = IF p = NoPid THEN absent ELSE found])
  /\ UNCHANGED <<pidFile, db, procs, ups, crashes>>

\* is_running(read_pid(name)): os.kill(None, 0) raises a TypeError.
ReadPidAgain(c) ==
  /\ At(c, {"up"}, "reread")
  /\ LET p == Stored(cmd[c].name)
     IN IF p = NoPid THEN End(c, "failed")
        ELSE Set(c, [cmd[c] EXCEPT !.pid = p, !.pc = "alive"]) /\ UNCHANGED procs
  /\ UNCHANGED <<pidFile, db, ups, crashes>>

Alive(c) ==
  /\ At(c, {"up", "down", "status"}, "alive")
  /\ LET dead == IF cmd[c].op # "up" THEN "unlink"
                 ELSE IF cmd[c].name \in Http THEN "spawn" ELSE "schema"
     IN IF ~IsRunning(cmd[c].pid) THEN Goto(c, dead) /\ UNCHANGED procs
        ELSE IF cmd[c].op = "down" THEN Goto(c, "kill") /\ UNCHANGED procs
        ELSE Advance(c)
  /\ UNCHANGED <<pidFile, db, ups, crashes>>

\* A pid is given out for the first time, or again once its process is gone.
Unused(p)   == procs[p].phase = "free" /\ \A q \in 1..(p - 1) : procs[q].phase # "free"
Reused      == {p \in Pids : procs[p].before # {}}
Reusable(p) == procs[p].phase = "gone" /\ Cardinality(Reused \cup {p}) <= MaxReuses

Former(p) == procs[p].before \cup ({procs[p].name} \cap Names)

\* subprocess.Popen
Spawn(c) ==
  /\ At(c, {"up"}, "spawn")
  /\ \E p \in Pids :
       /\ Unused(p) \/ Reusable(p)
       /\ procs' = [procs EXCEPT ![p] = [phase |-> "booting", name |-> cmd[c].name,
                                         parent |-> c, before |-> Former(p)]]
       /\ Set(c, [cmd[c] EXCEPT !.pid = p, !.pc = "open"])
  /\ UNCHANGED <<pidFile, db, ups, crashes>>

\* write_pid: write_text opens and truncates ...
OpenPidFile(c) ==
  /\ At(c, {"up"}, "open")
  /\ pidFile' = [pidFile EXCEPT ![cmd[c].name] = Empty]
  /\ Set(c, [cmd[c] EXCEPT !.pc = "write", !.linked = TRUE])
  /\ UNCHANGED <<db, procs, ups, crashes>>

\* Mutant: the name is taken from the loop's first round.
WriteFirstPidFile(c) ==
  /\ At(c, {"up"}, "write")
  /\ pidFile' = [pidFile EXCEPT ![Config[1]] = cmd[c].pid]
  /\ Advance(c)
  /\ UNCHANGED <<db, ups, crashes>>

\* ... and writes (pids have the same number of digits).
WritePidFile(c) ==
  /\ At(c, {"up"}, "write")
  /\ pidFile' = IF cmd[c].linked THEN [pidFile EXCEPT ![cmd[c].name] = cmd[c].pid]
                ELSE pidFile
  /\ Advance(c)
  /\ UNCHANGED <<db, ups, crashes>>

\* conn.executescript(schema): a plain CREATE TABLE fails on the second run, and
\* no one catches the OperationalError.
RunSchema(c) ==
  /\ At(c, {"up"}, "schema")
  /\ LET n == cmd[c].name
     IN IF db[n] # NoDb /\ n \notin Rerunnable
        THEN End(c, "failed") /\ UNCHANGED db
        ELSE /\ db' = [db EXCEPT ![n] = IF @ = NoDb THEN 0 ELSE @]
             /\ Set(c, [cmd[c] EXCEPT !.pc = "seed", !.linked = TRUE])
             /\ UNCHANGED procs
  /\ UNCHANGED <<pidFile, ups, crashes>>

\* Mutant: nothing is committed.
SeedUncommitted(c) ==
  /\ At(c, {"up"}, "seed")
  /\ Advance(c)
  /\ UNCHANGED <<pidFile, db, ups, crashes>>

\* Mutant: the database is opened again, by its name, for the seed.
SeedByName(c) ==
  /\ At(c, {"up"}, "seed")
  /\ db' = [db EXCEPT ![cmd[c].name] = IF @ = NoDb THEN 1 ELSE @ + 1]
  /\ Advance(c)
  /\ UNCHANGED <<pidFile, ups, crashes>>

\* The seed statements are one transaction, ended by conn.commit().
RunSeed(c) ==
  /\ At(c, {"up"}, "seed")
  /\ db' = IF cmd[c].linked THEN [db EXCEPT ![cmd[c].name] = @ + 1] ELSE db
  /\ Advance(c)
  /\ UNCHANGED <<pidFile, ups, crashes>>

\* The rows are there already and their key is unique: nothing is committed.
SeedFails(c) ==
  /\ At(c, {"up"}, "seed")
  /\ db[cmd[c].name] > 0
  /\ End(c, "failed")
  /\ UNCHANGED <<pidFile, db, ups, crashes>>

\* Mutant: a server that has not come up yet is not signalled.
KillServing(c) ==
  /\ At(c, {"down"}, "kill")
  /\ procs' = [procs EXCEPT ![cmd[c].pid].phase = IF @ = "serving" THEN "stopping" ELSE @]
  /\ Goto(c, "unlink")
  /\ UNCHANGED <<pidFile, db, ups, crashes>>

\* kill_service: os.kill(pid, SIGTERM), whoever has the pid by now; a program of
\* somebody else's ends of it, or does not ...
Kill(c) ==
  /\ At(c, {"down"}, "kill")
  /\ procs' = [procs EXCEPT ![cmd[c].pid].phase =
                 IF cmd[c].pid \in Live THEN "stopping" ELSE @]
  /\ Goto(c, "unlink")
  /\ UNCHANGED <<pidFile, db, ups, crashes>>

\* ... and unlink; stop_all and list_running also unlink stale files.
Unlink(c) ==
  /\ At(c, {"down", "status"}, "unlink")
  /\ pidFile' = [pidFile EXCEPT ![cmd[c].name] = NoFile]
  /\ LET others == Unlinked(cmd[c].name, {"write"})
         i == cmd[c].at
         step == IF cmd[c].op = "status" THEN [cmd[c] EXCEPT !.pc = "next"]
                 ELSE IF i < Len(Config)
                 THEN [cmd[c] EXCEPT !.at = i + 1, !.name = Config[i + 1],
                                     !.pc = "read", !.pid = NoPid]
                 ELSE [cmd[c] EXCEPT !.at = 1, !.name = Config[1],
                                     !.pc = "rm", !.pid = NoPid]
     IN cmd' = [others EXCEPT ![c] = step]
  /\ UNCHANGED <<db, procs, ups, crashes>>

\* The second loop of `down`: stop_sqlite_mock for the sqlite services.
RemoveDb(c) ==
  /\ At(c, {"down"}, "rm")
  /\ LET n == cmd[c].name
         i == cmd[c].at
         others == Unlinked(n, {"seed"})
     IN /\ db' = IF n \in Sqlite THEN [db EXCEPT ![n] = NoDb] ELSE db
        /\ IF i < Len(Config)
           THEN /\ cmd' = [others EXCEPT ![c] =
                             [cmd[c] EXCEPT !.at = i + 1, !.name = Config[i + 1]]]
           ELSE /\ cmd' = [others EXCEPT ![c] = IdleCommand("down")]
  /\ UNCHANGED <<pidFile, procs, ups, crashes>>

\* The command is killed (Ctrl-C, a closed terminal) between two system calls.
Crash(c) ==
  /\ cmd[c].op # "none"
  /\ crashes < MaxCrashes
  /\ crashes' = crashes + 1
  /\ End(c, "failed")
  /\ UNCHANGED <<pidFile, db, ups>>

-------------------------------------------------------------------------------
(* The mock servers and the operating system.                              *)

\* uvicorn binds the port the config gives this name, unless it is still held.
Boot(p) ==
  /\ procs[p].phase = "booting"
  /\ \A q \in Pids : procs[q].phase = "serving"
                       => Port[procs[q].name] # Port[procs[p].name]
  /\ procs' = [procs EXCEPT ![p].phase = "serving"]
  /\ UNCHANGED <<pidFile, db, cmd, ups, crashes>>

\* It exits: the port was taken, it was told to stop, or for reasons of its own.
Exit(p) ==
  /\ procs[p].phase \in {"booting", "serving", "stopping", "foreign"}
  /\ procs' = [procs EXCEPT ![p].phase =
                 IF procs[p].parent = NoCmd THEN "gone" ELSE "zombie"]
  /\ UNCHANGED <<pidFile, db, cmd, ups, crashes>>

\* Another program is started and gets the pid of a mock server that is gone.
Reuse(p) ==
  /\ Reusable(p)
  /\ procs' = [procs EXCEPT ![p] = [phase |-> "foreign", name |-> NoName,
                                    parent |-> NoCmd, before |-> Former(p)]]
  /\ UNCHANGED <<pidFile, db, cmd, ups, crashes>>

-------------------------------------------------------------------------------

CommandStep(c) ==
  \/ Up(c) \/ Down(c) \/ Status(c)
  \/ (\E n \in Names : NextFile(c, n)) \/ StatusEnds(c)
  \/ ReadPid(c) \/ ReadPidAgain(c) \/ Alive(c)
  \/ Spawn(c) \/ OpenPidFile(c) \/ WritePidFile(c)
  \/ RunSchema(c) \/ RunSeed(c) \/ SeedFails(c)
  \/ Kill(c) \/ Unlink(c) \/ RemoveDb(c)
  \/ Crash(c)

ProcStep(p) == Boot(p) \/ Exit(p) \/ Reuse(p)

Next == (\E c \in Commands : CommandStep(c)) \/ (\E p \in Pids : ProcStep(p))

Spec == Init /\ [][Next]_vars

-------------------------------------------------------------------------------
(* Properties.                                                             *)

TypeOK ==
  /\ pidFile \in [Names -> Pids \cup {NoFile, Empty}]
  /\ db \in [Names -> {NoDb} \cup Nat]
  /\ procs \in [Pids -> Proc]
  /\ cmd \in [Commands -> Command]
  /\ ups \in 0..MaxUps
  /\ crashes \in 0..MaxCrashes

\* `efm down` only ever signals a process that was spawned for the very service
\* it is stopping, or one that the system has given the pid of such a process after
\* that had died; no interleaving of commands with each other's pid files and no
\* crash brings it to anybody else.
KillsOwn ==
  \A c \in Commands : At(c, {"down"}, "kill") =>
    \/ procs[cmd[c].pid].name = cmd[c].name
    \/ cmd[c].name \in procs[cmd[c].pid].before

\* Why: a pid file, and the pid a command has read or spawned, stand for a
\* process of the name they belong to, or for whoever was given its pid.
Own(p, n) == p \in Pids /\ (procs[p].name = n \/ n \in procs[p].before)
OwnPids ==
  /\ \A n \in Names : pidFile[n] \in Pids => Own(pidFile[n], n)
  /\ \A c \in Commands :
       cmd[c].pc \in {"alive", "open", "write", "kill"} =>
         cmd[c].name \in Names /\ Own(cmd[c].pid, cmd[c].name)

\* Concurrent `up`s and `down`s never apply the seed of a plain schema twice to
\* one database file.
SeededOnce == \A n \in Sqlite \ Rerunnable : db[n] <= 1

\* Why: only one command gets past the CREATE TABLE of one file, and a command
\* whose file was removed in the meantime seeds a file without a name.
Seeding(c, n) == cmd[c].pc = "seed" /\ cmd[c].name = n /\ cmd[c].linked
SeedInv ==
  \A n \in Sqlite \ Rerunnable :
    /\ db[n] <= 1
    /\ \A c \in Commands : Seeding(c, n) => db[n] = 0
    /\ \A c, d \in Commands : Seeding(c, n) /\ Seeding(d, n) => c = d

\* Between commands, `efm down` can find every live mock server by its pid file
\* ("so efm down can reliably terminate previously-started processes",
\* process.py:3-4).
Quiet     == \A c \in Commands : cmd[c].op = "none"
Untracked == {p \in Live : pidFile[procs[p].name] # p}
Tracked   == Quiet => Untracked = {}

\* One command at a time, a mock server is lost only to an `up` that was killed
\* between Popen and the pid file, and every such crash loses one at most.
OneLostPerCrash == Quiet => Cardinality(Untracked) <= crashes

\* One command at a time, a completed `down` leaves no pid file, no database and
\* no server but the ones crashes made untraceable, one each.
DownDelivers ==
  /\ OneLostPerCrash
  /\ \A c \in Commands : Quiet /\ cmd[c].last = "down" =>
       \A n \in Names : pidFile[n] = NoFile /\ db[n] = NoDb

\* One command at a time, after a completed `up` every http service has on file
\* the pid of a server spawned for it, which need not have come up and whose pid
\* may be another's by now, and every database is there and seeded.
UpDelivers ==
  \A c \in Commands :
    Quiet /\ cmd[c].last = "up" =>
      /\ \A n \in Http : Own(pidFile[n], n)
      /\ \A n \in Sqlite : db[n] >= 1
===============================================================================
