--------------------------- MODULE EfmProcessesProofs ---------------------------
(* Theorems about EfmProcesses, for every value of its constants. *)
EXTENDS EfmProcesses, FiniteSetTheorems, TLAPS

-------------------------------------------------------------------------------
(* Typing.                                                                    *)

\* The config is not empty, and its entries are names.
LEMMA ConfigNames ==
  /\ Len(Config) \in Nat /\ 1 \in 1..Len(Config)
  /\ \A i \in 1..Len(Config) : Config[i] \in Names
  /\ NoName \notin Names
<1>1. Config \in Seq(Names) /\ Config # <<>> /\ "none" \notin Names
  BY ConfigOK DEF Names
<1>2. Len(Config) \in Nat /\ Len(Config) # 0
  BY <1>1
<1>3. \A i \in 1..Len(Config) : Config[i] \in Names
  BY <1>1
<1> QED BY <1>1, <1>2, <1>3 DEF NoName

Lasts == {"none", "up", "down", "status", "failed"}

LEMMA IdleType == ASSUME NEW last \in Lasts
                  PROVE  /\ IdleCommand(last) \in Command
                         /\ IdleCommand(last).pc = "idle"
BY ConfigNames DEF IdleCommand, Command, Lasts, NoName

\* The table forgets nobody: whose servers had a pid stays known.
Alike == \A p \in Pids, n \in Names : Own(p, n) => Own(p, n)'

\* A process may change its phase and its parent.
LEMMA AlikeIf ==
  ASSUME \A p \in Pids : /\ procs'[p].name = procs[p].name
                        /\ procs'[p].before = procs[p].before
  PROVE  Alike
BY DEF Alike, Own

\* A pid given out, for the first time or again.
LEMMA Given ==
  ASSUME TypeOK, NEW p \in Pids, NEW phase \in Phases, NEW name \in Names \cup {NoName},
         NEW parent \in Commands \cup {NoCmd},
         procs' = [procs EXCEPT ![p] = [phase |-> phase, name |-> name, parent |-> parent,
                                        before |-> Former(p)]]
  PROVE  procs' \in [Pids -> Proc] /\ Alike /\ procs'[p].name = name
<1>1. procs \in [Pids -> Proc] /\ Former(p) \in SUBSET Names
  BY DEF TypeOK, Proc, Former
<1>2. [phase |-> phase, name |-> name, parent |-> parent, before |-> Former(p)] \in Proc
  BY <1>1 DEF Proc
<1>3. procs' \in [Pids -> Proc]
  BY <1>1, <1>2
<1>4. /\ procs'[p].name = name /\ procs'[p].before = Former(p)
      /\ \A q \in Pids : q # p => procs'[q] = procs[q]
  BY <1>1
<1>5. \A n \in Names : Own(p, n) => n \in Former(p)
  BY DEF Own, Former
<1>6. Alike
  BY <1>4, <1>5 DEF Alike, Own
<1> QED BY <1>3, <1>4, <1>6

\* A step of c alters nothing of another command but, at most, the link of its file.
Others(c) ==
  \A d \in Commands : d # c =>
    /\ cmd'[d].pc = cmd[d].pc /\ cmd'[d].name = cmd[d].name /\ cmd'[d].pid = cmd[d].pid
    /\ cmd'[d].linked => cmd[d].linked

\* A command about to read or to write a pid file, or to signal, knows for whom.
Reading  == {"read", "reread", "alive", "spawn", "open", "write", "kill"}
Named(c) == cmd[c].pc \in Reading => cmd[c].name \in Names

Typed == cmd' \in [Commands -> Command] /\ procs' \in [Pids -> Proc]

LEMMA CommandType == ASSUME TypeOK, NEW c \in Commands PROVE cmd[c] \in Command
BY DEF TypeOK

LEMMA SetShape ==
  ASSUME TypeOK, NEW c \in Commands, NEW r \in Command, Set(c, r)
  PROVE  cmd' \in [Commands -> Command] /\ cmd'[c] = r /\ Others(c)
BY DEF TypeOK, Set, Others

LEMMA EndShape ==
  ASSUME TypeOK, NEW c \in Commands, NEW last \in Lasts, End(c, last)
  PROVE  Typed /\ cmd'[c].pc = "idle" /\ Others(c) /\ Alike
<1>1. cmd' \in [Commands -> Command] /\ cmd'[c] = IdleCommand(last) /\ Others(c)
  BY IdleType, SetShape DEF End
<1>2. procs' \in [Pids -> Proc]
  BY DEF End, TypeOK, Proc, Phases
<1>3. \A p \in Pids : procs'[p].name = procs[p].name /\ procs'[p].before = procs[p].before
  BY DEF End, TypeOK, Proc
<1> QED BY <1>1, <1>2, <1>3, AlikeIf, IdleType DEF Typed

LEMMA GotoShape ==
  ASSUME TypeOK, NEW c \in Commands,
         NEW pc \in {"spawn", "schema", "kill", "unlink", "next"}, Goto(c, pc)
  PROVE  /\ cmd' \in [Commands -> Command] /\ Others(c)
         /\ cmd'[c] = [cmd[c] EXCEPT !.pc = pc]
<1>1. [cmd[c] EXCEPT !.pc = pc] \in Command
  BY CommandType DEF Command
<1> QED BY <1>1, SetShape DEF Goto

LEMMA VisitShape ==
  ASSUME TypeOK, NEW c \in Commands, NEW i \in 1..Len(Config),
         NEW pc \in {"read", "rm"}, Visit(c, i, pc)
  PROVE  /\ cmd' \in [Commands -> Command] /\ Others(c)
         /\ cmd'[c].pc = pc /\ cmd'[c].name \in Names
<1> DEFINE r == [cmd[c] EXCEPT !.at = i, !.name = Config[i], !.pc = pc, !.pid = NoPid]
<1>1. cmd[c] \in Command /\ Config[i] \in Names
  BY ConfigNames DEF TypeOK
<1>2. r \in Command /\ r.pc = pc /\ r.name \in Names
  BY <1>1 DEF Command
<1> HIDE DEF r
<1>3. Set(c, r)
  BY DEF Visit, r
<1> QED BY <1>2, <1>3, SetShape

LEMMA AdvanceShape ==
  ASSUME TypeOK, NEW c \in Commands, Advance(c)
  PROVE  /\ Typed /\ Others(c) /\ Alike
         /\ cmd'[c].pc \in {"read", "rm", "idle", "next"} /\ Named(c)'
<1>1. UNCHANGED procs => procs' \in [Pids -> Proc] /\ Alike
  BY AlikeIf DEF TypeOK
<1>2. cmd[c] \in Command /\ cmd[c].at \in 1..Len(Config)
  BY CommandType DEF Command
<1>3. CASE cmd[c].at < Len(Config) /\ Visit(c, cmd[c].at + 1, "read") /\ UNCHANGED procs
  <2>1. cmd[c].at + 1 \in 1..Len(Config)
    BY <1>2, <1>3, ConfigNames
  <2> QED BY <1>1, <1>3, <2>1, VisitShape DEF Typed, Named
<1>4. CASE End(c, "up")
  BY <1>4, EndShape DEF Lasts, Named, Reading
<1>5. CASE Visit(c, 1, "rm") /\ UNCHANGED procs
  BY <1>1, <1>5, ConfigNames, VisitShape DEF Typed, Named
<1>6. CASE Goto(c, "next") /\ UNCHANGED procs
  <2>1. /\ cmd' \in [Commands -> Command] /\ Others(c)
        /\ cmd'[c] = [cmd[c] EXCEPT !.pc = "next"]
    BY <1>6, GotoShape
  <2>2. cmd'[c].pc = "next"
    BY <1>2, <2>1 DEF Command
  <2> QED BY <1>1, <1>6, <2>1, <2>2 DEF Typed, Named, Reading
<1> QED BY <1>3, <1>4, <1>5, <1>6 DEF Advance

\* What every step of a command does to the tables.
Shape(c) == Typed /\ Others(c) /\ Alike

LEMMA SetKeeps ==
  ASSUME TypeOK, NEW c \in Commands, NEW r \in Command, Set(c, r), UNCHANGED procs
  PROVE  Shape(c) /\ cmd'[c] = r
<1>1. procs' \in [Pids -> Proc] /\ Alike
  BY AlikeIf DEF TypeOK
<1> QED BY <1>1, SetShape DEF Shape, Typed

LEMMA GotoKeeps ==
  ASSUME TypeOK, NEW c \in Commands,
         NEW pc \in {"spawn", "schema", "kill", "unlink", "next"}, Goto(c, pc),
         procs' \in [Pids -> Proc], Alike
  PROVE  Shape(c) /\ cmd'[c] = [cmd[c] EXCEPT !.pc = pc]
BY GotoShape DEF Shape, Typed

LEMMA UpShape == ASSUME TypeOK, NEW c \in Commands, Up(c)
                 PROVE  Shape(c) /\ cmd'[c].pc = "read" /\ Named(c)'
<1> DEFINE r == [IdleCommand("none") EXCEPT !.op = "up", !.pc = "read", !.name = Config[1]]
<1>1. IdleCommand("none") \in Command /\ Config[1] \in Names
  BY IdleType, ConfigNames DEF Lasts
<1>2. r \in Command /\ r.pc = "read" /\ r.name \in Names
  BY <1>1 DEF Command
<1> HIDE DEF r
<1>3. Set(c, r) /\ UNCHANGED procs
  BY DEF Up, r
<1> QED BY <1>2, <1>3, SetKeeps DEF Named

LEMMA DownShape == ASSUME TypeOK, NEW c \in Commands, Down(c)
                   PROVE  Shape(c) /\ cmd'[c].pc = "read" /\ Named(c)'
<1> DEFINE r == [IdleCommand("none") EXCEPT !.op = "down", !.pc = "read", !.name = Config[1]]
<1>1. IdleCommand("none") \in Command /\ Config[1] \in Names
  BY IdleType, ConfigNames DEF Lasts
<1>2. r \in Command /\ r.pc = "read" /\ r.name \in Names
  BY <1>1 DEF Command
<1> HIDE DEF r
<1>3. Set(c, r) /\ UNCHANGED procs
  BY DEF Down, r
<1> QED BY <1>2, <1>3, SetKeeps DEF Named

LEMMA StatusShape == ASSUME TypeOK, NEW c \in Commands, Status(c)
                     PROVE  Shape(c) /\ cmd'[c].pc = "next"
<1> DEFINE r == [IdleCommand("none") EXCEPT !.op = "status", !.pc = "next",
                           !.todo = {n \in Names : pidFile[n] # NoFile}]
<1>1. IdleCommand("none") \in Command
  BY IdleType DEF Lasts
<1>2. r \in Command /\ r.pc = "next"
  BY <1>1 DEF Command
<1> HIDE DEF r
<1>3. Set(c, r) /\ UNCHANGED procs
  BY DEF Status, r
<1> QED BY <1>2, <1>3, SetKeeps

LEMMA NextFileShape ==
  ASSUME TypeOK, NEW c \in Commands, NEW n \in Names, NextFile(c, n)
  PROVE  Shape(c) /\ cmd'[c].pc = "read" /\ Named(c)'
<1> DEFINE r == [cmd[c] EXCEPT !.pc = "read", !.name = n, !.todo = @ \ {n}]
<1>1. r \in Command /\ r.pc = "read" /\ r.name = n
  BY CommandType DEF Command
<1> HIDE DEF r
<1>2. Set(c, r) /\ UNCHANGED procs
  BY DEF NextFile, r
<1> QED BY <1>1, <1>2, SetKeeps DEF Named

LEMMA ReadPidShape ==
  ASSUME TypeOK, NEW c \in Commands, ReadPid(c)
  PROVE  /\ Shape(c)
         /\ cmd'[c].name = cmd[c].name
         /\ \/ cmd'[c].pc \in {"unlink", "spawn", "schema"}
            \/ cmd'[c].pc \in {"reread", "alive"} /\ cmd'[c].pid = pidFile[cmd[c].name]
                                                 /\ pidFile[cmd[c].name] \in Pids
<1> DEFINE p == Stored(cmd[c].name)
           found == IF cmd[c].op = "up" THEN "reread" ELSE "alive"
           absent == IF cmd[c].op # "up" THEN "unlink"
                     ELSE IF cmd[c].name \in Http THEN "spawn" ELSE "schema"
           pc == IF p = NoPid THEN absent ELSE found
           r == [cmd[c] EXCEPT !.pid = p, !.pc = pc]
<1>1. p = NoPid \/ (p \in Pids /\ p = pidFile[cmd[c].name])
  BY DEF Stored
<1>2. NoPid \notin Pids
  BY DEF NoPid, Pids
<1>3. /\ p = NoPid => pc \in {"unlink", "spawn", "schema"}
      /\ p # NoPid => pc \in {"reread", "alive"}
  OBVIOUS
<1> HIDE DEF p, pc
<1>4. r \in Command /\ r.pc = pc /\ r.pid = p /\ r.name = cmd[c].name
  BY <1>1, <1>3, CommandType DEF Command
<1>5. Set(c, r) /\ UNCHANGED procs
  BY DEF ReadPid, p, pc
<1> HIDE DEF r
<1>6. Shape(c) /\ cmd'[c] = r
  BY <1>4, <1>5, SetKeeps
<1> QED BY <1>1, <1>2, <1>3, <1>4, <1>6

LEMMA ReadPidAgainShape ==
  ASSUME TypeOK, NEW c \in Commands, ReadPidAgain(c)
  PROVE  /\ Shape(c)
         /\ \/ cmd'[c].pc = "idle"
            \/ /\ cmd'[c].pc = "alive" /\ cmd'[c].name = cmd[c].name
               /\ cmd'[c].pid = pidFile[cmd[c].name] /\ pidFile[cmd[c].name] \in Pids
<1> DEFINE p == Stored(cmd[c].name)
           r == [cmd[c] EXCEPT !.pid = p, !.pc = "alive"]
<1>1. CASE p = NoPid
  BY <1>1, EndShape DEF ReadPidAgain, Lasts, Shape
<1>2. CASE p # NoPid
  <2>1. p \in Pids /\ p = pidFile[cmd[c].name]
    BY <1>2 DEF Stored
  <2>2. Set(c, r) /\ UNCHANGED procs
    BY <1>2 DEF ReadPidAgain
  <2> HIDE DEF p
  <2>3. r \in Command /\ r.pc = "alive" /\ r.pid = p /\ r.name = cmd[c].name
    BY <2>1, CommandType DEF Command
  <2> HIDE DEF r
  <2> QED BY <2>1, <2>2, <2>3, SetKeeps
<1> QED BY <1>1, <1>2

LEMMA AliveShape ==
  ASSUME TypeOK, NEW c \in Commands, Named(c), Alive(c)
  PROVE  /\ Shape(c) /\ Named(c)'
         /\ \/ cmd'[c].pc \in {"unlink", "spawn", "schema", "read", "rm", "idle", "next"}
            \/ /\ cmd[c].pc = "alive" /\ cmd'[c].pc = "kill"
               /\ cmd'[c].name = cmd[c].name /\ cmd'[c].pid = cmd[c].pid
<1>1. cmd[c] \in Command /\ cmd[c].pc = "alive"
  BY DEF TypeOK, Alive, At
<1>2. ASSUME NEW pc \in {"unlink", "spawn", "schema", "kill"}, Goto(c, pc), UNCHANGED procs
      PROVE  /\ Shape(c) /\ cmd'[c].pc = pc
             /\ cmd'[c].name = cmd[c].name /\ cmd'[c].pid = cmd[c].pid
  <2>1. procs' \in [Pids -> Proc] /\ Alike
    BY <1>2, AlikeIf DEF TypeOK
  <2>2. Shape(c) /\ cmd'[c] = [cmd[c] EXCEPT !.pc = pc]
    BY <1>2, <2>1, GotoKeeps
  <2> QED BY <1>1, <2>2 DEF Command
<1>3. CASE Advance(c)
  BY <1>3, AdvanceShape DEF Shape
<1>4. CASE /\ UNCHANGED procs
           /\ Goto(c, "unlink") \/ Goto(c, "spawn") \/ Goto(c, "schema") \/ Goto(c, "kill")
  BY <1>1, <1>2, <1>4 DEF Named, Reading
<1> QED BY <1>3, <1>4 DEF Alive

LEMMA SpawnShape ==
  ASSUME TypeOK, NEW c \in Commands, Spawn(c)
  PROVE  /\ Shape(c) /\ cmd'[c].pc = "open" /\ cmd'[c].name = cmd[c].name
         /\ Own(cmd[c].pid, cmd[c].name)'
<1>1. PICK p \in Pids :
        /\ procs' = [procs EXCEPT ![p] = [phase |-> "booting", name |-> cmd[c].name,
                                          parent |-> c, before |-> Former(p)]]
        /\ Set(c, [cmd[c] EXCEPT !.pid = p, !.pc = "open"])
  BY DEF Spawn
<1> DEFINE r == [cmd[c] EXCEPT !.pid = p, !.pc = "open"]
<1>2. /\ r \in Command /\ r.pc = "open" /\ r.pid = p /\ r.name = cmd[c].name
      /\ cmd[c].name \in Names \cup {NoName}
  BY CommandType DEF Command
<1>3. procs' \in [Pids -> Proc] /\ Alike /\ procs'[p].name = cmd[c].name
  BY <1>1, <1>2, Given DEF Phases
<1>4. Set(c, r)
  BY <1>1
<1> HIDE DEF r
<1>5. cmd' \in [Commands -> Command] /\ cmd'[c] = r /\ Others(c)
  BY <1>2, <1>4, SetShape
<1> QED BY <1>2, <1>3, <1>5 DEF Shape, Typed, Own

LEMMA OpenPidFileShape ==
  ASSUME TypeOK, NEW c \in Commands, OpenPidFile(c)
  PROVE  /\ Shape(c)
         /\ cmd[c].pc = "open" /\ cmd'[c].pc = "write"
         /\ cmd'[c].name = cmd[c].name /\ cmd'[c].pid = cmd[c].pid
<1> DEFINE r == [cmd[c] EXCEPT !.pc = "write", !.linked = TRUE]
<1>1. r \in Command /\ r.pc = "write" /\ r.pid = cmd[c].pid /\ r.name = cmd[c].name
  BY CommandType DEF Command
<1> HIDE DEF r
<1>2. Set(c, r) /\ UNCHANGED procs /\ cmd[c].pc = "open"
  BY DEF OpenPidFile, At, r
<1> QED BY <1>1, <1>2, SetKeeps

LEMMA RunSchemaShape ==
  ASSUME TypeOK, NEW c \in Commands, RunSchema(c)
  PROVE  /\ Shape(c)
         /\ \/ cmd'[c].pc = "idle" /\ db' = db
            \/ /\ cmd'[c].pc = "seed" /\ cmd'[c].name = cmd[c].name
               /\ db[cmd[c].name] = NoDb \/ cmd[c].name \in Rerunnable
               /\ db' = [db EXCEPT ![cmd[c].name] = IF @ = NoDb THEN 0 ELSE @]
<1> DEFINE r == [cmd[c] EXCEPT !.pc = "seed", !.linked = TRUE]
<1>1. r \in Command /\ r.pc = "seed" /\ r.name = cmd[c].name
  BY CommandType DEF Command
<1>2. CASE End(c, "failed") /\ UNCHANGED db
  BY <1>2, EndShape DEF Shape, Lasts
<1>3. CASE /\ ~(db[cmd[c].name] # NoDb /\ cmd[c].name \notin Rerunnable)
           /\ db' = [db EXCEPT ![cmd[c].name] = IF @ = NoDb THEN 0 ELSE @]
           /\ Set(c, r) /\ UNCHANGED procs
  <2> HIDE DEF r
  <2> QED BY <1>1, <1>3, SetKeeps
<1> QED BY <1>2, <1>3 DEF RunSchema

LEMMA KillShape == ASSUME TypeOK, NEW c \in Commands, Kill(c)
                   PROVE  Shape(c) /\ cmd'[c].pc = "unlink"
<1>1. cmd[c] \in Command
  BY DEF TypeOK
<1>2. procs' \in [Pids -> Proc] /\ Alike
  <2>1. ASSUME NEW p \in Pids
        PROVE  /\ procs'[p] \in Proc /\ procs'[p].name = procs[p].name
               /\ procs'[p].before = procs[p].before
    <3>1. procs[p] \in Proc
      BY DEF TypeOK
    <3>2. procs'[p] = procs[p] \/ procs'[p] = [procs[p] EXCEPT !.phase = "stopping"]
      BY <3>1 DEF Kill, TypeOK, Proc
    <3> QED BY <3>1, <3>2 DEF Proc, Phases
  <2>2. procs' = [p \in Pids |-> procs'[p]]
    BY DEF Kill, TypeOK
  <2> QED BY <2>1, <2>2, AlikeIf
<1>3. Goto(c, "unlink")
  BY DEF Kill
<1>4. Shape(c) /\ cmd'[c] = [cmd[c] EXCEPT !.pc = "unlink"]
  BY <1>2, <1>3, GotoKeeps
<1> QED BY <1>1, <1>4 DEF Command

\* Removing a file cuts the link of those who have it open.
LEMMA UnlinkedShape ==
  ASSUME TypeOK, NEW c \in Commands, NEW r \in Command, NEW n, NEW pcs,
         cmd' = [Unlinked(n, pcs) EXCEPT ![c] = r], UNCHANGED procs
  PROVE  /\ Shape(c) /\ cmd'[c] = r
         /\ \A d \in Commands : d # c /\ cmd[d].name = n /\ cmd[d].pc \in pcs
                                  => ~cmd'[d].linked
<1>1. cmd \in [Commands -> Command] /\ procs' \in [Pids -> Proc] /\ Alike
  BY AlikeIf DEF TypeOK
<1>2. \A d \in Commands : [cmd[d] EXCEPT !.linked = FALSE] \in Command
  BY <1>1 DEF Command
<1>3. \A d \in Commands : d # c =>
        cmd'[d] = IF cmd[d].name = n /\ cmd[d].pc \in pcs
                  THEN [cmd[d] EXCEPT !.linked = FALSE] ELSE cmd[d]
  BY DEF Unlinked
<1>4. cmd' \in [Commands -> Command] /\ cmd'[c] = r
  BY <1>1, <1>2 DEF Unlinked
<1>5. \A d \in Commands : d # c =>
        /\ cmd'[d].pc = cmd[d].pc /\ cmd'[d].name = cmd[d].name /\ cmd'[d].pid = cmd[d].pid
        /\ cmd'[d].linked => cmd[d].linked
        /\ cmd[d].name = n /\ cmd[d].pc \in pcs => ~cmd'[d].linked
  <2>1. ASSUME NEW d \in Commands, d # c, cmd[d].name = n /\ cmd[d].pc \in pcs
        PROVE  /\ cmd'[d].pc = cmd[d].pc /\ cmd'[d].name = cmd[d].name
               /\ cmd'[d].pid = cmd[d].pid /\ ~cmd'[d].linked
    <3>1. cmd[d] \in Command /\ cmd'[d] = [cmd[d] EXCEPT !.linked = FALSE]
      BY <1>1, <1>3, <2>1
    <3> QED BY <3>1 DEF Command
  <2>2. ASSUME NEW d \in Commands, d # c, ~(cmd[d].name = n /\ cmd[d].pc \in pcs)
        PROVE  cmd'[d] = cmd[d]
    BY <1>3, <2>2
  <2> QED BY <2>1, <2>2
<1> QED BY <1>1, <1>4, <1>5 DEF Shape, Typed, Others

LEMMA UnlinkShape ==
  ASSUME TypeOK, NEW c \in Commands, Unlink(c)
  PROVE  Shape(c) /\ cmd'[c].pc \in {"next", "read", "rm"} /\ Named(c)'
<1> DEFINE i == cmd[c].at
           r == IF cmd[c].op = "status" THEN [cmd[c] EXCEPT !.pc = "next"]
                ELSE IF i < Len(Config)
                THEN [cmd[c] EXCEPT !.at = i + 1, !.name = Config[i + 1],
                                    !.pc = "read", !.pid = NoPid]
                ELSE [cmd[c] EXCEPT !.at = 1, !.name = Config[1],
                                    !.pc = "rm", !.pid = NoPid]
<1>1. cmd[c] \in Command /\ i \in 1..Len(Config)
  BY CommandType DEF Command
<1>2. /\ 1 \in 1..Len(Config) /\ Config[1] \in Names
      /\ i < Len(Config) => i + 1 \in 1..Len(Config) /\ Config[i + 1] \in Names
  BY <1>1, ConfigNames
<1>3. r \in Command /\ r.pc \in {"next", "read", "rm"} /\ (r.pc # "next" => r.name \in Names)
  BY <1>1, <1>2 DEF Command
<1>4. cmd' = [Unlinked(cmd[c].name, {"write"}) EXCEPT ![c] = r] /\ UNCHANGED procs
  BY DEF Unlink
<1> HIDE DEF r
<1> QED BY <1>3, <1>4, UnlinkedShape DEF Named, Reading

LEMMA RemoveDbShape ==
  ASSUME TypeOK, NEW c \in Commands, RemoveDb(c)
  PROVE  /\ Shape(c) /\ cmd'[c].pc \in {"rm", "idle"}
         /\ \A d \in Commands : d # c /\ cmd[d].name = cmd[c].name /\ cmd[d].pc = "seed"
                                  => ~cmd'[d].linked
<1> DEFINE i == cmd[c].at
           s == [cmd[c] EXCEPT !.at = i + 1, !.name = Config[i + 1]]
           r == IF i < Len(Config) THEN s ELSE IdleCommand("down")
<1>1. cmd[c] \in Command /\ i \in 1..Len(Config) /\ cmd[c].pc = "rm"
  BY DEF TypeOK, Command, RemoveDb, At
<1>2. i < Len(Config) => i + 1 \in 1..Len(Config) /\ Config[i + 1] \in Names
  BY <1>1, ConfigNames
<1>3. i < Len(Config) => s \in Command /\ s.pc = "rm"
  BY <1>1, <1>2 DEF Command
<1>4. cmd' = [Unlinked(cmd[c].name, {"seed"}) EXCEPT ![c] = r] /\ UNCHANGED procs
  BY DEF RemoveDb
<1> HIDE DEF s
<1>5. r \in Command /\ r.pc \in {"rm", "idle"}
  BY <1>3, IdleType DEF Lasts
<1> HIDE DEF r
<1> QED BY <1>4, <1>5, UnlinkedShape

\* Whatever a command does next, it keeps the tables typed and the processes alike.
LEMMA CommandShape ==
  ASSUME TypeOK, NEW c \in Commands, Named(c), CommandStep(c)
  PROVE  Shape(c)
<1>1. CASE Up(c) \/ Down(c) \/ Status(c) \/ (\E n \in Names : NextFile(c, n))
  BY <1>1, UpShape, DownShape, StatusShape, NextFileShape
<1>2. CASE StatusEnds(c) \/ SeedFails(c) \/ Crash(c)
  BY <1>2, EndShape DEF StatusEnds, SeedFails, Crash, Shape, Lasts
<1>3. CASE ReadPid(c) \/ ReadPidAgain(c) \/ Alive(c)
  BY <1>3, ReadPidShape, ReadPidAgainShape, AliveShape
<1>4. CASE Spawn(c) \/ OpenPidFile(c)
  BY <1>4, SpawnShape, OpenPidFileShape
<1>5. CASE WritePidFile(c) \/ RunSeed(c)
  BY <1>5, AdvanceShape DEF WritePidFile, RunSeed, Shape
<1>6. CASE RunSchema(c) \/ Kill(c)
  BY <1>6, RunSchemaShape, KillShape
<1>7. CASE Unlink(c) \/ RemoveDb(c)
  BY <1>7, UnlinkShape, RemoveDbShape
<1> QED BY <1>1, <1>2, <1>3, <1>4, <1>5, <1>6, <1>7 DEF CommandStep

LEMMA ProcShape ==
  ASSUME TypeOK, NEW p \in Pids, ProcStep(p)
  PROVE  /\ procs' \in [Pids -> Proc] /\ Alike
         /\ UNCHANGED <<pidFile, db, cmd, ups, crashes>>
<1>1. procs[p] \in Proc /\ procs \in [Pids -> Proc]
  BY DEF TypeOK
<1>2. CASE Boot(p) \/ Exit(p)
  <2>1. procs' \in [Pids -> Proc]
    BY <1>1, <1>2 DEF Boot, Exit, Proc, Phases
  <2>2. \A q \in Pids : /\ procs'[q].name = procs[q].name
                        /\ procs'[q].before = procs[q].before
    BY <1>1, <1>2 DEF Boot, Exit, Proc
  <2> QED BY <1>2, <2>1, <2>2, AlikeIf DEF Boot, Exit
<1>3. CASE Reuse(p)
  BY <1>3, Given DEF Reuse, Phases
<1> QED BY <1>2, <1>3 DEF ProcStep

\* A command at one of these steps has a pid at hand.
Pointed == {"alive", "open", "write", "kill"}
HasPid  == \A c \in Commands : cmd[c].pc \in Pointed => cmd[c].pid \in Pids
TypeInv == TypeOK /\ HasPid /\ \A c \in Commands : Named(c)

LEMMA FileTypes ==
  ASSUME TypeInv, NEW c \in Commands, CommandStep(c)
  PROVE  pidFile' \in [Names -> Pids \cup {NoFile, Empty}]
<1>1. CASE OpenPidFile(c)
  BY <1>1 DEF OpenPidFile, TypeInv, TypeOK
<1>2. CASE WritePidFile(c)
  <2>1. cmd[c].pid \in Pids
    BY <1>2 DEF TypeInv, HasPid, Pointed, WritePidFile, At
  <2> QED BY <1>2, <2>1 DEF WritePidFile, TypeInv, TypeOK
<1>3. CASE Unlink(c)
  BY <1>3 DEF Unlink, TypeInv, TypeOK
<1>4. CASE UNCHANGED pidFile
  BY <1>4 DEF TypeInv, TypeOK
<1> QED BY <1>1, <1>2, <1>3, <1>4 DEF CommandStep, Up, Down, Status, NextFile,
  StatusEnds, ReadPid, ReadPidAgain, Alive, Spawn, RunSchema, RunSeed, SeedFails,
  Kill, RemoveDb, Crash

LEMMA DbTypes ==
  ASSUME TypeOK, NEW c \in Commands, CommandStep(c)
  PROVE  db' \in [Names -> {NoDb} \cup Nat]
<1>1. CASE RunSchema(c)
  <2>1. \/ db' = db
        \/ db' = [db EXCEPT ![cmd[c].name] = IF @ = NoDb THEN 0 ELSE @]
    BY <1>1, RunSchemaShape
  <2>2. ASSUME NEW n \in Names PROVE db'[n] \in {NoDb} \cup Nat
    BY <2>1 DEF TypeOK
  <2>3. db' = [n \in Names |-> db'[n]]
    BY <2>1 DEF TypeOK
  <2> QED BY <2>2, <2>3
<1>2. CASE RunSeed(c)
  <2>1. \/ db' = db
        \/ db' = [db EXCEPT ![cmd[c].name] = @ + 1]
    BY <1>2 DEF RunSeed
  <2>2. ASSUME NEW n \in Names PROVE db'[n] \in {NoDb} \cup Nat
    BY <2>1 DEF TypeOK, NoDb
  <2>3. db' = [n \in Names |-> db'[n]]
    BY <2>1 DEF TypeOK
  <2> QED BY <2>2, <2>3
<1>3. CASE RemoveDb(c)
  BY <1>3 DEF RemoveDb, TypeOK
<1>4. CASE UNCHANGED db
  BY <1>4 DEF TypeOK
<1> QED BY <1>1, <1>2, <1>3, <1>4 DEF CommandStep, Up, Down, Status, NextFile,
  StatusEnds, ReadPid, ReadPidAgain, Alive, Spawn, OpenPidFile, WritePidFile,
  SeedFails, Kill, Unlink, Crash

LEMMA CountTypes ==
  ASSUME TypeOK, NEW c \in Commands, CommandStep(c)
  PROVE  ups' \in 0..MaxUps /\ crashes' \in 0..MaxCrashes
<1>1. CASE Up(c)
  BY <1>1, ConfigOK DEF Up, TypeOK
<1>2. CASE Crash(c)
  BY <1>2, ConfigOK DEF Crash, TypeOK
<1>3. CASE UNCHANGED <<ups, crashes>>
  BY <1>3 DEF TypeOK
<1> QED BY <1>1, <1>2, <1>3 DEF CommandStep, Down, Status, NextFile, StatusEnds,
  ReadPid, ReadPidAgain, Alive, Spawn, OpenPidFile, WritePidFile, RunSchema,
  RunSeed, SeedFails, Kill, Unlink, RemoveDb

\* The pid a command has after a step is one it had at hand, or has just read from
\* the pid file of its name, or has just spawned.
LEMMA PidOrigin ==
  ASSUME TypeInv, NEW c \in Commands, CommandStep(c), cmd'[c].pc \in Pointed
  PROVE  \/ cmd[c].pc \in Pointed /\ cmd'[c].name = cmd[c].name /\ cmd'[c].pid = cmd[c].pid
         \/ /\ cmd'[c].name = cmd[c].name /\ cmd[c].name \in Names
            /\ cmd'[c].pid = pidFile[cmd[c].name] /\ pidFile[cmd[c].name] \in Pids
         \/ cmd'[c].name \in Names /\ Own(cmd[c].pid, cmd[c].name)'
<1>1. CASE Up(c) \/ Down(c) \/ Status(c) \/ (\E n \in Names : NextFile(c, n))
  BY <1>1, UpShape, DownShape, StatusShape, NextFileShape DEF Pointed, TypeInv
<1>2. CASE StatusEnds(c) \/ SeedFails(c) \/ Crash(c)
  BY <1>2, EndShape DEF StatusEnds, SeedFails, Crash, Pointed, Lasts, TypeInv
<1>3. CASE ReadPid(c) \/ ReadPidAgain(c)
  <2>1. cmd[c].name \in Names
    BY <1>3 DEF ReadPid, ReadPidAgain, At, TypeInv, Named, Reading
  <2> QED BY <1>3, <2>1, ReadPidShape, ReadPidAgainShape DEF Pointed, TypeInv
<1>4. CASE Alive(c)
  BY <1>4, AliveShape DEF Pointed, TypeInv
<1>5. CASE Spawn(c) \/ OpenPidFile(c)
  <2>1. cmd[c].name \in Names
    BY <1>5 DEF Spawn, OpenPidFile, At, TypeInv, Named, Reading
  <2> QED BY <1>5, <2>1, SpawnShape, OpenPidFileShape DEF Pointed, TypeInv
<1>6. CASE WritePidFile(c) \/ RunSeed(c)
  BY <1>6, AdvanceShape DEF WritePidFile, RunSeed, Pointed, TypeInv
<1>7. CASE RunSchema(c) \/ Kill(c)
  BY <1>7, RunSchemaShape, KillShape DEF Pointed, TypeInv
<1>8. CASE Unlink(c) \/ RemoveDb(c)
  BY <1>8, UnlinkShape, RemoveDbShape DEF Pointed, TypeInv
<1> QED BY <1>1, <1>2, <1>3, <1>4, <1>5, <1>6, <1>7, <1>8 DEF CommandStep

\* A command that reads a pid file after a step has just chosen a name, or keeps it.
LEMMA NameKnown ==
  ASSUME TypeInv, NEW c \in Commands, CommandStep(c)
  PROVE  Named(c)'
<1>1. CASE Up(c) \/ Down(c) \/ Status(c) \/ (\E n \in Names : NextFile(c, n))
  BY <1>1, UpShape, DownShape, StatusShape, NextFileShape DEF Named, Reading, TypeInv
<1>2. CASE StatusEnds(c) \/ SeedFails(c) \/ Crash(c)
  BY <1>2, EndShape DEF StatusEnds, SeedFails, Crash, Named, Reading, Lasts, TypeInv
<1>3. CASE ReadPid(c) \/ ReadPidAgain(c)
  <2>1. cmd[c].name \in Names
    BY <1>3 DEF ReadPid, ReadPidAgain, At, TypeInv, Named, Reading
  <2> QED BY <1>3, <2>1, ReadPidShape, ReadPidAgainShape DEF Named, Reading, TypeInv
<1>4. CASE Alive(c)
  BY <1>4, AliveShape DEF TypeInv
<1>5. CASE Spawn(c) \/ OpenPidFile(c)
  <2>1. cmd[c].name \in Names
    BY <1>5 DEF Spawn, OpenPidFile, At, TypeInv, Named, Reading
  <2> QED BY <1>5, <2>1, SpawnShape, OpenPidFileShape DEF Named, TypeInv
<1>6. CASE WritePidFile(c) \/ RunSeed(c)
  BY <1>6, AdvanceShape DEF WritePidFile, RunSeed, TypeInv
<1>7. CASE RunSchema(c) \/ Kill(c)
  BY <1>7, RunSchemaShape, KillShape DEF Named, Reading, TypeInv
<1>8. CASE Unlink(c) \/ RemoveDb(c)
  BY <1>8, UnlinkShape, RemoveDbShape DEF Named, Reading, TypeInv
<1> QED BY <1>1, <1>2, <1>3, <1>4, <1>5, <1>6, <1>7, <1>8 DEF CommandStep

LEMMA TypeStep == ASSUME TypeInv, [Next]_vars PROVE TypeInv'
<1>1. ASSUME NEW c \in Commands, CommandStep(c) PROVE TypeInv'
  <2>1. TypeOK'
    BY <1>1, CommandShape, FileTypes, DbTypes, CountTypes
       DEF TypeInv, TypeOK, Shape, Typed
  <2>2. ASSUME NEW d \in Commands, cmd'[d].pc \in Pointed PROVE cmd'[d].pid \in Pids
    <3>1. CASE d = c
      BY <1>1, <2>2, <3>1, PidOrigin DEF TypeInv, HasPid, Own
    <3>2. CASE d # c
      BY <1>1, <2>2, <3>2, CommandShape DEF TypeInv, HasPid, Shape, Others
    <3> QED BY <3>1, <3>2
  <2>3. ASSUME NEW d \in Commands PROVE Named(d)'
    <3>1. CASE d = c
      BY <1>1, <3>1, NameKnown
    <3>2. CASE d # c
      BY <1>1, <3>2, CommandShape DEF TypeInv, Named, Shape, Others
    <3> QED BY <3>1, <3>2
  <2> QED BY <2>1, <2>2, <2>3 DEF TypeInv, HasPid
<1>2. ASSUME NEW p \in Pids, ProcStep(p) PROVE TypeInv'
  BY <1>2, ProcShape DEF TypeInv, TypeOK, HasPid, Named
<1>3. CASE UNCHANGED vars
  BY <1>3 DEF TypeInv, TypeOK, HasPid, Named, vars
<1> QED BY <1>1, <1>2, <1>3 DEF Next

LEMMA TypeInit == ASSUME Init PROVE TypeInv
<1>1. [phase |-> "free", name |-> NoName, parent |-> NoCmd, before |-> {}] \in Proc
  BY DEF Proc, Phases
<1>2. IdleCommand("none") \in Command /\ IdleCommand("none").pc = "idle"
  BY IdleType DEF Lasts
<1>3. TypeOK
  BY <1>1, <1>2, ConfigOK DEF Init, TypeOK
<1>4. HasPid /\ \A c \in Commands : Named(c)
  BY <1>2 DEF Init, HasPid, Pointed, Named, Reading
<1> QED BY <1>3, <1>4 DEF TypeInv

\* TypeOK is inductive once a command about to write a pid is known to have one.
THEOREM TypeInvariant == Spec => []TypeInv
<1> QED BY TypeInit, TypeStep, PTL DEF Spec

\* In every run files, databases, processes and commands keep their types.
THEOREM TypeCorrect == Spec => []TypeOK
<1>1. TypeInv => TypeOK
  BY DEF TypeInv
<1> QED BY <1>1, TypeInvariant, PTL

-------------------------------------------------------------------------------
(* Whose process a pid stands for.                                            *)

LEMMA OwnStep == ASSUME TypeInv, OwnPids, [Next]_vars PROVE OwnPids'
<1>1. ASSUME NEW c \in Commands, CommandStep(c) PROVE OwnPids'
  <2>1. Shape(c)
    BY <1>1, CommandShape DEF TypeInv
  <2>2. ASSUME NEW p, NEW n \in Names, Own(p, n) PROVE Own(p, n)'
    BY <2>1, <2>2 DEF Own, Shape, Alike
  <2>3. ASSUME NEW d \in Commands, cmd'[d].pc \in Pointed
        PROVE  cmd'[d].name \in Names /\ Own(cmd[d].pid, cmd[d].name)'
    <3>1. CASE d # c
      <4>1. /\ cmd[d].pc \in Pointed
            /\ cmd'[d].pid = cmd[d].pid /\ cmd'[d].name = cmd[d].name
        BY <2>1, <2>3, <3>1 DEF Shape, Others
      <4>2. cmd[d].name \in Names /\ Own(cmd[d].pid, cmd[d].name)
        BY <4>1 DEF OwnPids, Pointed
      <4> QED BY <2>2, <4>1, <4>2 DEF Own
    <3>2. CASE d = c
      <4>1. CASE cmd[c].pc \in Pointed /\ cmd'[c].name = cmd[c].name /\ cmd'[c].pid = cmd[c].pid
        <5>1. cmd[c].name \in Names /\ Own(cmd[c].pid, cmd[c].name)
          BY <4>1 DEF OwnPids, Pointed
        <5> QED BY <2>2, <3>2, <4>1, <5>1 DEF Own
      <4>2. CASE /\ cmd'[c].name = cmd[c].name /\ cmd[c].name \in Names
                 /\ cmd'[c].pid = pidFile[cmd[c].name] /\ pidFile[cmd[c].name] \in Pids
        <5>1. Own(pidFile[cmd[c].name], cmd[c].name)
          BY <4>2 DEF OwnPids
        <5>2. \A p \in Pids : Own(p, cmd[c].name) =>
                procs'[p].name = cmd[c].name \/ cmd[c].name \in procs'[p].before
          BY <2>1, <4>2 DEF Shape, Alike, Own
        <5> QED BY <3>2, <4>2, <5>1, <5>2 DEF Own
      <4> QED BY <1>1, <2>3, <3>2, <4>1, <4>2, PidOrigin
    <3> QED BY <3>1, <3>2
  <2>4. ASSUME NEW n \in Names, pidFile'[n] \in Pids PROVE Own(pidFile[n], n)'
    <3>1. CASE pidFile'[n] = pidFile[n]
      <4>1. Own(pidFile[n], n)
        BY <2>4, <3>1 DEF OwnPids
      <4> QED BY <2>2, <3>1, <4>1 DEF Own
    <3>2. CASE WritePidFile(c) /\ n = cmd[c].name /\ pidFile'[n] = cmd[c].pid
      <4>1. Own(cmd[c].pid, cmd[c].name)
        BY <3>2 DEF OwnPids, WritePidFile, At
      <4> QED BY <2>2, <2>4, <3>2, <4>1 DEF Own
    <3>3. CASE pidFile'[n] \in {NoFile, Empty}
      BY <2>4, <3>3, ConfigOK, ConfigNames DEF NoFile, Empty, Pids
    <3>4. CASE OpenPidFile(c) \/ Unlink(c) \/ WritePidFile(c)
      <4>1. pidFile \in [Names -> Pids \cup {NoFile, Empty}]
        BY DEF TypeInv, TypeOK
      <4>2. CASE OpenPidFile(c)
        BY <3>1, <3>3, <4>1, <4>2 DEF OpenPidFile
      <4>3. CASE Unlink(c)
        BY <3>1, <3>3, <4>1, <4>3 DEF Unlink
      <4>4. CASE WritePidFile(c)
        BY <3>1, <3>2, <4>1, <4>4 DEF WritePidFile
      <4> QED BY <3>4, <4>2, <4>3, <4>4
    <3> QED BY <1>1, <3>1, <3>4 DEF CommandStep, Up, Down, Status, NextFile,
      StatusEnds, ReadPid, ReadPidAgain, Alive, Spawn, RunSchema, RunSeed, SeedFails,
      Kill, RemoveDb, Crash
  <2> QED BY <2>3, <2>4 DEF OwnPids, Pointed
<1>2. ASSUME NEW p \in Pids, ProcStep(p) PROVE OwnPids'
  <2>1. Alike /\ pidFile' = pidFile /\ cmd' = cmd
    BY <1>2, ProcShape DEF TypeInv
  <2>2. ASSUME NEW q, NEW n \in Names, Own(q, n) PROVE Own(q, n)'
    BY <2>1, <2>2 DEF Own, Alike
  <2> QED BY <2>1, <2>2 DEF OwnPids, Own
<1>3. CASE UNCHANGED vars
  BY <1>3 DEF OwnPids, Own, vars
<1> QED BY <1>1, <1>2, <1>3 DEF Next

\* A pid file, and the pid a command has at hand, stand for a process of the name
\* they belong to or for whoever the system has given its pid, however commands,
\* crashes and the system's reuse of pids interleave.
THEOREM PidsAreOwn == Spec => []OwnPids
<1>1. Init => OwnPids
  BY DEF Init, OwnPids, IdleCommand, NoFile, Pids
<1>2. TypeInv /\ OwnPids /\ [Next]_vars => OwnPids'
  BY OwnStep
<1> QED BY <1>1, <1>2, TypeInvariant, PTL DEF Spec

\* In every run `efm down` signals only processes that were spawned for the service
\* it is stopping, or that the system gave the pid of one of those after its death.
THEOREM DownKillsOwn == Spec => []KillsOwn
<1>1. OwnPids => KillsOwn
  BY DEF OwnPids, KillsOwn, At, Own
<1> QED BY <1>1, PidsAreOwn, PTL

-------------------------------------------------------------------------------
(* How often a database is seeded.                                            *)

LEMMA SeedFrame ==
  ASSUME SeedInv, NEW c \in Commands, Others(c), cmd'[c].pc # "seed", UNCHANGED db
  PROVE  SeedInv'
BY DEF SeedInv, Seeding, Others

LEMMA SeedStep == ASSUME TypeInv, SeedInv, [Next]_vars PROVE SeedInv'
<1>1. ASSUME NEW c \in Commands, CommandStep(c) PROVE SeedInv'
  <2>1. Shape(c) /\ Others(c)
    BY <1>1, CommandShape DEF TypeInv, Shape
  <2>2. CASE Up(c) \/ Down(c) \/ Status(c) \/ (\E n \in Names : NextFile(c, n))
    BY <2>1, <2>2, SeedFrame, UpShape, DownShape, StatusShape, NextFileShape
       DEF Up, Down, Status, NextFile, TypeInv
  <2>3. CASE StatusEnds(c) \/ SeedFails(c) \/ Crash(c)
    BY <2>1, <2>3, SeedFrame, EndShape DEF StatusEnds, SeedFails, Crash, Lasts, TypeInv
  <2>4. CASE ReadPid(c) \/ ReadPidAgain(c) \/ Alive(c)
    BY <2>1, <2>4, SeedFrame, ReadPidShape, ReadPidAgainShape, AliveShape
       DEF ReadPid, ReadPidAgain, Alive, TypeInv
  <2>5. CASE Spawn(c) \/ OpenPidFile(c) \/ Kill(c)
    BY <2>1, <2>5, SeedFrame, SpawnShape, OpenPidFileShape, KillShape
       DEF Spawn, OpenPidFile, Kill, TypeInv
  <2>6. CASE WritePidFile(c)
    BY <2>1, <2>6, SeedFrame, AdvanceShape DEF WritePidFile, TypeInv
  <2>7. CASE Unlink(c)
    BY <2>1, <2>7, SeedFrame, UnlinkShape DEF Unlink, TypeInv
  <2>8. CASE RunSchema(c)
    <3>1. ASSUME cmd'[c].pc = "seed", cmd'[c].name = cmd[c].name,
                 db[cmd[c].name] = NoDb \/ cmd[c].name \in Rerunnable,
                 db' = [db EXCEPT ![cmd[c].name] = IF @ = NoDb THEN 0 ELSE @]
          PROVE  SeedInv'
      <4>1. db \in [Names -> {NoDb} \cup Nat]
        BY DEF TypeInv, TypeOK
      <4>2. ASSUME NEW n \in Sqlite \ Rerunnable, n # cmd[c].name
            PROVE  db'[n] = db[n] /\ ~Seeding(c, n)'
        BY <3>1, <4>1, <4>2 DEF Seeding
      <4>3. ASSUME NEW n \in Sqlite \ Rerunnable, n = cmd[c].name
            PROVE  db'[n] = 0 /\ \A d \in Commands : ~Seeding(d, n)
        BY <3>1, <4>1, <4>3 DEF SeedInv, Names, NoDb
      <4>4. \A d \in Commands, n \in Names : d # c /\ Seeding(d, n)' => Seeding(d, n)
        BY <2>1 DEF Others, Seeding
      <4> QED BY <4>2, <4>3, <4>4 DEF SeedInv, Names
    <3> QED BY <2>1, <2>8, <3>1, SeedFrame, RunSchemaShape DEF TypeInv
  <2>9. CASE RunSeed(c)
    <3>1. cmd'[c].pc # "seed"
      BY <2>9, AdvanceShape DEF RunSeed, TypeInv
    <3>2. CASE ~cmd[c].linked
      BY <2>1, <2>9, <3>1, <3>2, SeedFrame DEF RunSeed
    <3>3. CASE cmd[c].linked
      <4>1. cmd[c].pc = "seed" /\ db' = [db EXCEPT ![cmd[c].name] = @ + 1]
        BY <2>9, <3>3 DEF RunSeed, At
      <4>2. db \in [Names -> {NoDb} \cup Nat]
        BY DEF TypeInv, TypeOK
      <4>3. ASSUME NEW n \in Sqlite \ Rerunnable, n # cmd[c].name PROVE db'[n] = db[n]
        BY <4>1, <4>2, <4>3
      <4>4. ASSUME NEW n \in Sqlite \ Rerunnable, n = cmd[c].name
            PROVE  db'[n] = 1 /\ \A d \in Commands : d # c => ~Seeding(d, n)
        BY <3>3, <4>1, <4>2, <4>4 DEF SeedInv, Seeding, Names
      <4>5. \A d \in Commands, n \in Names : Seeding(d, n)' => d # c /\ Seeding(d, n)
        BY <2>1, <3>1 DEF Others, Seeding
      <4> QED BY <4>3, <4>4, <4>5 DEF SeedInv, Names
    <3> QED BY <3>2, <3>3
  <2>10. CASE RemoveDb(c)
    <3>1. /\ cmd'[c].pc # "seed"
          /\ \A d \in Commands : d # c /\ cmd[d].name = cmd[c].name /\ cmd[d].pc = "seed"
                                   => ~cmd'[d].linked
      BY <2>10, RemoveDbShape DEF TypeInv
    <3>2. db' = IF cmd[c].name \in Sqlite THEN [db EXCEPT ![cmd[c].name] = NoDb] ELSE db
      BY <2>10 DEF RemoveDb
    <3>3. db \in [Names -> {NoDb} \cup Nat]
      BY DEF TypeInv, TypeOK
    <3>4. \A d \in Commands, n \in Names : Seeding(d, n)' => d # c /\ Seeding(d, n) /\ n # cmd[c].name
      BY <2>1, <3>1 DEF Others, Seeding
    <3>5. \A n \in Sqlite \ Rerunnable : db'[n] = IF n = cmd[c].name THEN NoDb ELSE db[n]
      BY <3>2, <3>3 DEF Names
    <3> QED BY <3>4, <3>5 DEF SeedInv, NoDb, Names
  <2> QED BY <1>1, <2>2, <2>3, <2>4, <2>5, <2>6, <2>7, <2>8, <2>9, <2>10 DEF CommandStep
<1>2. ASSUME NEW p \in Pids, ProcStep(p) PROVE SeedInv'
  BY <1>2, ProcShape DEF TypeInv, SeedInv, Seeding
<1>3. CASE UNCHANGED vars
  BY <1>3 DEF SeedInv, Seeding, vars
<1> QED BY <1>1, <1>2, <1>3 DEF Next

\* However many command lines are open and wherever they are killed, the seed of a
\* plain schema is in a database file once at most.
THEOREM NeverSeededTwice == Spec => []SeededOnce
<1>1. Init => SeedInv
  BY DEF Init, SeedInv, Seeding, IdleCommand, NoDb, Names
<1>2. TypeInv /\ SeedInv /\ [Next]_vars => SeedInv'
  BY SeedStep
<1>3. SeedInv => SeededOnce
  BY DEF SeedInv, SeededOnce
<1> QED BY <1>1, <1>2, <1>3, TypeInvariant, PTL DEF Spec

-------------------------------------------------------------------------------
(* One command line at a time: what `efm up` and `efm down` leave behind.     *)

OneShell  == \A c, d \in Commands : c = d
AllListed == \A n \in Names : \E i \in 1..Len(Config) : Config[i] = n

\* A mock server that `up` has spawned and has no pid file for yet.
Holding == {"open", "write"}
Held    == {cmd[c].pid : c \in {d \in Commands : cmd[d].pc \in Holding}}

\* What a service looks like once `up` has dealt with it.
Delivered(n) == IF n \in Http THEN pidFile[n] \in Pids ELSE db[n] # NoDb /\ db[n] >= 1

\* Which command is at which step, and for which service.
Control(c) ==
  /\ cmd[c].op = "none" <=> cmd[c].pc = "idle"
  /\ cmd[c].pc \in {"reread", "spawn", "open", "write", "schema", "seed"} => cmd[c].op = "up"
  /\ cmd[c].pc \in {"kill", "rm"} => cmd[c].op = "down"
  /\ cmd[c].pc = "unlink" => cmd[c].op \in {"down", "status"}
  /\ cmd[c].pc = "next" => cmd[c].op = "status"
  /\ cmd[c].op # "none" => cmd[c].last = "none"
  /\ cmd[c].op \in {"up", "down"} => cmd[c].name = Config[cmd[c].at]
  /\ cmd[c].pc \notin {"idle", "next"} => cmd[c].name \in Names
  /\ cmd[c].pc \in {"spawn", "open", "write"} => cmd[c].name \in Http
  /\ cmd[c].pc \in {"schema", "seed"} => cmd[c].name \in Sqlite
  /\ cmd[c].linked

\* Servers are of http services, which alone have pid files; they have no database.
Kinds ==
  /\ \A p \in Live : procs[p].name \in Http
  /\ \A n \in Sqlite : pidFile[n] = NoFile
  /\ \A n \in Http : db[n] = NoDb

\* What a command knows of the pid file of its service: it is about to overwrite or
\* to remove one that no live server depends on.
Known(c) ==
  /\ cmd[c].pc \in {"spawn", "unlink"} => pidFile[cmd[c].name] \notin Live
  /\ cmd[c].pc = "open" /\ pidFile[cmd[c].name] \in Live => pidFile[cmd[c].name] = cmd[c].pid
  /\ cmd[c].pc = "write" => pidFile[cmd[c].name] = Empty
  /\ cmd[c].pc \in {"alive", "kill"} => pidFile[cmd[c].name] = cmd[c].pid
  /\ cmd[c].pc \in Holding /\ cmd[c].pid \in Live => procs[cmd[c].pid].name = cmd[c].name

\* How many servers are lost.
Lost == Cardinality(Untracked \ Held) <= crashes

\* How far `down` has come, and what it leaves.
Before(c) == {k \in 1..Len(Config) : k < cmd[c].at}
Downed(c) ==
  /\ cmd[c].op = "down" /\ cmd[c].pc # "rm" =>
       \A k \in Before(c) : pidFile[Config[k]] = NoFile
  /\ cmd[c].pc = "rm" => /\ \A n \in Names : pidFile[n] = NoFile
                         /\ \A k \in Before(c) : db[Config[k]] = NoDb
  /\ cmd[c].last = "down" => \A n \in Names : pidFile[n] = NoFile /\ db[n] = NoDb

\* How far `up` has come, and what it leaves.
Upped(c) ==
  /\ cmd[c].pc = "seed" => db[cmd[c].name] # NoDb
  /\ cmd[c].op = "up" =>
       \A k \in Before(c) :
         Delivered(Config[k]) \/ (cmd[c].pc = "write" /\ Config[k] = cmd[c].name)
  /\ cmd[c].last = "up" => \A n \in Names : Delivered(n)

ShellInv ==
  /\ Kinds /\ Lost
  /\ \A c \in Commands : Control(c) /\ Known(c) /\ Downed(c) /\ Upped(c)

\* What a step leaves of its command; its file stays linked.
Now(c, op, pc, at, name, last) ==
  /\ cmd'[c].op = op /\ cmd'[c].pc = pc /\ cmd'[c].at = at /\ cmd'[c].name = name
  /\ cmd'[c].last = last /\ cmd'[c].linked

\* The live servers are those there were.
SameServers == Live' = Live /\ \A p \in Pids : procs'[p].name = procs[p].name

LEMMA SameProcs == ASSUME UNCHANGED procs PROVE SameServers
BY DEF SameServers, Live

LEMMA EndEffect ==
  ASSUME TypeOK, NEW c \in Commands, NEW last, End(c, last)
  PROVE  Now(c, "none", "idle", 1, NoName, last) /\ SameServers
<1>1. cmd'[c] = IdleCommand(last)
  BY DEF End, Set, TypeOK
<1>2. \A p \in Pids : /\ procs'[p].name = procs[p].name
                      /\ procs'[p].phase \in {"booting", "serving"}
                           <=> procs[p].phase \in {"booting", "serving"}
  BY DEF End, TypeOK, Proc
<1> QED BY <1>1, <1>2 DEF Now, IdleCommand, SameServers, Live

LEMMA GotoEffect ==
  ASSUME TypeOK, NEW c \in Commands, cmd[c].linked, NEW pc, Goto(c, pc)
  PROVE  /\ Now(c, cmd[c].op, pc, cmd[c].at, cmd[c].name, cmd[c].last)
         /\ cmd'[c].pid = cmd[c].pid
<1>1. cmd[c] \in Command /\ cmd'[c] = [cmd[c] EXCEPT !.pc = pc]
  BY DEF Goto, Set, TypeOK
<1> QED BY <1>1 DEF Now, Command

LEMMA VisitEffect ==
  ASSUME TypeOK, NEW c \in Commands, cmd[c].linked, NEW i, NEW pc, Visit(c, i, pc)
  PROVE  Now(c, cmd[c].op, pc, i, Config[i], cmd[c].last)
<1>1. /\ cmd[c] \in Command
      /\ cmd'[c] = [cmd[c] EXCEPT !.at = i, !.name = Config[i], !.pc = pc, !.pid = NoPid]
  BY DEF Visit, Set, TypeOK
<1> QED BY <1>1 DEF Now, Command

\* A step that is through with the service at hand.
Onwards(c) ==
  \/ /\ cmd[c].op \in {"up", "down"} /\ cmd[c].at < Len(Config)
     /\ Now(c, cmd[c].op, "read", cmd[c].at + 1, Config[cmd[c].at + 1], cmd[c].last)
  \/ /\ cmd[c].op = "up" /\ cmd[c].at = Len(Config)
     /\ Now(c, "none", "idle", 1, NoName, "up")
  \/ /\ cmd[c].op = "down" /\ cmd[c].at = Len(Config)
     /\ Now(c, "down", "rm", 1, Config[1], cmd[c].last)
  \/ /\ cmd[c].op = "status"
     /\ Now(c, "status", "next", cmd[c].at, cmd[c].name, cmd[c].last)

LEMMA AdvanceEffect ==
  ASSUME TypeOK, NEW c \in Commands, cmd[c].linked, Advance(c)
  PROVE  Onwards(c) /\ SameServers
<1>1. CASE /\ cmd[c].op \in {"up", "down"} /\ cmd[c].at < Len(Config)
           /\ Visit(c, cmd[c].at + 1, "read") /\ UNCHANGED procs
  BY <1>1, VisitEffect, SameProcs DEF Onwards
<1>2. CASE cmd[c].op = "up" /\ cmd[c].at = Len(Config) /\ End(c, "up")
  BY <1>2, EndEffect DEF Onwards
<1>3. CASE /\ cmd[c].op = "down" /\ cmd[c].at = Len(Config)
           /\ Visit(c, 1, "rm") /\ UNCHANGED procs
  BY <1>3, VisitEffect, SameProcs DEF Onwards
<1>4. CASE cmd[c].op = "status" /\ Goto(c, "next") /\ UNCHANGED procs
  BY <1>4, GotoEffect, SameProcs DEF Onwards
<1> QED BY <1>1, <1>2, <1>3, <1>4 DEF Advance

LEMMA StartEffect ==
  ASSUME TypeOK, NEW c \in Commands
  PROVE  /\ Up(c) => Now(c, "up", "read", 1, Config[1], "none")
         /\ Down(c) => Now(c, "down", "read", 1, Config[1], "none")
         /\ Status(c) => Now(c, "status", "next", 1, NoName, "none")
<1> DEFINE Begun(op) == [IdleCommand("none") EXCEPT !.op = op, !.pc = "read",
                                                   !.name = Config[1]]
<1>1. ASSUME NEW op, Set(c, Begun(op)) PROVE Now(c, op, "read", 1, Config[1], "none")
  BY <1>1 DEF Set, TypeOK, IdleCommand, Now
<1>2. Status(c) => Now(c, "status", "next", 1, NoName, "none")
  BY DEF Status, Set, TypeOK, IdleCommand, Now
<1>3. /\ Up(c) => Set(c, Begun("up"))
      /\ Down(c) => Set(c, Begun("down"))
  BY DEF Up, Down
<1> HIDE DEF Begun
<1> QED BY <1>1, <1>2, <1>3

LEMMA NextFileEffect ==
  ASSUME TypeOK, NEW c \in Commands, cmd[c].linked, NEW n, NextFile(c, n)
  PROVE  Now(c, cmd[c].op, "read", cmd[c].at, n, cmd[c].last)
<1>1. /\ cmd[c] \in Command
      /\ cmd'[c] = [cmd[c] EXCEPT !.pc = "read", !.name = n, !.todo = @ \ {n}]
  BY DEF NextFile, Set, TypeOK
<1> QED BY <1>1 DEF Now, Command

Stay(c, pc) == Now(c, cmd[c].op, pc, cmd[c].at, cmd[c].name, cmd[c].last)

LEMMA ReadPidEffect ==
  ASSUME TypeOK, NEW c \in Commands, cmd[c].linked, ReadPid(c)
  PROVE  \/ /\ pidFile[cmd[c].name] \in Pids /\ cmd'[c].pid = pidFile[cmd[c].name]
            /\ Stay(c, IF cmd[c].op = "up" THEN "reread" ELSE "alive")
         \/ /\ pidFile[cmd[c].name] \notin Pids
            /\ Stay(c, IF cmd[c].op # "up" THEN "unlink"
                       ELSE IF cmd[c].name \in Http THEN "spawn" ELSE "schema")
<1> DEFINE p == Stored(cmd[c].name)
           pc == IF p = NoPid
                 THEN IF cmd[c].op # "up" THEN "unlink"
                      ELSE IF cmd[c].name \in Http THEN "spawn" ELSE "schema"
                 ELSE IF cmd[c].op = "up" THEN "reread" ELSE "alive"
<1>1. cmd[c] \in Command /\ cmd'[c] = [cmd[c] EXCEPT !.pid = p, !.pc = pc]
  BY DEF ReadPid, Set, TypeOK
<1>2. p = NoPid <=> pidFile[cmd[c].name] \notin Pids
  BY DEF Stored, NoPid, Pids
<1>3. pidFile[cmd[c].name] \in Pids => p = pidFile[cmd[c].name]
  BY DEF Stored
<1> HIDE DEF p
<1>4. Stay(c, pc) /\ cmd'[c].pid = p
  BY <1>1 DEF Stay, Now, Command
<1> QED BY <1>2, <1>3, <1>4

LEMMA ReadPidAgainEffect ==
  ASSUME TypeOK, NEW c \in Commands, cmd[c].linked, ReadPidAgain(c)
  PROVE  /\ SameServers
         /\ \/ Now(c, "none", "idle", 1, NoName, "failed")
            \/ Stay(c, "alive") /\ cmd'[c].pid = pidFile[cmd[c].name]
<1> DEFINE p == Stored(cmd[c].name)
<1>1. CASE p = NoPid
  BY <1>1, EndEffect DEF ReadPidAgain
<1>2. CASE p # NoPid
  <2>1. /\ cmd[c] \in Command /\ cmd'[c] = [cmd[c] EXCEPT !.pid = p, !.pc = "alive"]
        /\ UNCHANGED procs
    BY <1>2 DEF ReadPidAgain, Set, TypeOK
  <2>2. p = pidFile[cmd[c].name]
    BY <1>2 DEF Stored
  <2> HIDE DEF p
  <2>3. Stay(c, "alive") /\ cmd'[c].pid = p
    BY <2>1 DEF Stay, Now, Command
  <2> QED BY <2>1, <2>2, <2>3, SameProcs
<1> QED BY <1>1, <1>2

LEMMA AliveEffect ==
  ASSUME TypeOK, NEW c \in Commands, cmd[c].linked, Alive(c)
  PROVE  /\ SameServers
         /\ \/ /\ cmd[c].pid \notin Live
               /\ Stay(c, IF cmd[c].op # "up" THEN "unlink"
                          ELSE IF cmd[c].name \in Http THEN "spawn" ELSE "schema")
            \/ cmd[c].op = "down" /\ Stay(c, "kill") /\ cmd'[c].pid = cmd[c].pid
            \/ cmd[c].op # "down" /\ Onwards(c)
<1>1. CASE ~IsRunning(cmd[c].pid)
  <2>1. cmd[c].pid \notin Live
    BY <1>1 DEF IsRunning, Live
  <2> QED BY <1>1, <2>1, GotoEffect, SameProcs DEF Alive, Stay
<1>2. CASE IsRunning(cmd[c].pid) /\ cmd[c].op = "down"
  BY <1>2, GotoEffect, SameProcs DEF Alive, Stay
<1>3. CASE IsRunning(cmd[c].pid) /\ cmd[c].op # "down"
  BY <1>3, AdvanceEffect DEF Alive
<1> QED BY <1>1, <1>2, <1>3

LEMMA SpawnEffect ==
  ASSUME TypeOK, NEW c \in Commands, cmd[c].linked, Spawn(c)
  PROVE  /\ Stay(c, "open")
         /\ cmd'[c].pid \in Pids \ Live /\ Live' = Live \cup {cmd'[c].pid}
         /\ \A p \in Pids : procs'[p].name = IF p = cmd'[c].pid THEN cmd[c].name
                                             ELSE procs[p].name
<1>1. PICK p \in Pids :
        /\ procs[p].phase \in {"free", "gone"}
        /\ procs' = [procs EXCEPT ![p] = [phase |-> "booting", name |-> cmd[c].name,
                                          parent |-> c, before |-> Former(p)]]
        /\ Set(c, [cmd[c] EXCEPT !.pid = p, !.pc = "open"])
  BY DEF Spawn, Unused, Reusable
<1>2. cmd[c] \in Command /\ cmd'[c] = [cmd[c] EXCEPT !.pid = p, !.pc = "open"]
  BY <1>1 DEF Set, TypeOK
<1>3. Stay(c, "open") /\ cmd'[c].pid = p
  BY <1>2 DEF Stay, Now, Command
<1>4. /\ p \notin Live /\ Live' = Live \cup {p}
      /\ \A q \in Pids : procs'[q].name = IF q = p THEN cmd[c].name ELSE procs[q].name
  BY <1>1 DEF Live, TypeOK
<1> QED BY <1>3, <1>4

LEMMA OpenPidFileEffect ==
  ASSUME TypeOK, NEW c \in Commands, OpenPidFile(c)
  PROVE  Stay(c, "write") /\ cmd'[c].pid = cmd[c].pid
<1>1. cmd[c] \in Command /\ cmd'[c] = [cmd[c] EXCEPT !.pc = "write", !.linked = TRUE]
  BY DEF OpenPidFile, Set, TypeOK
<1> QED BY <1>1 DEF Stay, Now, Command

LEMMA RunSchemaEffect ==
  ASSUME TypeOK, NEW c \in Commands, RunSchema(c)
  PROVE  /\ SameServers
         /\ \/ Now(c, "none", "idle", 1, NoName, "failed") /\ db' = db
            \/ /\ Stay(c, "seed")
               /\ db' = [db EXCEPT ![cmd[c].name] = IF @ = NoDb THEN 0 ELSE @]
<1>1. CASE End(c, "failed") /\ UNCHANGED db
  BY <1>1, EndEffect
<1>2. CASE /\ db' = [db EXCEPT ![cmd[c].name] = IF @ = NoDb THEN 0 ELSE @]
           /\ Set(c, [cmd[c] EXCEPT !.pc = "seed", !.linked = TRUE])
           /\ UNCHANGED procs
  <2>1. cmd[c] \in Command /\ cmd'[c] = [cmd[c] EXCEPT !.pc = "seed", !.linked = TRUE]
    BY <1>2 DEF Set, TypeOK
  <2>2. Stay(c, "seed")
    BY <2>1 DEF Stay, Now, Command
  <2> QED BY <1>2, <2>2, SameProcs
<1> QED BY <1>1, <1>2 DEF RunSchema

LEMMA KillEffect ==
  ASSUME TypeOK, NEW c \in Commands, cmd[c].linked, Kill(c)
  PROVE  /\ Stay(c, "unlink")
         /\ Live' = Live \ {cmd[c].pid} /\ \A p \in Pids : procs'[p].name = procs[p].name
<1>1. Stay(c, "unlink")
  BY GotoEffect DEF Kill, Stay
<1>2. procs' = [procs EXCEPT ![cmd[c].pid].phase =
                  IF cmd[c].pid \in Live THEN "stopping" ELSE @]
  BY DEF Kill
<1>3. procs \in [Pids -> Proc]
  BY DEF TypeOK
<1>4. ASSUME NEW p \in Pids, p # cmd[c].pid PROVE procs'[p] = procs[p]
  BY <1>2, <1>3, <1>4
<1>5. ASSUME cmd[c].pid \in Pids
      PROVE  /\ procs'[cmd[c].pid].name = procs[cmd[c].pid].name
             /\ procs'[cmd[c].pid].phase \notin {"booting", "serving"}
  BY <1>2, <1>3, <1>5 DEF Live, Proc
<1> QED BY <1>1, <1>4, <1>5 DEF Live

LEMMA UnlinkEffect ==
  ASSUME TypeOK, NEW c \in Commands, cmd[c].linked, Unlink(c)
  PROVE  Onwards(c)
<1> DEFINE i == cmd[c].at
           r == IF cmd[c].op = "status" THEN [cmd[c] EXCEPT !.pc = "next"]
                ELSE IF i < Len(Config)
                THEN [cmd[c] EXCEPT !.at = i + 1, !.name = Config[i + 1],
                                    !.pc = "read", !.pid = NoPid]
                ELSE [cmd[c] EXCEPT !.at = 1, !.name = Config[1],
                                    !.pc = "rm", !.pid = NoPid]
<1>1. /\ cmd[c] \in Command /\ i \in 1..Len(Config) /\ cmd[c].op \in {"down", "status"}
      /\ cmd'[c] = r
  BY CommandType DEF Command, Unlink, Unlinked, At
<1>2. Len(Config) \in Nat
  BY ConfigNames
<1>3. CASE cmd[c].op = "status"
  BY <1>1, <1>3 DEF Onwards, Now, Command
<1>4. CASE cmd[c].op = "down" /\ i < Len(Config)
  BY <1>1, <1>4 DEF Onwards, Now, Command
<1>5. CASE cmd[c].op = "down" /\ ~(i < Len(Config))
  <2>1. i = Len(Config)
    BY <1>1, <1>2, <1>5
  <2> QED BY <1>1, <1>5, <2>1 DEF Onwards, Now, Command
<1> QED BY <1>1, <1>3, <1>4, <1>5

LEMMA RemoveDbEffect ==
  ASSUME TypeOK, NEW c \in Commands, cmd[c].linked, RemoveDb(c)
  PROVE  \/ /\ cmd[c].at < Len(Config)
            /\ Now(c, "down", "rm", cmd[c].at + 1, Config[cmd[c].at + 1], cmd[c].last)
         \/ cmd[c].at = Len(Config) /\ Now(c, "none", "idle", 1, NoName, "down")
<1> DEFINE i == cmd[c].at
<1>1. /\ cmd[c] \in Command /\ i \in 1..Len(Config) /\ Len(Config) \in Nat
      /\ cmd[c].op = "down" /\ cmd[c].pc = "rm"
  BY CommandType, ConfigNames DEF Command, RemoveDb, At
<1>2. CASE i < Len(Config)
  <2>1. cmd'[c] = [cmd[c] EXCEPT !.at = i + 1, !.name = Config[i + 1]]
    BY <1>2 DEF RemoveDb, Unlinked
  <2> QED BY <1>1, <1>2, <2>1 DEF Now, Command
<1>3. CASE ~(i < Len(Config))
  <2>1. cmd'[c] = IdleCommand("down")
    BY <1>3 DEF RemoveDb, Unlinked
  <2> QED BY <1>1, <1>3, <2>1 DEF Now, IdleCommand
<1> QED BY <1>2, <1>3

LEMMA ControlOnwards ==
  ASSUME TypeOK, NEW c \in Commands, Control(c), Onwards(c)
  PROVE  Control(c)'
<1>1. cmd[c].at \in 1..Len(Config)
  BY CommandType DEF Command
<1>2. \A i \in 1..Len(Config) : Config[i] \in Names
  BY ConfigNames
<1>3. cmd[c].at < Len(Config) => cmd[c].at + 1 \in 1..Len(Config)
  BY <1>1, ConfigNames
<1>4. 1 \in 1..Len(Config)
  BY ConfigNames
<1> QED BY <1>2, <1>3, <1>4 DEF Onwards, Now, Control

LEMMA ControlStep ==
  ASSUME TypeOK, NEW c \in Commands, Control(c), CommandStep(c)
  PROVE  Control(c)'
<1>1. cmd[c].linked /\ \A n \in Names : n \notin Http => n \in Sqlite
  BY DEF Control, Names
<1>2. CASE Up(c) \/ Down(c) \/ Status(c)
  BY <1>2, StartEffect, ConfigNames DEF Control, Now
<1>3. CASE \E n \in Names : NextFile(c, n)
  BY <1>1, <1>3, NextFileEffect DEF Control, Now, NextFile, At
<1>4. CASE StatusEnds(c) \/ SeedFails(c) \/ Crash(c)
  BY <1>4, EndEffect DEF StatusEnds, SeedFails, Crash, Control, Now
<1>5. CASE ReadPid(c)
  BY <1>1, <1>5, ReadPidEffect DEF ReadPid, At, Control, Stay, Now
<1>6. CASE ReadPidAgain(c)
  BY <1>1, <1>6, ReadPidAgainEffect DEF ReadPidAgain, At, Control, Stay, Now
<1>7. CASE Alive(c)
  <2>1. CASE Onwards(c)
    BY <2>1, ControlOnwards
  <2>2. CASE ~Onwards(c)
    BY <1>1, <1>7, <2>2, AliveEffect DEF Alive, At, Control, Stay, Now
  <2> QED BY <2>1, <2>2
<1>8. CASE Spawn(c) \/ OpenPidFile(c)
  BY <1>1, <1>8, SpawnEffect, OpenPidFileEffect
     DEF Spawn, OpenPidFile, At, Control, Stay, Now
<1>9. CASE WritePidFile(c) \/ RunSeed(c)
  BY <1>1, <1>9, AdvanceEffect, ControlOnwards DEF WritePidFile, RunSeed
<1>10. CASE RunSchema(c)
  BY <1>10, RunSchemaEffect DEF RunSchema, At, Control, Stay, Now
<1>11. CASE Kill(c)
  BY <1>1, <1>11, KillEffect DEF Kill, At, Control, Stay, Now
<1>12. CASE Unlink(c)
  BY <1>1, <1>12, UnlinkEffect, ControlOnwards
<1>13. CASE RemoveDb(c)
  <2>1. cmd[c].at \in 1..Len(Config)
    BY CommandType DEF Command
  <2>2. cmd[c].at < Len(Config) => Config[cmd[c].at + 1] \in Names
    BY <2>1, ConfigNames
  <2> QED BY <1>1, <1>13, <2>2, RemoveDbEffect DEF RemoveDb, At, Control, Now
<1> QED BY <1>2, <1>3, <1>4, <1>5, <1>6, <1>7, <1>8, <1>9, <1>10, <1>11, <1>12, <1>13
        DEF CommandStep

\* Most steps touch no table.
NoTable == pidFile' = pidFile /\ db' = db /\ SameServers

LEMMA NoTables ==
  ASSUME TypeOK, NEW c \in Commands, cmd[c].linked, CommandStep(c)
  PROVE  \/ NoTable \/ Spawn(c) \/ OpenPidFile(c) \/ WritePidFile(c)
         \/ (RunSchema(c) /\ Stay(c, "seed")) \/ RunSeed(c) \/ Kill(c)
         \/ Unlink(c) \/ RemoveDb(c)
<1>1. CASE Up(c) \/ Down(c) \/ Status(c) \/ (\E n \in Names : NextFile(c, n)) \/ ReadPid(c)
  BY <1>1, SameProcs DEF Up, Down, Status, NextFile, ReadPid, NoTable
<1>2. CASE StatusEnds(c) \/ SeedFails(c) \/ Crash(c)
  BY <1>2, EndEffect DEF StatusEnds, SeedFails, Crash, NoTable
<1>3. CASE ReadPidAgain(c) \/ Alive(c)
  BY <1>3, ReadPidAgainEffect, AliveEffect DEF ReadPidAgain, Alive, NoTable
<1>4. CASE RunSchema(c) /\ ~Stay(c, "seed")
  BY <1>4, RunSchemaEffect DEF RunSchema, NoTable
<1> QED BY <1>1, <1>2, <1>3, <1>4 DEF CommandStep

LEMMA KindsStep ==
  ASSUME TypeInv, Kinds, NEW c \in Commands, Control(c), CommandStep(c)
  PROVE  Kinds'
<1>1. cmd[c].linked /\ Http \cap Sqlite = {} /\ Live \subseteq Pids
  BY ConfigOK DEF Control, Live
<1>2. pidFile \in [Names -> Pids \cup {NoFile, Empty}] /\ db \in [Names -> {NoDb} \cup Nat]
  BY DEF TypeInv, TypeOK
<1>3. CASE NoTable
  BY <1>1, <1>3 DEF NoTable, SameServers, Kinds
<1>4. CASE Spawn(c)
  <2>1. cmd[c].name \in Http /\ UNCHANGED <<pidFile, db>>
    BY <1>4 DEF Spawn, At, Control
  <2>2. \A p \in Live' : procs'[p].name \in Http
    BY <1>1, <1>4, <2>1, SpawnEffect DEF TypeInv, Kinds
  <2> QED BY <2>1, <2>2 DEF Kinds
<1>5. CASE OpenPidFile(c) \/ WritePidFile(c)
  <2>1. cmd[c].name \in Http /\ UNCHANGED db /\ SameServers
    BY <1>1, <1>5, SameProcs, AdvanceEffect
       DEF OpenPidFile, WritePidFile, At, Control, TypeInv
  <2>2. \A n \in Sqlite : pidFile'[n] = pidFile[n]
    BY <1>1, <1>2, <1>5, <2>1 DEF OpenPidFile, WritePidFile, Names
  <2> QED BY <1>1, <2>1, <2>2 DEF SameServers, Kinds
<1>6. CASE RunSchema(c) \/ RunSeed(c)
  <2>1. cmd[c].name \in Sqlite /\ UNCHANGED pidFile /\ SameServers
    BY <1>1, <1>6, RunSchemaEffect, AdvanceEffect
       DEF RunSchema, RunSeed, At, Control, TypeInv
  <2>2. \A n \in Http : db'[n] = db[n]
    BY <1>1, <1>2, <1>6, <2>1, RunSchemaEffect DEF RunSeed, Names, TypeInv
  <2> QED BY <1>1, <2>1, <2>2 DEF SameServers, Kinds
<1>7. CASE Kill(c)
  BY <1>1, <1>7, KillEffect DEF Kill, Kinds, TypeInv
<1>8. CASE Unlink(c)
  <2>1. UNCHANGED db /\ SameServers /\ \A n \in Sqlite : pidFile'[n] = NoFile
    BY <1>2, <1>8, SameProcs DEF Unlink, Kinds, Names
  <2> QED BY <1>1, <2>1 DEF SameServers, Kinds
<1>9. CASE RemoveDb(c)
  <2>1. UNCHANGED pidFile /\ SameServers /\ \A n \in Http : db'[n] = NoDb
    BY <1>2, <1>9, SameProcs DEF RemoveDb, Kinds, Names
  <2> QED BY <1>1, <2>1 DEF SameServers, Kinds
<1> QED BY <1>1, <1>3, <1>4, <1>5, <1>6, <1>7, <1>8, <1>9, NoTables DEF TypeInv

LEMMA KnownStep ==
  ASSUME TypeInv, NEW c \in Commands, Control(c), Known(c), CommandStep(c)
  PROVE  Known(c)'
<1>1. cmd[c].linked /\ Live \subseteq Pids
  BY DEF Control, Live
<1>2. CASE cmd'[c].pc \in {"idle", "read", "rm", "next", "reread", "schema", "seed"}
  BY <1>2 DEF Known, Holding
<1>3. CASE ReadPid(c)
  BY <1>1, <1>2, <1>3, ReadPidEffect DEF ReadPid, Stay, Now, Known, Holding, TypeInv, Live
<1>4. CASE ReadPidAgain(c)
  BY <1>1, <1>4, ReadPidAgainEffect DEF ReadPidAgain, Stay, Now, Known, Holding, TypeInv
<1>5. CASE Alive(c)
  <2>1. pidFile' = pidFile /\ pidFile[cmd[c].name] = cmd[c].pid
    BY <1>5 DEF Alive, At, Known
  <2>2. CASE Onwards(c)
    BY <1>2, <2>2 DEF Onwards, Now
  <2>3. CASE ~Onwards(c)
    BY <1>1, <1>5, <2>1, <2>3, AliveEffect
       DEF Stay, Now, Known, Holding, TypeInv, SameServers
  <2> QED BY <2>2, <2>3
<1>6. CASE Spawn(c)
  <2>1. pidFile' = pidFile /\ pidFile[cmd[c].name] \notin Live
    BY <1>6 DEF Spawn, At, Known
  <2> QED BY <1>1, <1>6, <2>1, SpawnEffect DEF Stay, Now, Known, Holding, TypeInv
<1>7. CASE OpenPidFile(c)
  <2>1. /\ UNCHANGED procs /\ cmd[c].pc = "open" /\ cmd[c].name \in Names
        /\ pidFile' = [pidFile EXCEPT ![cmd[c].name] = Empty]
    BY <1>7 DEF OpenPidFile, At, Control
  <2>2. pidFile'[cmd[c].name] = Empty /\ Live' = Live
    BY <2>1 DEF TypeInv, TypeOK, Live
  <2> QED BY <1>1, <1>7, <2>1, <2>2, OpenPidFileEffect DEF Stay, Now, Known, Holding, TypeInv
<1>8. CASE Kill(c)
  <2>1. pidFile' = pidFile /\ pidFile[cmd[c].name] = cmd[c].pid
    BY <1>8 DEF Kill, At, Known
  <2> QED BY <1>1, <1>8, <2>1, KillEffect DEF Stay, Now, Known, Holding, TypeInv
<1>9. CASE Up(c) \/ Down(c) \/ Status(c) \/ (\E n \in Names : NextFile(c, n))
  BY <1>1, <1>2, <1>9, StartEffect, NextFileEffect DEF Now, TypeInv
<1>10. CASE StatusEnds(c) \/ SeedFails(c) \/ Crash(c)
  BY <1>2, <1>10, EndEffect DEF StatusEnds, SeedFails, Crash, Now, TypeInv
<1>11. CASE WritePidFile(c) \/ RunSeed(c) \/ Unlink(c)
  BY <1>1, <1>2, <1>11, AdvanceEffect, UnlinkEffect
     DEF WritePidFile, RunSeed, Onwards, Now, TypeInv
<1>12. CASE RunSchema(c) \/ RemoveDb(c)
  BY <1>1, <1>2, <1>12, RunSchemaEffect, RemoveDbEffect DEF Stay, Now, TypeInv
<1> QED BY <1>3, <1>4, <1>5, <1>6, <1>7, <1>8, <1>9, <1>10, <1>11, <1>12 DEF CommandStep

-------------------------------------------------------------------------------
(* The servers no pid file leads to.                                          *)

LEMMA PidsFinite == IsFiniteSet(Pids) /\ \A S \in SUBSET Pids : IsFiniteSet(S)
<1>1. MaxUps * Len(Config) \in Int
  BY ConfigOK, ConfigNames
<1>2. IsFiniteSet(Pids)
  BY <1>1, FS_Interval DEF Pids
<1> QED BY <1>2, FS_Subset

\* With one command line, a server is held by that one or by none.
LEMMA HeldBy ==
  ASSUME OneShell, NEW c \in Commands
  PROVE  /\ Held  = IF cmd[c].pc \in Holding THEN {cmd[c].pid} ELSE {}
         /\ Held' = IF cmd'[c].pc \in Holding THEN {cmd'[c].pid} ELSE {}
BY DEF OneShell, Held

LEMMA NoMoreLost ==
  ASSUME TypeInv, Lost, UNCHANGED crashes, (Untracked \ Held)' \subseteq Untracked \ Held
  PROVE  Lost'
<1> DEFINE S == Untracked \ Held
           T == (Untracked \ Held)'
<1>1. S \in SUBSET Pids /\ T \in SUBSET S
  BY DEF Untracked, Live
<1>2. Cardinality(S) <= crashes /\ crashes \in Nat
  BY ConfigOK DEF Lost, TypeInv, TypeOK
<1> HIDE DEF S, T
<1>3. IsFiniteSet(S) /\ IsFiniteSet(T)
  BY <1>1, PidsFinite
<1>4. Cardinality(T) <= Cardinality(S) /\ Cardinality(T) \in Nat /\ Cardinality(S) \in Nat
  BY <1>1, <1>3, FS_Subset, FS_CardinalityType
<1>5. Cardinality(T) <= crashes
  BY <1>2, <1>4
<1> QED BY <1>5 DEF Lost, T

LEMMA OneMoreLost ==
  ASSUME TypeInv, Lost, crashes' = crashes + 1, NEW p,
         (Untracked \ Held)' \subseteq (Untracked \ Held) \cup {p}
  PROVE  Lost'
<1> DEFINE S == Untracked \ Held
           T == (Untracked \ Held)'
<1>1. S \in SUBSET Pids /\ T \in SUBSET (S \cup {p})
  BY DEF Untracked, Live
<1>2. Cardinality(S) <= crashes /\ crashes \in Nat
  BY ConfigOK DEF Lost, TypeInv, TypeOK
<1> HIDE DEF S, T
<1>3. IsFiniteSet(S) /\ Cardinality(S) \in Nat
  BY <1>1, PidsFinite, FS_CardinalityType
<1>4. IsFiniteSet(S \cup {p}) /\ Cardinality(S \cup {p}) <= Cardinality(S) + 1
  BY <1>3, FS_AddElement
<1>5. /\ IsFiniteSet(T) /\ Cardinality(T) <= Cardinality(S \cup {p})
      /\ Cardinality(T) \in Nat /\ Cardinality(S \cup {p}) \in Nat
  BY <1>1, <1>4, FS_Subset, FS_CardinalityType
<1>6. Cardinality(T) <= crashes + 1
  BY <1>2, <1>3, <1>4, <1>5
<1> QED BY <1>6 DEF Lost, T

LEMMA CrashLost ==
  ASSUME OneShell, TypeInv, Lost, NEW c \in Commands, Crash(c)
  PROVE  Lost'
<1>1. /\ crashes' = crashes + 1 /\ pidFile' = pidFile /\ cmd'[c].pc = "idle"
      /\ Live' = Live /\ \A p \in Pids : procs'[p].name = procs[p].name
  BY EndEffect DEF Crash, TypeInv, SameServers, Now
<1>2. Untracked' = Untracked
  BY <1>1 DEF Untracked, Live
<1>3. Held \subseteq {cmd[c].pid} /\ Held' = {}
  BY <1>1, HeldBy DEF Holding
<1>4. (Untracked \ Held)' \subseteq (Untracked \ Held) \cup {cmd[c].pid}
  BY <1>2, <1>3
<1> QED BY <1>1, <1>4, OneMoreLost

LEMMA LostStep ==
  ASSUME OneShell, TypeInv, Kinds, Lost, NEW c \in Commands, Control(c), Known(c),
         CommandStep(c)
  PROVE  Lost'
<1>1. cmd[c].linked /\ Live \subseteq Pids /\ \A p \in Live : procs[p].name \in Names
  BY DEF Control, Live, Kinds, Names
<1>2. pidFile \in [Names -> Pids \cup {NoFile, Empty}] /\ Empty \notin Pids
  BY DEF TypeInv, TypeOK, Empty, Pids
<1>3. /\ Held  = IF cmd[c].pc \in Holding THEN {cmd[c].pid} ELSE {}
      /\ Held' = IF cmd'[c].pc \in Holding THEN {cmd'[c].pid} ELSE {}
  BY HeldBy
<1>4. CASE Crash(c)
  BY <1>4, CrashLost
<1>5. CASE Spawn(c)
  <2>1. UNCHANGED <<pidFile, crashes>> /\ cmd[c].pc = "spawn" /\ cmd'[c].pc = "open"
    BY <1>1, <1>5, SpawnEffect DEF Spawn, At, Stay, Now, TypeInv
  <2>2. Untracked' \subseteq Untracked \cup {cmd'[c].pid}
    BY <1>1, <1>5, <2>1, SpawnEffect DEF Untracked, TypeInv
  <2> QED BY <1>3, <2>1, <2>2, NoMoreLost DEF Holding
<1>6. CASE OpenPidFile(c)
  <2>1. /\ UNCHANGED <<procs, crashes>> /\ pidFile' = [pidFile EXCEPT ![cmd[c].name] = Empty]
        /\ cmd[c].pc = "open" /\ cmd'[c].pc = "write" /\ cmd'[c].pid = cmd[c].pid
    BY <1>6, OpenPidFileEffect DEF OpenPidFile, At, Stay, Now, TypeInv
  <2>2. /\ Live' = Live
        /\ pidFile[cmd[c].name] \in Live => pidFile[cmd[c].name] = cmd[c].pid
    BY <2>1 DEF Live, Known
  <2>3. Untracked' \subseteq Untracked \cup {cmd[c].pid}
    BY <1>1, <1>2, <2>1, <2>2 DEF Untracked
  <2> QED BY <1>3, <2>1, <2>3, NoMoreLost DEF Holding
<1>7. CASE WritePidFile(c)
  <2>1. /\ SameServers /\ crashes' = crashes /\ cmd[c].pc = "write"
        /\ pidFile' = [pidFile EXCEPT ![cmd[c].name] = cmd[c].pid]
    BY <1>1, <1>7, AdvanceEffect DEF WritePidFile, At, TypeInv
  <2>2. /\ pidFile[cmd[c].name] = Empty /\ cmd[c].name \in Names
        /\ cmd[c].pid \in Live => procs[cmd[c].pid].name = cmd[c].name
    BY <2>1 DEF Known, Control, Holding
  <2>3. Untracked' \subseteq Untracked \ {cmd[c].pid}
    BY <1>1, <1>2, <2>1, <2>2 DEF Untracked, SameServers
  <2> QED BY <1>3, <2>1, <2>3, NoMoreLost DEF Holding
<1>8. CASE Kill(c)
  <2>1. UNCHANGED <<pidFile, crashes>> /\ cmd[c].pc = "kill"
    BY <1>8 DEF Kill, At
  <2>2. Untracked' \subseteq Untracked
    BY <1>1, <1>8, <2>1, KillEffect DEF Untracked, TypeInv
  <2> QED BY <1>3, <2>1, <2>2, NoMoreLost DEF Holding
<1>9. CASE Unlink(c)
  <2>1. /\ UNCHANGED <<procs, crashes>> /\ cmd[c].pc = "unlink"
        /\ pidFile' = [pidFile EXCEPT ![cmd[c].name] = NoFile]
    BY <1>9 DEF Unlink, At
  <2>2. Live' = Live /\ pidFile[cmd[c].name] \notin Live
    BY <2>1 DEF Live, Known
  <2>3. Untracked' \subseteq Untracked
    BY <1>1, <1>2, <2>1, <2>2 DEF Untracked
  <2> QED BY <1>3, <2>1, <2>3, NoMoreLost DEF Holding
<1>10. CASE /\ ~Crash(c) /\ ~Spawn(c) /\ ~OpenPidFile(c) /\ ~WritePidFile(c)
            /\ ~Kill(c) /\ ~Unlink(c)
  <2>1. UNCHANGED <<pidFile, crashes>> /\ cmd[c].pc \notin Holding
    BY <1>10 DEF CommandStep, Up, Down, Status, NextFile, StatusEnds, ReadPid,
      ReadPidAgain, Alive, RunSchema, RunSeed, SeedFails, RemoveDb, At, Holding
  <2>2. SameServers
    BY <1>1, <1>10, NoTables, RunSchemaEffect, AdvanceEffect, SameProcs
       DEF NoTable, RunSeed, RemoveDb, TypeInv
  <2>3. Untracked' = Untracked
    BY <1>1, <2>1, <2>2 DEF Untracked, SameServers
  <2> QED BY <1>3, <2>1, <2>3, NoMoreLost
<1> QED BY <1>4, <1>5, <1>6, <1>7, <1>8, <1>9, <1>10

-------------------------------------------------------------------------------
(* What a completed command leaves.                                           *)

\* The services before the next one are those before this one, and this one.
LEMMA BeforeNext ==
  ASSUME TypeOK, NEW c \in Commands, Control(c), cmd[c].op \in {"up", "down"}
  PROVE  /\ cmd[c].at \in 1..Len(Config) /\ cmd[c].name = Config[cmd[c].at]
         /\ cmd'[c].at = cmd[c].at => Before(c)' = Before(c)
         /\ cmd'[c].at = cmd[c].at + 1 => Before(c)' = Before(c) \cup {cmd[c].at}
         /\ cmd[c].at = Len(Config) => 1..Len(Config) = Before(c) \cup {cmd[c].at}
<1>1. cmd[c].at \in 1..Len(Config) /\ Len(Config) \in Nat
  BY CommandType, ConfigNames DEF Command
<1> QED BY <1>1 DEF Before, Control

LEMMA NothingBefore ==
  ASSUME NEW c \in Commands, cmd'[c].at = 1
  PROVE  Before(c)' = {}
BY DEF Before

LEMMA DownedStep ==
  ASSUME AllListed, TypeInv, Kinds, NEW c \in Commands, Control(c), Downed(c),
         CommandStep(c)
  PROVE  Downed(c)'
<1>1. cmd[c].linked /\ TypeOK /\ (cmd[c].op # "none" => cmd[c].last = "none")
  BY DEF Control, TypeInv
<1>2. pidFile \in [Names -> Pids \cup {NoFile, Empty}] /\ db \in [Names -> {NoDb} \cup Nat]
  BY DEF TypeInv, TypeOK
<1>3. CASE cmd'[c].op # "down" /\ cmd'[c].pc # "rm" /\ cmd'[c].last # "down"
  BY <1>3 DEF Downed
<1>4. CASE Up(c) \/ Down(c) \/ Status(c)
  BY <1>1, <1>3, <1>4, StartEffect, NothingBefore DEF Now, Downed
<1>5. CASE StatusEnds(c) \/ SeedFails(c) \/ Crash(c)
  BY <1>1, <1>3, <1>5, EndEffect DEF StatusEnds, SeedFails, Crash, Now
<1>6. CASE \E n \in Names : NextFile(c, n)
  BY <1>1, <1>3, <1>6, NextFileEffect DEF NextFile, At, Now
<1>7. CASE ReadPidAgain(c) \/ Spawn(c) \/ OpenPidFile(c) \/ RunSchema(c)
  <2>1. cmd[c].op = "up"
    BY <1>7 DEF ReadPidAgain, Spawn, OpenPidFile, RunSchema, At
  <2> QED BY <1>1, <1>3, <1>7, <2>1, ReadPidAgainEffect, SpawnEffect, OpenPidFileEffect,
          RunSchemaEffect DEF Stay, Now
<1>8. CASE WritePidFile(c) \/ RunSeed(c)
  <2>1. cmd[c].op = "up" /\ Onwards(c)
    BY <1>1, <1>8, AdvanceEffect DEF WritePidFile, RunSeed, At
  <2> QED BY <1>1, <1>3, <2>1 DEF Onwards, Now
<1>9. CASE cmd[c].op = "down" /\ pidFile' = pidFile /\ \E pc : pc # "rm" /\ Stay(c, pc)
  <2>1. cmd[c].pc # "rm" \/ RemoveDb(c) \/ Crash(c)
    BY <1>9 DEF CommandStep, Up, Down, Status, NextFile, StatusEnds, ReadPid,
      ReadPidAgain, Alive, Spawn, OpenPidFile, WritePidFile, RunSchema, RunSeed,
      SeedFails, Kill, Unlink, At
  <2>2. ~RemoveDb(c) /\ ~Crash(c)
    BY <1>1, <1>9, RemoveDbEffect, EndEffect DEF Crash, Stay, Now
  <2>3. Before(c)' = Before(c) /\ cmd'[c].pc # "rm" /\ cmd'[c].last = "none"
    BY <1>1, <1>9, BeforeNext DEF Stay, Now
  <2> QED BY <1>9, <2>1, <2>2, <2>3 DEF Downed
<1>10. CASE ReadPid(c) \/ Kill(c)
  <2>1. pidFile' = pidFile /\ cmd[c].op # "none" /\ \E pc : pc # "rm" /\ Stay(c, pc)
    BY <1>1, <1>10, ReadPidEffect, KillEffect DEF ReadPid, Kill, At
  <2>2. CASE cmd[c].op = "down"
    BY <1>9, <2>1, <2>2
  <2>3. CASE cmd[c].op # "down"
    BY <1>1, <1>3, <2>1, <2>3 DEF Stay, Now
  <2> QED BY <2>2, <2>3
<1>11. CASE Alive(c)
  <2>1. CASE cmd[c].op = "down"
    BY <1>1, <1>9, <1>11, <2>1, AliveEffect DEF Alive
  <2>2. CASE cmd[c].op # "down"
    <3>1. cmd[c].op # "none"
      BY <1>11 DEF Alive, At
    <3> QED BY <1>1, <1>3, <1>11, <2>2, <3>1, AliveEffect DEF Onwards, Stay, Now
  <2> QED BY <2>1, <2>2
<1>12. CASE Unlink(c)
  <2>1. /\ cmd[c].op \in {"down", "status"} /\ cmd[c].pc = "unlink" /\ cmd[c].name \in Names
        /\ pidFile' = [pidFile EXCEPT ![cmd[c].name] = NoFile] /\ Onwards(c)
    BY <1>1, <1>12, UnlinkEffect DEF Unlink, At, Control
  <2>2. CASE cmd[c].op = "status"
    BY <1>1, <1>3, <2>1, <2>2 DEF Onwards, Now
  <2>3. CASE cmd[c].op = "down"
    <3>1. \A k \in Before(c) : k \in 1..Len(Config) /\ pidFile[Config[k]] = NoFile
      BY <2>1, <2>3 DEF Downed, Before
    <3>2. \A k \in Before(c) \cup {cmd[c].at} : pidFile'[Config[k]] = NoFile
      BY <1>1, <1>2, <2>1, <2>3, <3>1, BeforeNext, ConfigNames
    <3>3. CASE cmd'[c].at = cmd[c].at + 1 /\ cmd'[c].pc = "read" /\ cmd'[c].last = "none"
      BY <1>1, <2>3, <3>2, <3>3, BeforeNext DEF Downed
    <3>4. CASE /\ cmd[c].at = Len(Config)
               /\ cmd'[c].at = 1 /\ cmd'[c].pc = "rm" /\ cmd'[c].last = "none"
      <4>1. \A n \in Names : pidFile'[n] = NoFile
        BY <1>1, <2>3, <3>2, <3>4, BeforeNext DEF AllListed
      <4> QED BY <3>4, <4>1, NothingBefore DEF Downed
    <3> QED BY <1>1, <2>1, <2>3, <3>3, <3>4 DEF Onwards, Now
  <2> QED BY <2>1, <2>2, <2>3
<1>13. CASE RemoveDb(c)
  <2>1. /\ cmd[c].op = "down" /\ cmd[c].pc = "rm" /\ cmd[c].name \in Names
        /\ pidFile' = pidFile
        /\ db' = IF cmd[c].name \in Sqlite THEN [db EXCEPT ![cmd[c].name] = NoDb] ELSE db
    BY <1>13 DEF RemoveDb, At, Control
  <2>2. \A n \in Names : pidFile'[n] = NoFile
    BY <2>1 DEF Downed
  <2>3. \A k \in Before(c) : k \in 1..Len(Config) /\ db[Config[k]] = NoDb
    BY <2>1 DEF Downed, Before
  <2>4. db'[cmd[c].name] = NoDb
    BY <1>2, <2>1 DEF Kinds, Names
  <2>5. \A n \in Names : db[n] = NoDb => db'[n] = NoDb
    BY <1>2, <2>1
  <2>6. \A k \in Before(c) \cup {cmd[c].at} : db'[Config[k]] = NoDb
    BY <1>1, <2>1, <2>3, <2>4, <2>5, BeforeNext, ConfigNames
  <2>7. CASE cmd'[c].at = cmd[c].at + 1 /\ cmd'[c].pc = "rm" /\ cmd'[c].last = "none"
    BY <1>1, <2>1, <2>2, <2>6, <2>7, BeforeNext DEF Downed
  <2>8. CASE cmd[c].at = Len(Config) /\ Now(c, "none", "idle", 1, NoName, "down")
    <3>1. \A n \in Names : db'[n] = NoDb
      BY <1>1, <2>1, <2>6, <2>8, BeforeNext DEF AllListed
    <3> QED BY <2>2, <2>8, <3>1 DEF Downed, Now
  <2> QED BY <1>1, <1>13, <2>1, <2>7, <2>8, RemoveDbEffect DEF Now
<1> QED BY <1>4, <1>5, <1>6, <1>7, <1>8, <1>10, <1>11, <1>12, <1>13 DEF CommandStep

LEMMA UppedStep ==
  ASSUME AllListed, TypeInv, Kinds, NEW c \in Commands, Control(c), Known(c), Upped(c),
         CommandStep(c)
  PROVE  Upped(c)'
<1>1. cmd[c].linked /\ TypeOK /\ (cmd[c].op # "none" => cmd[c].last = "none")
  BY DEF Control, TypeInv
<1>2. /\ pidFile \in [Names -> Pids \cup {NoFile, Empty}] /\ db \in [Names -> {NoDb} \cup Nat]
      /\ Http \cap Sqlite = {} /\ NoFile \notin Pids /\ NoDb \notin Nat
  BY ConfigOK DEF TypeInv, TypeOK, NoFile, Pids, NoDb
<1>3. CASE cmd'[c].op # "up" /\ cmd'[c].pc # "seed" /\ cmd'[c].last # "up"
  BY <1>3 DEF Upped
<1>4. CASE Up(c) \/ Down(c) \/ Status(c)
  BY <1>1, <1>3, <1>4, StartEffect, NothingBefore DEF Now, Upped
<1>5. CASE StatusEnds(c) \/ SeedFails(c) \/ Crash(c)
  BY <1>1, <1>3, <1>5, EndEffect DEF StatusEnds, SeedFails, Crash, Now
<1>6. CASE \E n \in Names : NextFile(c, n)
  BY <1>1, <1>3, <1>6, NextFileEffect DEF NextFile, At, Now
<1>7. CASE Kill(c) \/ Unlink(c) \/ RemoveDb(c)
  <2>1. cmd[c].op \in {"down", "status"}
    BY <1>7 DEF Kill, Unlink, RemoveDb, At
  <2> QED BY <1>1, <1>3, <1>7, <2>1, KillEffect, UnlinkEffect, RemoveDbEffect
          DEF Onwards, Stay, Now
<1>8. ASSUME cmd[c].op = "up", cmd[c].pc # "write",
             \A n \in Names : Delivered(n) => Delivered(n)',
             NEW pc, Stay(c, pc), pc = "seed" => db'[cmd[c].name] # NoDb
      PROVE  Upped(c)'
  <2>1. /\ Before(c)' = Before(c) /\ cmd'[c].pc = pc /\ cmd'[c].op = "up"
        /\ cmd'[c].name = cmd[c].name /\ cmd'[c].last = "none"
    BY <1>1, <1>8, BeforeNext DEF Stay, Now
  <2>2. \A k \in Before(c) : Config[k] \in Names /\ Delivered(Config[k])
    BY <1>8, ConfigNames DEF Upped, Before
  <2> QED BY <1>8, <2>1, <2>2 DEF Upped
\* The service at hand is delivered: `up` goes on to the next one, or is done.
<1>9. ASSUME cmd[c].op = "up", Onwards(c),
             \A n \in Names : n = cmd[c].name \/ Delivered(n) => Delivered(n)'
      PROVE  Upped(c)'
  <2>1. ASSUME NEW k \in Before(c) \cup {cmd[c].at} PROVE Delivered(Config[k])'
    <3>1. k \in 1..Len(Config) /\ Config[k] \in Names
      BY <1>1, <1>9, BeforeNext, ConfigNames DEF Before
    <3>2. Config[k] = cmd[c].name \/ Delivered(Config[k])
      BY <1>1, <1>9, BeforeNext DEF Upped
    <3> QED BY <1>9, <3>1, <3>2
  <2>2. CASE /\ cmd'[c].at = cmd[c].at + 1 /\ cmd'[c].pc = "read" /\ cmd'[c].last = "none"
    BY <1>1, <1>9, <2>1, <2>2, BeforeNext DEF Upped
  <2>3. CASE cmd[c].at = Len(Config) /\ Now(c, "none", "idle", 1, NoName, "up")
    <3>1. ASSUME NEW n \in Names PROVE Delivered(n)'
      <4>1. PICK k \in 1..Len(Config) : Config[k] = n
        BY DEF AllListed
      <4>2. k \in Before(c) \cup {cmd[c].at}
        BY <1>1, <1>9, <2>3, BeforeNext
      <4> QED BY <2>1, <4>1, <4>2
    <3> QED BY <2>3, <3>1 DEF Upped, Now
  <2> QED BY <1>1, <1>9, <2>2, <2>3 DEF Onwards, Now
<1>10. ASSUME UNCHANGED <<pidFile, db>> PROVE \A n \in Names : Delivered(n)' = Delivered(n)
  BY <1>10 DEF Delivered
<1>11. CASE ReadPid(c)
  <2>1. UNCHANGED <<pidFile, db>> /\ cmd[c].pc = "read"
        /\ \E pc : pc # "seed" /\ Stay(c, pc)
    BY <1>1, <1>11, ReadPidEffect DEF ReadPid, At
  <2>2. CASE cmd[c].op = "up"
    BY <1>8, <1>10, <2>1, <2>2
  <2>3. CASE cmd[c].op # "up"
    BY <1>1, <1>3, <1>11, <2>1, <2>3 DEF ReadPid, At, Stay, Now
  <2> QED BY <2>2, <2>3
<1>12. CASE ReadPidAgain(c)
  <2>1. UNCHANGED <<pidFile, db>> /\ cmd[c].pc = "reread" /\ cmd[c].op = "up"
    BY <1>12 DEF ReadPidAgain, At
  <2> QED BY <1>1, <1>3, <1>8, <1>10, <1>12, <2>1, ReadPidAgainEffect DEF Now
<1>13. CASE Alive(c)
  <2>1. UNCHANGED <<pidFile, db>> /\ cmd[c].pc = "alive" /\ cmd[c].op # "none"
    BY <1>13 DEF Alive, At
  <2>2. pidFile[cmd[c].name] \in Pids /\ cmd[c].name \in Names
    BY <2>1 DEF Known, TypeInv, HasPid, Pointed, Control
  <2>3. \A n \in Names : n = cmd[c].name \/ Delivered(n) => Delivered(n)'
    BY <1>2, <1>10, <2>1, <2>2 DEF Delivered, Kinds, Names
  <2>4. CASE cmd[c].op = "up" /\ Onwards(c)
    BY <1>9, <2>3, <2>4
  <2>5. CASE cmd[c].op = "up" /\ \E pc : pc # "seed" /\ Stay(c, pc)
    BY <1>8, <1>10, <2>1, <2>5
  <2>6. CASE cmd[c].op # "up"
    BY <1>1, <1>3, <1>13, <2>1, <2>6, AliveEffect DEF Onwards, Stay, Now
  <2> QED BY <1>1, <1>13, <2>4, <2>5, <2>6, AliveEffect
<1>14. CASE Spawn(c)
  <2>1. UNCHANGED <<pidFile, db>> /\ cmd[c].pc = "spawn" /\ cmd[c].op = "up"
    BY <1>14 DEF Spawn, At
  <2> QED BY <1>1, <1>8, <1>10, <1>14, <2>1, SpawnEffect
<1>15. CASE OpenPidFile(c)
  <2>1. /\ cmd[c].pc = "open" /\ cmd[c].op = "up" /\ cmd[c].name \in Http
        /\ pidFile' = [pidFile EXCEPT ![cmd[c].name] = Empty] /\ db' = db
    BY <1>15 DEF OpenPidFile, At, Control
  <2>2. \A n \in Names : n # cmd[c].name /\ Delivered(n) => Delivered(n)'
    BY <1>2, <2>1 DEF Delivered, Names
  <2>3. /\ Before(c)' = Before(c) /\ cmd'[c].pc = "write" /\ cmd'[c].op = "up"
        /\ cmd'[c].name = cmd[c].name /\ cmd'[c].last = "none"
    BY <1>1, <1>15, <2>1, BeforeNext, OpenPidFileEffect DEF Stay, Now
  <2>4. \A k \in Before(c) : Config[k] \in Names /\ Delivered(Config[k])
    BY <2>1, ConfigNames DEF Upped, Before
  <2> QED BY <2>2, <2>3, <2>4 DEF Upped
<1>16. CASE WritePidFile(c)
  <2>1. /\ cmd[c].pc = "write" /\ cmd[c].op = "up" /\ cmd[c].name \in Http
        /\ pidFile' = [pidFile EXCEPT ![cmd[c].name] = cmd[c].pid] /\ db' = db
        /\ cmd[c].pid \in Pids
    BY <1>1, <1>16 DEF WritePidFile, At, Control, TypeInv, HasPid, Pointed
  <2>2. \A n \in Names : n = cmd[c].name \/ Delivered(n) => Delivered(n)'
    BY <1>2, <2>1 DEF Delivered, Names
  <2> QED BY <1>1, <1>9, <1>16, <2>1, <2>2, AdvanceEffect DEF WritePidFile
<1>17. CASE RunSchema(c)
  <2>1. CASE Stay(c, "seed") /\ db' = [db EXCEPT ![cmd[c].name] = IF @ = NoDb THEN 0 ELSE @]
    <3>1. /\ cmd[c].pc = "schema" /\ cmd[c].op = "up" /\ cmd[c].name \in Sqlite
          /\ pidFile' = pidFile
      BY <1>17 DEF RunSchema, At, Control
    <3>2. db'[cmd[c].name] # NoDb /\ \A n \in Names : db[n] # NoDb => db'[n] = db[n]
      BY <1>2, <2>1, <3>1 DEF Names, NoDb
    <3>3. \A n \in Names : Delivered(n) => Delivered(n)'
      BY <3>1, <3>2 DEF Delivered
    <3> QED BY <1>8, <2>1, <3>1, <3>2, <3>3
  <2> QED BY <1>1, <1>3, <1>17, <2>1, RunSchemaEffect DEF Now
<1>18. CASE RunSeed(c)
  <2>1. /\ cmd[c].pc = "seed" /\ cmd[c].op = "up" /\ cmd[c].name \in Sqlite
        /\ db' = [db EXCEPT ![cmd[c].name] = @ + 1] /\ pidFile' = pidFile
    BY <1>1, <1>18 DEF RunSeed, At, Control
  <2>2. db[cmd[c].name] \in Nat
    BY <1>2, <2>1 DEF Upped, Names
  <2>3. /\ db'[cmd[c].name] # NoDb /\ db'[cmd[c].name] >= 1
        /\ \A n \in Names : n # cmd[c].name => db'[n] = db[n]
    BY <1>2, <2>1, <2>2 DEF Names, NoDb
  <2>4. \A n \in Names : n = cmd[c].name \/ Delivered(n) => Delivered(n)'
    BY <1>2, <2>1, <2>3 DEF Delivered
  <2> QED BY <1>1, <1>9, <1>18, <2>1, <2>4, AdvanceEffect DEF RunSeed
<1> QED BY <1>4, <1>5, <1>6, <1>7, <1>11, <1>12, <1>13, <1>14, <1>15, <1>16, <1>17, <1>18
        DEF CommandStep

LEMMA ProcLost ==
  ASSUME TypeInv, ShellInv, NEW p \in Pids, ProcStep(p)
  PROVE  ShellInv'
<1>1. /\ Live' \subseteq Live /\ \A q \in Live' : procs'[q].name = procs[q].name
      /\ UNCHANGED <<pidFile, db, cmd, ups, crashes>>
  <2>1. procs \in [Pids -> Proc]
    BY DEF TypeInv, TypeOK
  <2>2. CASE Boot(p)
    BY <2>1, <2>2 DEF Boot, Live, Proc
  <2>3. CASE Exit(p)
    BY <2>1, <2>3 DEF Exit, Live, Proc
  <2>4. CASE Reuse(p)
    BY <2>1, <2>4 DEF Reuse, Reusable, Live, Proc
  <2> QED BY <2>2, <2>3, <2>4 DEF ProcStep
<1>2. Untracked' \subseteq Untracked /\ Held' = Held
  BY <1>1 DEF Untracked, Held
<1>3. Lost'
  BY <1>1, <1>2, NoMoreLost DEF ShellInv, TypeInv
<1>4. Kinds'
  BY <1>1 DEF ShellInv, Kinds
<1>5. ASSUME NEW c \in Commands PROVE Control(c)' /\ Known(c)' /\ Downed(c)' /\ Upped(c)'
  <2>1. Control(c)' /\ Downed(c)'
    BY <1>1 DEF ShellInv, Control, Downed, Before
  <2>2. Upped(c)'
    BY <1>1 DEF ShellInv, Upped, Before, Delivered
  <2>3. Known(c)'
    BY <1>1 DEF ShellInv, Known
  <2> QED BY <2>1, <2>2, <2>3
<1> QED BY <1>3, <1>4, <1>5 DEF ShellInv

LEMMA ShellStep ==
  ASSUME OneShell, AllListed, TypeInv, ShellInv, [Next]_vars
  PROVE  ShellInv'
<1>1. ASSUME NEW c \in Commands, CommandStep(c) PROVE ShellInv'
  <2>1. TypeOK /\ Kinds /\ Lost /\ Control(c) /\ Known(c) /\ Downed(c) /\ Upped(c)
    BY DEF ShellInv, TypeInv
  <2>2. Kinds' /\ Lost'
    BY <1>1, <2>1, KindsStep, LostStep
  <2>3. Control(c)' /\ Known(c)'
    BY <1>1, <2>1, ControlStep, KnownStep
  <2>4. Downed(c)' /\ Upped(c)'
    BY <1>1, <2>1, DownedStep, UppedStep
  <2>5. \A d \in Commands : d = c
    BY DEF OneShell
  <2> QED BY <2>2, <2>3, <2>4, <2>5 DEF ShellInv
<1>2. ASSUME NEW p \in Pids, ProcStep(p) PROVE ShellInv'
  BY <1>2, ProcLost
<1>3. CASE UNCHANGED vars
  BY <1>3 DEF vars, ShellInv, Kinds, Lost, Untracked, Held, Live, Control, Known, Downed,
    Upped, Before, Delivered
<1> QED BY <1>1, <1>2, <1>3 DEF Next

LEMMA ShellInit == ASSUME Init PROVE ShellInv
<1>1. Live = {} /\ crashes = 0
  BY DEF Init, Live
<1>2. Untracked \ Held = {}
  BY <1>1 DEF Untracked
<1>3. Lost
  BY <1>1, <1>2, FS_EmptySet DEF Lost
<1>4. Kinds
  BY <1>1 DEF Init, Kinds, Names
<1>5. \A c \in Commands : Control(c) /\ Known(c) /\ Downed(c) /\ Upped(c)
  BY DEF Init, IdleCommand, Control, Known, Holding, Downed, Upped
<1> QED BY <1>3, <1>4, <1>5 DEF ShellInv

\* One command line at a time, each step of it keeps to the file it knows: the
\* invariant both theorems below follow from.
THEOREM ShellInvariant == ASSUME OneShell, AllListed PROVE Spec => []ShellInv
<1>1. Init => ShellInv
  BY ShellInit
<1>2. TypeInv /\ ShellInv /\ [Next]_vars => ShellInv'
  BY ShellStep
<1> QED BY <1>1, <1>2, TypeInvariant, PTL DEF Spec

\* One command line at a time, a completed `efm down` leaves no pid file and no
\* database, and no server is ever out of its reach but one for each command that
\* was killed half-way.
THEOREM DownLeavesNothing == ASSUME OneShell, AllListed PROVE Spec => []DownDelivers
<1>1. ShellInv => DownDelivers
  <2> SUFFICES ASSUME ShellInv PROVE DownDelivers
    OBVIOUS
  <2>1. ASSUME Quiet PROVE Cardinality(Untracked) <= crashes
    <3>1. Held = {}
      BY <2>1 DEF Quiet, Held, Holding, ShellInv, Control
    <3>2. Untracked \ Held = Untracked
      BY <3>1
    <3> QED BY <3>2 DEF ShellInv, Lost
  <2>2. \A c \in Commands : Quiet /\ cmd[c].last = "down" =>
          \A n \in Names : pidFile[n] = NoFile /\ db[n] = NoDb
    BY DEF ShellInv, Downed
  <2> QED BY <2>1, <2>2 DEF DownDelivers, OneLostPerCrash
<1> QED BY <1>1, ShellInvariant, PTL

\* One command line at a time, after a completed `efm up` every http service has the
\* pid of a server spawned for it on file and every database is there and seeded,
\* whatever the commands before it were and wherever they were killed.
THEOREM UpSetsUp == ASSUME OneShell, AllListed PROVE Spec => []UpDelivers
<1>1. ShellInv /\ OwnPids => UpDelivers
  BY ConfigOK DEF ShellInv, Upped, UpDelivers, Delivered, OwnPids, Names
<1> QED BY <1>1, ShellInvariant, PidsAreOwn, PTL
=================================================================================
