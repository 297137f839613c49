--------------------------- MODULE SandboxRunsProofs ---------------------------
(* Theorems about SandboxRuns. *)
EXTENDS SandboxRuns, TLAPS

-------------------------------------------------------------------------------
(* What a step does to the record of a setup.                              *)

Backends == {"none", "docker", "subprocess"}
Exits    == {0, 1, TimeoutCode, Error, NoCode}
Mishaps  == {"flip", "start", "remove", "timeout", "signal"}

\* The record of s, field by field, and nobody else's.
After(s, pc, host, shown, exit, backend, mishaps) ==
  /\ run' \in [Setups -> Setup]
  /\ run'[s].pc = pc /\ run'[s].host = host /\ run'[s].shown = shown
  /\ run'[s].exit = exit /\ run'[s].backend = backend /\ run'[s].mishaps = mishaps
  /\ \A t \in Setups \ {s} : run'[t] = run[t]

LEMMA SetShape ==
  ASSUME run \in [Setups -> Setup], NEW s \in Setups, NEW r \in Setup, Set(s, r)
  PROVE  After(s, r.pc, r.host, r.shown, r.exit, r.backend, r.mishaps)
BY DEF Set, After

LEMMA Fields ==
  ASSUME NEW r \in Setup
  PROVE  /\ r = [pc |-> r.pc, host |-> r.host, shown |-> r.shown, exit |-> r.exit,
                 backend |-> r.backend, mishaps |-> r.mishaps]
         /\ r.pc \in Pcs /\ r.host \in Backends /\ r.shown \in Backends
         /\ r.exit \in Exits /\ r.backend \in Backends /\ r.mishaps \in SUBSET Mishaps
BY DEF Setup, Backends, Exits, Mishaps

LEMMA ASetup ==
  ASSUME NEW pc \in Pcs, NEW host \in Backends, NEW shown \in Backends,
         NEW exit \in Exits, NEW backend \in Backends, NEW mishaps \in SUBSET Mishaps
  PROVE  [pc |-> pc, host |-> host, shown |-> shown, exit |-> exit,
          backend |-> backend, mishaps |-> mishaps] \in Setup
BY DEF Setup, Backends, Exits, Mishaps

\* One field at a time, since two at once are beyond the provers.
LEMMA Mishapped ==
  ASSUME NEW r \in Setup, NEW pc, NEW m
  PROVE  [r EXCEPT !.pc = pc, !.mishaps = @ \cup {m}] =
           [pc |-> pc, host |-> r.host, shown |-> r.shown, exit |-> r.exit,
            backend |-> r.backend, mishaps |-> r.mishaps \cup {m}]
<1> DEFINE moved == [r EXCEPT !.pc = pc]
<1>1. moved = [pc |-> pc, host |-> r.host, shown |-> r.shown, exit |-> r.exit,
               backend |-> r.backend, mishaps |-> r.mishaps]
  BY Fields
<1>2. [r EXCEPT !.pc = pc, !.mishaps = @ \cup {m}] =
        [moved EXCEPT !.mishaps = r.mishaps \cup {m}]
  BY Zenon
<1> HIDE DEF moved
<1> QED BY <1>1, <1>2

LEMMA GotoShape ==
  ASSUME run \in [Setups -> Setup], NEW s \in Setups, NEW pc \in Pcs, Goto(s, pc)
  PROVE  After(s, pc, run[s].host, run[s].shown, run[s].exit, run[s].backend,
               run[s].mishaps)
<1> DEFINE r == [run[s] EXCEPT !.pc = pc]
<1>1. r = [pc |-> pc, host |-> run[s].host, shown |-> run[s].shown,
           exit |-> run[s].exit, backend |-> run[s].backend, mishaps |-> run[s].mishaps]
  BY Fields
<1>2. r \in Setup
  BY <1>1, ASetup, Fields
<1>3. Set(s, r)
  BY DEF Goto
<1> HIDE DEF r
<1>4. After(s, r.pc, r.host, r.shown, r.exit, r.backend, r.mishaps)
  BY <1>2, <1>3, SetShape
<1> QED BY <1>1, <1>4

LEMMA ReportShape ==
  ASSUME run \in [Setups -> Setup], NEW s \in Setups, NEW pc \in Pcs,
         NEW exit \in Exits, NEW backend \in Backends, Report(s, exit, backend, pc)
  PROVE  After(s, pc, run[s].host, run[s].shown, exit, backend, run[s].mishaps)
<1> DEFINE exited   == [run[s] EXCEPT !.exit = exit]
           placed   == [exited EXCEPT !.backend = backend]
           reported == [placed EXCEPT !.pc = pc]
           r == reported
<1>0. run[s] \in Setup
  OBVIOUS
<1>1. exited = [pc |-> run[s].pc, host |-> run[s].host, shown |-> run[s].shown,
                exit |-> exit, backend |-> run[s].backend, mishaps |-> run[s].mishaps]
  BY <1>0, Fields
<1>2. Set(s, r)
  BY Zenon DEF Report
<1> HIDE DEF exited
<1>3. placed = [pc |-> run[s].pc, host |-> run[s].host, shown |-> run[s].shown,
                exit |-> exit, backend |-> backend, mishaps |-> run[s].mishaps]
  BY <1>1
<1> HIDE DEF placed
<1>4. reported = [pc |-> pc, host |-> run[s].host, shown |-> run[s].shown,
                  exit |-> exit, backend |-> backend, mishaps |-> run[s].mishaps]
  BY <1>3
<1> HIDE DEF reported
<1> HIDE DEF r
<1>5. r = [pc |-> pc, host |-> run[s].host, shown |-> run[s].shown,
           exit |-> exit, backend |-> backend, mishaps |-> run[s].mishaps]
  BY <1>4 DEF r
<1>6. r \in Setup
  BY <1>0, <1>5, ASetup, Fields
<1>7. After(s, r.pc, r.host, r.shown, r.exit, r.backend, r.mishaps)
  BY <1>2, <1>6, SetShape
<1> QED BY <1>5, <1>7

LEMMA FailedShape ==
  ASSUME run \in [Setups -> Setup], NEW s \in Setups, NEW pc \in Pcs, Failed(s, pc)
  PROVE  After(s, pc, run[s].host, run[s].shown, Error, "none", run[s].mishaps)
BY ReportShape DEF Failed, Exits, Backends

LEMMA MishapShape ==
  ASSUME run \in [Setups -> Setup], NEW s \in Setups, NEW m \in Mishaps, NEW pc \in Pcs,
         Mishap(s, m, pc)
  PROVE  After(s, pc, run[s].host, run[s].shown, run[s].exit, run[s].backend,
               run[s].mishaps \cup {m})
<1> DEFINE r == [run[s] EXCEPT !.pc = pc, !.mishaps = @ \cup {m}]
<1>1. r = [pc |-> pc, host |-> run[s].host, shown |-> run[s].shown,
           exit |-> run[s].exit, backend |-> run[s].backend,
           mishaps |-> run[s].mishaps \cup {m}]
  BY run[s] \in Setup, Mishapped, Zenon
<1>2. r \in Setup
  BY <1>1, ASetup, Fields
<1>3. Set(s, r)
  BY DEF Mishap
<1> HIDE DEF r
<1>4. After(s, r.pc, r.host, r.shown, r.exit, r.backend, r.mishaps)
  BY <1>2, <1>3, SetShape
<1> QED BY <1>1, <1>4

LEMMA ReportMishapShape ==
  ASSUME run \in [Setups -> Setup], NEW s \in Setups, NEW m \in Mishaps, NEW pc \in Pcs,
         NEW exit \in Exits, NEW backend \in Backends,
         ReportMishap(s, exit, backend, m, pc)
  PROVE  After(s, pc, run[s].host, run[s].shown, exit, backend, run[s].mishaps \cup {m})
<1> DEFINE exited   == [run[s] EXCEPT !.exit = exit]
           placed   == [exited EXCEPT !.backend = backend]
           reported == [placed EXCEPT !.pc = pc]
           r == [reported EXCEPT !.mishaps = run[s].mishaps \cup {m}]
<1>0. run[s] \in Setup
  OBVIOUS
<1>1. exited = [pc |-> run[s].pc, host |-> run[s].host, shown |-> run[s].shown,
                exit |-> exit, backend |-> run[s].backend, mishaps |-> run[s].mishaps]
  BY <1>0, Fields
<1>2. Set(s, r)
  BY Zenon DEF ReportMishap
<1> HIDE DEF exited
<1>3. placed = [pc |-> run[s].pc, host |-> run[s].host, shown |-> run[s].shown,
                exit |-> exit, backend |-> backend, mishaps |-> run[s].mishaps]
  BY <1>1
<1> HIDE DEF placed
<1>4. reported = [pc |-> pc, host |-> run[s].host, shown |-> run[s].shown,
                  exit |-> exit, backend |-> backend, mishaps |-> run[s].mishaps]
  BY <1>3
<1> HIDE DEF reported
<1>5. r = [pc |-> pc, host |-> run[s].host, shown |-> run[s].shown,
           exit |-> exit, backend |-> backend, mishaps |-> run[s].mishaps \cup {m}]
  BY <1>4
<1> HIDE DEF r
<1>6. r \in Setup
  BY <1>0, <1>5, ASetup, Fields
<1>7. After(s, r.pc, r.host, r.shown, r.exit, r.backend, r.mishaps)
  BY <1>2, <1>6, SetShape
<1> QED BY <1>5, <1>7

LEMMA HostShape ==
  ASSUME run \in [Setups -> Setup], NEW s \in Setups, NEW host \in Backends, NEW pc \in Pcs,
         Set(s, [run[s] EXCEPT !.host = host, !.pc = pc])
  PROVE  After(s, pc, host, run[s].shown, run[s].exit, run[s].backend, run[s].mishaps)
<1> DEFINE asked == [run[s] EXCEPT !.host = host]
           r == [asked EXCEPT !.pc = pc]
<1>0. run[s] \in Setup
  OBVIOUS
<1>1. asked = [pc |-> run[s].pc, host |-> host, shown |-> run[s].shown,
               exit |-> run[s].exit, backend |-> run[s].backend, mishaps |-> run[s].mishaps]
  BY <1>0, Fields
<1>2. Set(s, r)
  BY Zenon
<1> HIDE DEF asked
<1>3. r = [pc |-> pc, host |-> host, shown |-> run[s].shown,
           exit |-> run[s].exit, backend |-> run[s].backend, mishaps |-> run[s].mishaps]
  BY <1>1
<1> HIDE DEF r
<1>4. r \in Setup
  BY <1>0, <1>3, ASetup, Fields
<1>5. After(s, r.pc, r.host, r.shown, r.exit, r.backend, r.mishaps)
  BY <1>2, <1>4, SetShape
<1> QED BY <1>3, <1>5

LEMMA ShownShape ==
  ASSUME run \in [Setups -> Setup], NEW s \in Setups, NEW shown \in Backends, NEW pc \in Pcs,
         Set(s, [run[s] EXCEPT !.shown = shown, !.pc = pc])
  PROVE  After(s, pc, run[s].host, shown, run[s].exit, run[s].backend, run[s].mishaps)
<1> DEFINE asked == [run[s] EXCEPT !.shown = shown]
           r == [asked EXCEPT !.pc = pc]
<1>0. run[s] \in Setup
  OBVIOUS
<1>1. asked = [pc |-> run[s].pc, host |-> run[s].host, shown |-> shown,
               exit |-> run[s].exit, backend |-> run[s].backend, mishaps |-> run[s].mishaps]
  BY <1>0, Fields
<1>2. Set(s, r)
  BY Zenon
<1> HIDE DEF asked
<1>3. r = [pc |-> pc, host |-> run[s].host, shown |-> shown,
           exit |-> run[s].exit, backend |-> run[s].backend, mishaps |-> run[s].mishaps]
  BY <1>1
<1> HIDE DEF r
<1>4. r \in Setup
  BY <1>0, <1>3, ASetup, Fields
<1>5. After(s, r.pc, r.host, r.shown, r.exit, r.backend, r.mishaps)
  BY <1>2, <1>4, SetShape
<1> QED BY <1>3, <1>5

-------------------------------------------------------------------------------
(* What a step does to the command of a setup.                             *)

Phases == {"none", "running", "background", "detached", "gone"}
Codes  == {0, 1, Killed, NoCode}

Ran(s, phase, code) ==
  /\ command' \in [Setups -> Command]
  /\ command'[s] = [phase |-> phase, code |-> code]
  /\ \A t \in Setups \ {s} : command'[t] = command[t]

LEMMA CommandIs ==
  ASSUME command \in [Setups -> Command], NEW s \in Setups
  PROVE  /\ command[s].phase \in Phases /\ command[s].code \in Codes
         /\ command[s] = [phase |-> command[s].phase, code |-> command[s].code]
BY DEF Command, Phases, Codes

LEMMA RanShape ==
  ASSUME command \in [Setups -> Command], NEW s \in Setups,
         NEW phase \in Phases, NEW code \in Codes,
         command' = [command EXCEPT ![s] = [phase |-> phase, code |-> code]]
  PROVE  Ran(s, phase, code)
BY DEF Ran, Command, Phases, Codes

LEMMA PhaseShape ==
  ASSUME command \in [Setups -> Command], NEW s \in Setups, NEW phase \in Phases,
         command' = [command EXCEPT ![s].phase = phase]
  PROVE  Ran(s, phase, command[s].code)
BY DEF Ran, Command, Phases

LEMMA KillShellShape ==
  ASSUME command \in [Setups -> Command], NEW s \in Setups, KillShell(s)
  PROVE  \E phase \in Phases, code \in Codes :
           /\ Ran(s, phase, code)
           /\ IF command[s].phase = "running"
              THEN phase \in {"background", "detached", "gone"}
              ELSE phase = command[s].phase /\ code = command[s].code
<1>1. PICK left \in {"background", "detached", "gone"} :
        command' = [command EXCEPT ![s] =
                      IF @.phase = "running" THEN [phase |-> left, code |-> Killed] ELSE @]
  BY DEF KillShell
<1>2. CASE command[s].phase = "running"
  <2>1. command' = [command EXCEPT ![s] = [phase |-> left, code |-> Killed]]
    BY <1>1, <1>2
  <2>2. left \in Phases /\ Killed \in Codes
    BY DEF Phases, Codes
  <2>3. Ran(s, left, Killed)
    BY <2>1, <2>2, RanShape
  <2> QED BY <1>2, <2>2, <2>3
<1>3. CASE command[s].phase # "running"
  <2>1. command' = [command EXCEPT ![s] = [phase |-> command[s].phase,
                                           code |-> command[s].code]]
    BY <1>1, <1>3, CommandIs
  <2>2. Ran(s, command[s].phase, command[s].code)
    BY <2>1, CommandIs, RanShape
  <2> QED BY <1>3, <2>2, CommandIs
<1> QED BY <1>2, <1>3

LEMMA KillShape ==
  ASSUME command \in [Setups -> Command], NEW s \in Setups,
         command' = [command EXCEPT ![s] = Kill(s)]
  PROVE  \E phase \in Phases, code \in Codes :
           /\ Ran(s, phase, code)
           /\ command[s].phase = "running" => phase = "gone"
           /\ command[s].phase # "running" =>
                phase = command[s].phase /\ code = command[s].code
<1>1. CASE command[s].phase = "running"
  <2>1. "gone" \in Phases /\ Killed \in Codes
    BY DEF Phases, Codes
  <2>2. Ran(s, "gone", Killed)
    BY <1>1, <2>1, RanShape DEF Kill
  <2> QED BY <1>1, <2>1, <2>2
<1>2. CASE command[s].phase # "running"
  <2>1. Ran(s, command[s].phase, command[s].code)
    BY <1>2, CommandIs, RanShape DEF Kill
  <2> QED BY <1>2, <2>1, CommandIs
<1> QED BY <1>1, <1>2

-------------------------------------------------------------------------------
(* The inductive invariant.                                                *)

Types ==
  /\ run \in [Setups -> Setup]
  /\ command \in [Setups -> Command]
  /\ container \in [Setups -> {"none", "created", "started"}]
  /\ gateway \in [Setups -> {"none", "starting", "serving"}]
  /\ docker \in BOOLEAN
  /\ flips \in 0..MaxFlips
  /\ signals \in 0..MaxSignals

\* What LeftForAReason says of the end holds from the last step of the cleaning up.
Left(s) ==
  /\ At(s, "ended") => gateway[s] = "none"
  /\ run[s].pc \in {"print", "ended"} /\ container[s] # "none" =>
       run[s].mishaps \cap {"start", "remove", "signal"} # {}
  /\ run[s].pc \in {"print", "ended"} /\ container[s] = "none"
       /\ command[s].phase \in {"running", "background"} =>
       run[s].mishaps \cap {"timeout", "signal"} # {}

\* Nobody but the setup kills its command, and only when it no longer looks.
Reporting(s) ==
  /\ run[s].pc \in {"wait", "logs", "remove", "collect"} /\ command[s].phase # "running"
       => command[s].code \in {0, 1}
  /\ run[s].exit \in {0, 1} =>
       /\ run[s].pc \in {"logs", "remove", "print", "ended"}
       /\ command[s].code = run[s].exit
       /\ command[s].phase \in {"detached", "gone"}
       /\ run[s].backend = "docker" => command[s].phase = "gone"

\* The three answers about docker, as far as they have been asked for.
Hosting(s) ==
  /\ run[s].backend # "none" => run[s].pc \in {"logs", "remove", "print", "ended"}
  /\ "flip" \notin run[s].mishaps =>
       /\ run[s].pc \in {"summary", "serve", "check"} => run[s].host = Backend(docker)
       /\ run[s].pc \in {"serve", "check"} => run[s].shown = Backend(docker)
       /\ run[s].pc \in {"create", "start", "wait", "logs", "remove"} =>
            run[s].host = "docker" /\ run[s].shown = "docker"
       /\ run[s].pc \in {"spawn", "collect"} =>
            run[s].host = "subprocess" /\ run[s].shown = "subprocess"
       /\ run[s].backend # "none" =>
            run[s].host = run[s].backend /\ run[s].shown = run[s].backend

Good(s) == Placed(s) /\ Left(s) /\ Reporting(s) /\ Hosting(s)

IInv == Types /\ \A s \in Setups : Good(s)

-------------------------------------------------------------------------------
(* One lemma per action.                                                   *)

Others(s) == \A t \in Setups \ {s} :
  /\ run'[t] = run[t] /\ command'[t] = command[t]
  /\ container'[t] = container[t] /\ gateway'[t] = gateway[t]

\* What is to be shown of a step of s.
Keeps(s) == Types' /\ Good(s)' /\ Others(s) /\ docker' = docker

LEMMA BeginKeeps ==
  ASSUME IInv, NEW s \in Setups, Begin(s)
  PROVE  Keeps(s)
<1>1. Types /\ Good(s) /\ At(s, "idle") /\ UNCHANGED <<command, container, gateway, world>>
  BY DEF IInv, Begin
<1>2. After(s, "host", run[s].host, run[s].shown, run[s].exit,
            run[s].backend, run[s].mishaps)
  BY <1>1, GotoShape DEF Types, Pcs, Begin
<1>3. Types' /\ Others(s) /\ docker' = docker
  BY <1>1, <1>2 DEF Types, After, Ran, Others, world
<1>4. Placed(s)'
  BY <1>1, <1>2 DEF Types, Good, Placed, Reporting, At, After, Ran, Command, world
<1>5. Left(s)'
  BY <1>1, <1>2 DEF Types, Good, Placed, Left, At, After, Ran, Command, world
<1>6. Reporting(s)'
  BY <1>1, <1>2 DEF Types, Good, Placed, Reporting, At, After, Ran, Command,
    world, TimeoutCode, Error, NoCode, Killed
<1>7. Hosting(s)'
  BY <1>1, <1>2 DEF Types, Good, Hosting, At, After, Backend, world
<1> QED BY <1>3, <1>4, <1>5, <1>6, <1>7 DEF Keeps, Good

LEMMA ChooseHostKeeps ==
  ASSUME IInv, NEW s \in Setups, ChooseHost(s)
  PROVE  Keeps(s)
<1>1. Types /\ Good(s) /\ At(s, "host") /\ UNCHANGED <<command, container, gateway, world>>
  BY DEF IInv, ChooseHost
<1>2. After(s, "summary", Backend(docker), run[s].shown, run[s].exit,
            run[s].backend, run[s].mishaps)
  BY <1>1, HostShape DEF Types, Pcs, Backends, Backend, ChooseHost
<1>3. Types' /\ Others(s) /\ docker' = docker
  BY <1>1, <1>2 DEF Types, After, Ran, Others, world
<1>4. Placed(s)'
  BY <1>1, <1>2 DEF Types, Good, Placed, Reporting, At, After, Ran, Command, world
<1>5. Left(s)'
  BY <1>1, <1>2 DEF Types, Good, Placed, Left, At, After, Ran, Command, world
<1>6. Reporting(s)'
  BY <1>1, <1>2 DEF Types, Good, Placed, Reporting, At, After, Ran, Command,
    world, TimeoutCode, Error, NoCode, Killed
<1>7. Hosting(s)'
  BY <1>1, <1>2 DEF Types, Good, Hosting, At, After, Backend, world
<1> QED BY <1>3, <1>4, <1>5, <1>6, <1>7 DEF Keeps, Good

LEMMA SummarizeKeeps ==
  ASSUME IInv, NEW s \in Setups, Summarize(s)
  PROVE  Keeps(s)
<1>1. Types /\ Good(s) /\ At(s, "summary") /\ UNCHANGED <<command, container, gateway, world>>
  BY DEF IInv, Summarize
<1>2. After(s, "serve", run[s].host, Backend(docker), run[s].exit,
            run[s].backend, run[s].mishaps)
  BY <1>1, ShownShape DEF Types, Pcs, Backends, Backend, Summarize
<1>3. Types' /\ Others(s) /\ docker' = docker
  BY <1>1, <1>2 DEF Types, After, Ran, Others, world
<1>4. Placed(s)'
  BY <1>1, <1>2 DEF Types, Good, Placed, Reporting, At, After, Ran, Command, world
<1>5. Left(s)'
  BY <1>1, <1>2 DEF Types, Good, Placed, Left, At, After, Ran, Command, world
<1>6. Reporting(s)'
  BY <1>1, <1>2 DEF Types, Good, Placed, Reporting, At, After, Ran, Command,
    world, TimeoutCode, Error, NoCode, Killed
<1>7. Hosting(s)'
  BY <1>1, <1>2 DEF Types, Good, Hosting, At, After, Backend, world
<1> QED BY <1>3, <1>4, <1>5, <1>6, <1>7 DEF Keeps, Good

LEMMA ServeMockKeeps ==
  ASSUME IInv, NEW s \in Setups, ServeMock(s)
  PROVE  Keeps(s)
<1>1. Types /\ Good(s) /\ At(s, "serve") /\ UNCHANGED <<command, container, world>>
     /\ \E life \in {"none", "starting"} : gateway' = [gateway EXCEPT ![s] = life]
  BY DEF IInv, ServeMock
<1>2. After(s, "check", run[s].host, run[s].shown, run[s].exit,
            run[s].backend, run[s].mishaps)
  BY <1>1, GotoShape DEF Types, Pcs, ServeMock
<1>3. Types' /\ Others(s) /\ docker' = docker
  BY <1>1, <1>2 DEF Types, After, Ran, Others, world
<1>4. Placed(s)'
  BY <1>1, <1>2 DEF Types, Good, Placed, Reporting, At, After, Ran, Command, world
<1>5. Left(s)'
  BY <1>1, <1>2 DEF Types, Good, Placed, Left, At, After, Ran, Command, world
<1>6. Reporting(s)'
  BY <1>1, <1>2 DEF Types, Good, Placed, Reporting, At, After, Ran, Command,
    world, TimeoutCode, Error, NoCode, Killed
<1>7. Hosting(s)'
  BY <1>1, <1>2 DEF Types, Good, Hosting, At, After, Backend, world
<1> QED BY <1>3, <1>4, <1>5, <1>6, <1>7 DEF Keeps, Good

LEMMA ListenKeeps ==
  ASSUME IInv, NEW s \in Setups, Listen(s)
  PROVE  Keeps(s)
<1>1. Types /\ Good(s) /\ gateway[s] = "starting" /\ gateway' = [gateway EXCEPT ![s] = "serving"]
     /\ UNCHANGED <<run, command, container, world>>
  BY DEF IInv, Listen
<1>2. Types' /\ Others(s) /\ docker' = docker
  BY <1>1 DEF Types, After, Ran, Others, world
<1>3. Placed(s)'
  BY <1>1 DEF Types, Good, Placed, Reporting, At, After, Ran, Command, world
<1>4. Left(s)'
  BY <1>1 DEF Types, Good, Placed, Left, At, After, Ran, Command, world
<1>5. Reporting(s)'
  BY <1>1 DEF Types, Good, Placed, Reporting, At, After, Ran, Command,
    world, TimeoutCode, Error, NoCode, Killed
<1>6. Hosting(s)'
  BY <1>1 DEF Types, Good, Hosting, At, After, Backend, world
<1> QED BY <1>2, <1>3, <1>4, <1>5, <1>6 DEF Keeps, Good

LEMMA ListenFailsKeeps ==
  ASSUME IInv, NEW s \in Setups, ListenFails(s)
  PROVE  Keeps(s)
<1>1. Types /\ Good(s) /\ gateway[s] = "starting" /\ gateway' = [gateway EXCEPT ![s] = "none"]
     /\ UNCHANGED <<run, command, container, world>>
  BY DEF IInv, ListenFails
<1>2. Types' /\ Others(s) /\ docker' = docker
  BY <1>1 DEF Types, After, Ran, Others, world
<1>3. Placed(s)'
  BY <1>1 DEF Types, Good, Placed, Reporting, At, After, Ran, Command, world
<1>4. Left(s)'
  BY <1>1 DEF Types, Good, Placed, Left, At, After, Ran, Command, world
<1>5. Reporting(s)'
  BY <1>1 DEF Types, Good, Placed, Reporting, At, After, Ran, Command,
    world, TimeoutCode, Error, NoCode, Killed
<1>6. Hosting(s)'
  BY <1>1 DEF Types, Good, Hosting, At, After, Backend, world
<1> QED BY <1>2, <1>3, <1>4, <1>5, <1>6 DEF Keeps, Good

LEMMA CheckKeeps ==
  ASSUME IInv, NEW s \in Setups, Check(s)
  PROVE  Keeps(s)
<1>1. Types /\ Good(s) /\ At(s, "check") /\ UNCHANGED <<command, container, gateway, world>>
  BY DEF IInv, Check
<1>2. CASE docker /\ Goto(s, "create")
  <2>1. After(s, "create", run[s].host, run[s].shown, run[s].exit,
              run[s].backend, run[s].mishaps)
    BY <1>1, <1>2, GotoShape DEF Types, Pcs
  <2>2. Types' /\ Others(s) /\ docker' = docker
    BY <1>1, <1>2, <2>1 DEF Types, After, Ran, Others, world
  <2>3. Placed(s)'
    BY <1>1, <1>2, <2>1 DEF Types, Good, Placed, Reporting, At, After, Ran, Command, world
  <2>4. Left(s)'
    BY <1>1, <1>2, <2>1 DEF Types, Good, Placed, Left, At, After, Ran, Command, world
  <2>5. Reporting(s)'
    BY <1>1, <1>2, <2>1 DEF Types, Good, Placed, Reporting, At, After, Ran, Command,
      world, TimeoutCode, Error, NoCode, Killed
  <2>6. Hosting(s)'
    BY <1>1, <1>2, <2>1 DEF Types, Good, Hosting, At, After, Backend, world
  <2> QED BY <2>2, <2>3, <2>4, <2>5, <2>6 DEF Keeps, Good
<1>3. CASE ~docker /\ Goto(s, "spawn")
  <2>1. After(s, "spawn", run[s].host, run[s].shown, run[s].exit,
              run[s].backend, run[s].mishaps)
    BY <1>1, <1>3, GotoShape DEF Types, Pcs
  <2>2. Types' /\ Others(s) /\ docker' = docker
    BY <1>1, <1>3, <2>1 DEF Types, After, Ran, Others, world
  <2>3. Placed(s)'
    BY <1>1, <1>3, <2>1 DEF Types, Good, Placed, Reporting, At, After, Ran, Command, world
  <2>4. Left(s)'
    BY <1>1, <1>3, <2>1 DEF Types, Good, Placed, Left, At, After, Ran, Command, world
  <2>5. Reporting(s)'
    BY <1>1, <1>3, <2>1 DEF Types, Good, Placed, Reporting, At, After, Ran, Command,
      world, TimeoutCode, Error, NoCode, Killed
  <2>6. Hosting(s)'
    BY <1>1, <1>3, <2>1 DEF Types, Good, Hosting, At, After, Backend, world
  <2> QED BY <2>2, <2>3, <2>4, <2>5, <2>6 DEF Keeps, Good
<1>4. CASE Failed(s, "print")
  <2>1. After(s, "print", run[s].host, run[s].shown, Error,
              "none", run[s].mishaps)
    BY <1>1, <1>4, FailedShape DEF Types, Pcs
  <2>2. Types' /\ Others(s) /\ docker' = docker
    BY <1>1, <1>4, <2>1 DEF Types, After, Ran, Others, world
  <2>3. Placed(s)'
    BY <1>1, <1>4, <2>1 DEF Types, Good, Placed, Reporting, At, After, Ran, Command, world
  <2>4. Left(s)'
    BY <1>1, <1>4, <2>1 DEF Types, Good, Placed, Left, At, After, Ran, Command, world
  <2>5. Reporting(s)'
    BY <1>1, <1>4, <2>1 DEF Types, Good, Placed, Reporting, At, After, Ran, Command,
      world, TimeoutCode, Error, NoCode, Killed
  <2>6. Hosting(s)'
    BY <1>1, <1>4, <2>1 DEF Types, Good, Hosting, At, After, Backend, world
  <2> QED BY <2>2, <2>3, <2>4, <2>5, <2>6 DEF Keeps, Good
<1> QED BY <1>1, <1>2, <1>3, <1>4 DEF Check

LEMMA CreateKeeps ==
  ASSUME IInv, NEW s \in Setups, Create(s)
  PROVE  Keeps(s)
<1>1. Types /\ Good(s) /\ At(s, "create") /\ UNCHANGED <<command, gateway, world>>
  BY DEF IInv, Create
<1>2. CASE Goto(s, "start") /\ container' = [container EXCEPT ![s] = "created"]
  <2>1. After(s, "start", run[s].host, run[s].shown, run[s].exit,
              run[s].backend, run[s].mishaps)
    BY <1>1, <1>2, GotoShape DEF Types, Pcs
  <2>2. Types' /\ Others(s) /\ docker' = docker
    BY <1>1, <1>2, <2>1 DEF Types, After, Ran, Others, world
  <2>3. Placed(s)'
    BY <1>1, <1>2, <2>1 DEF Types, Good, Placed, Reporting, At, After, Ran, Command, world
  <2>4. Left(s)'
    BY <1>1, <1>2, <2>1 DEF Types, Good, Placed, Left, At, After, Ran, Command, world
  <2>5. Reporting(s)'
    BY <1>1, <1>2, <2>1 DEF Types, Good, Placed, Reporting, At, After, Ran, Command,
      world, TimeoutCode, Error, NoCode, Killed
  <2>6. Hosting(s)'
    BY <1>1, <1>2, <2>1 DEF Types, Good, Hosting, At, After, Backend, world
  <2> QED BY <2>2, <2>3, <2>4, <2>5, <2>6 DEF Keeps, Good
<1>3. CASE Failed(s, "print") /\ UNCHANGED container
  <2>1. After(s, "print", run[s].host, run[s].shown, Error,
              "none", run[s].mishaps)
    BY <1>1, <1>3, FailedShape DEF Types, Pcs
  <2>2. Types' /\ Others(s) /\ docker' = docker
    BY <1>1, <1>3, <2>1 DEF Types, After, Ran, Others, world
  <2>3. Placed(s)'
    BY <1>1, <1>3, <2>1 DEF Types, Good, Placed, Reporting, At, After, Ran, Command, world
  <2>4. Left(s)'
    BY <1>1, <1>3, <2>1 DEF Types, Good, Placed, Left, At, After, Ran, Command, world
  <2>5. Reporting(s)'
    BY <1>1, <1>3, <2>1 DEF Types, Good, Placed, Reporting, At, After, Ran, Command,
      world, TimeoutCode, Error, NoCode, Killed
  <2>6. Hosting(s)'
    BY <1>1, <1>3, <2>1 DEF Types, Good, Hosting, At, After, Backend, world
  <2> QED BY <2>2, <2>3, <2>4, <2>5, <2>6 DEF Keeps, Good
<1> QED BY <1>1, <1>2, <1>3 DEF Create

LEMMA StartKeeps ==
  ASSUME IInv, NEW s \in Setups, Start(s)
  PROVE  Keeps(s)
<1>1. Types /\ Good(s) /\ At(s, "start") /\ UNCHANGED <<gateway, world>>
  BY DEF IInv, Start
<1>2. CASE /\ container' = [container EXCEPT ![s] = "started"]
           /\ command' = [command EXCEPT ![s].phase = "running"]
           /\ Goto(s, "wait")
  <2>1. After(s, "wait", run[s].host, run[s].shown, run[s].exit,
              run[s].backend, run[s].mishaps)
    BY <1>1, <1>2, GotoShape DEF Types, Pcs
  <2>2. Ran(s, "running", command[s].code)
    BY <1>1, <1>2, PhaseShape DEF Types, Phases
  <2>3. Types' /\ Others(s) /\ docker' = docker
    BY <1>1, <1>2, <2>1, <2>2 DEF Types, After, Ran, Others, world
  <2>4. Placed(s)'
    BY <1>1, <1>2, <2>1, <2>2 DEF Types, Good, Placed, Reporting, At, After, Ran, Command, world
  <2>5. Left(s)'
    BY <1>1, <1>2, <2>1, <2>2 DEF Types, Good, Placed, Left, At, After, Ran, Command, world
  <2>6. Reporting(s)'
    BY <1>1, <1>2, <2>1, <2>2 DEF Types, Good, Placed, Reporting, At, After, Ran, Command,
      world, TimeoutCode, Error, NoCode, Killed
  <2>7. Hosting(s)'
    BY <1>1, <1>2, <2>1, <2>2 DEF Types, Good, Hosting, At, After, Backend, world
  <2> QED BY <2>3, <2>4, <2>5, <2>6, <2>7 DEF Keeps, Good
<1>3. CASE /\ ReportMishap(s, Error, "none", "start", "print")
           /\ UNCHANGED <<command, container>>
  <2>1. After(s, "print", run[s].host, run[s].shown, Error,
              "none", run[s].mishaps \cup {"start"})
    BY <1>1, <1>3, ReportMishapShape DEF Types, Pcs, Exits, Backends, Mishaps
  <2>2. Types' /\ Others(s) /\ docker' = docker
    BY <1>1, <1>3, <2>1 DEF Types, After, Ran, Others, world
  <2>3. Placed(s)'
    BY <1>1, <1>3, <2>1 DEF Types, Good, Placed, Reporting, At, After, Ran, Command, world
  <2>4. Left(s)'
    BY <1>1, <1>3, <2>1 DEF Types, Good, Placed, Left, At, After, Ran, Command, world
  <2>5. Reporting(s)'
    BY <1>1, <1>3, <2>1 DEF Types, Good, Placed, Reporting, At, After, Ran, Command,
      world, TimeoutCode, Error, NoCode, Killed
  <2>6. Hosting(s)'
    BY <1>1, <1>3, <2>1 DEF Types, Good, Hosting, At, After, Backend, world
  <2> QED BY <2>2, <2>3, <2>4, <2>5, <2>6 DEF Keeps, Good
<1> QED BY <1>1, <1>2, <1>3 DEF Start

LEMMA WaitKeeps ==
  ASSUME IInv, NEW s \in Setups, Wait(s)
  PROVE  Keeps(s)
<1>1. Types /\ Good(s) /\ At(s, "wait") /\ UNCHANGED <<command, container, gateway, world>>
  BY DEF IInv, Wait
<1>2. ASSUME NEW exit \in {command[s].code, Error}, command[s].phase = "gone",
             Report(s, exit, "docker", "logs")
      PROVE  Keeps(s)
  <2>0. command[s].code \in {0, 1}
    BY <1>1, <1>2 DEF Good, Reporting, At
  <2>1. After(s, "logs", run[s].host, run[s].shown, exit,
              "docker", run[s].mishaps)
    BY <1>1, <1>2, <2>0, ReportShape DEF Types, Pcs, Exits, Backends
  <2>2. Types' /\ Others(s) /\ docker' = docker
    BY <1>1, <1>2, <2>0, <2>1 DEF Types, After, Ran, Others, world
  <2>3. Placed(s)'
    BY <1>1, <1>2, <2>0, <2>1 DEF Types, Good, Placed, Reporting, At, After, Ran, Command, world
  <2>4. Left(s)'
    BY <1>1, <1>2, <2>0, <2>1 DEF Types, Good, Placed, Left, At, After, Ran, Command, world
  <2>5. Reporting(s)'
    BY <1>1, <1>2, <2>0, <2>1 DEF Types, Good, Placed, Reporting, At, After, Ran, Command,
      world, TimeoutCode, Error, NoCode, Killed
  <2>6. Hosting(s)'
    BY <1>1, <1>2, <2>0, <2>1 DEF Types, Good, Hosting, At, After, Backend, world
  <2> QED BY <2>2, <2>3, <2>4, <2>5, <2>6 DEF Keeps, Good
<1>3. CASE Failed(s, "remove")
  <2>1. After(s, "remove", run[s].host, run[s].shown, Error,
              "none", run[s].mishaps)
    BY <1>1, <1>3, FailedShape DEF Types, Pcs
  <2>2. Types' /\ Others(s) /\ docker' = docker
    BY <1>1, <1>3, <2>1 DEF Types, After, Ran, Others, world
  <2>3. Placed(s)'
    BY <1>1, <1>3, <2>1 DEF Types, Good, Placed, Reporting, At, After, Ran, Command, world
  <2>4. Left(s)'
    BY <1>1, <1>3, <2>1 DEF Types, Good, Placed, Left, At, After, Ran, Command, world
  <2>5. Reporting(s)'
    BY <1>1, <1>3, <2>1 DEF Types, Good, Placed, Reporting, At, After, Ran, Command,
      world, TimeoutCode, Error, NoCode, Killed
  <2>6. Hosting(s)'
    BY <1>1, <1>3, <2>1 DEF Types, Good, Hosting, At, After, Backend, world
  <2> QED BY <2>2, <2>3, <2>4, <2>5, <2>6 DEF Keeps, Good
<1> QED BY <1>1, <1>2, <1>3 DEF Wait

LEMMA LogsKeeps ==
  ASSUME IInv, NEW s \in Setups, Logs(s)
  PROVE  Keeps(s)
<1>1. Types /\ Good(s) /\ At(s, "logs") /\ UNCHANGED <<command, container, gateway, world>>
  BY DEF IInv, Logs
<1>2. CASE Goto(s, "remove")
  <2>1. After(s, "remove", run[s].host, run[s].shown, run[s].exit,
              run[s].backend, run[s].mishaps)
    BY <1>1, <1>2, GotoShape DEF Types, Pcs
  <2>2. Types' /\ Others(s) /\ docker' = docker
    BY <1>1, <1>2, <2>1 DEF Types, After, Ran, Others, world
  <2>3. Placed(s)'
    BY <1>1, <1>2, <2>1 DEF Types, Good, Placed, Reporting, At, After, Ran, Command, world
  <2>4. Left(s)'
    BY <1>1, <1>2, <2>1 DEF Types, Good, Placed, Left, At, After, Ran, Command, world
  <2>5. Reporting(s)'
    BY <1>1, <1>2, <2>1 DEF Types, Good, Placed, Reporting, At, After, Ran, Command,
      world, TimeoutCode, Error, NoCode, Killed
  <2>6. Hosting(s)'
    BY <1>1, <1>2, <2>1 DEF Types, Good, Hosting, At, After, Backend, world
  <2> QED BY <2>2, <2>3, <2>4, <2>5, <2>6 DEF Keeps, Good
<1>3. CASE Failed(s, "remove")
  <2>1. After(s, "remove", run[s].host, run[s].shown, Error,
              "none", run[s].mishaps)
    BY <1>1, <1>3, FailedShape DEF Types, Pcs
  <2>2. Types' /\ Others(s) /\ docker' = docker
    BY <1>1, <1>3, <2>1 DEF Types, After, Ran, Others, world
  <2>3. Placed(s)'
    BY <1>1, <1>3, <2>1 DEF Types, Good, Placed, Reporting, At, After, Ran, Command, world
  <2>4. Left(s)'
    BY <1>1, <1>3, <2>1 DEF Types, Good, Placed, Left, At, After, Ran, Command, world
  <2>5. Reporting(s)'
    BY <1>1, <1>3, <2>1 DEF Types, Good, Placed, Reporting, At, After, Ran, Command,
      world, TimeoutCode, Error, NoCode, Killed
  <2>6. Hosting(s)'
    BY <1>1, <1>3, <2>1 DEF Types, Good, Hosting, At, After, Backend, world
  <2> QED BY <2>2, <2>3, <2>4, <2>5, <2>6 DEF Keeps, Good
<1> QED BY <1>1, <1>2, <1>3 DEF Logs

LEMMA RemoveKeeps ==
  ASSUME IInv, NEW s \in Setups, Remove(s)
  PROVE  Keeps(s)
<1>1. Types /\ Good(s) /\ At(s, "remove") /\ UNCHANGED <<gateway, world>>
  BY DEF IInv, Remove
<1>2. CASE /\ container' = [container EXCEPT ![s] = "none"]
           /\ command' = [command EXCEPT ![s] = Kill(s)]
           /\ Goto(s, "print")
  <2>1. After(s, "print", run[s].host, run[s].shown, run[s].exit,
              run[s].backend, run[s].mishaps)
    BY <1>1, <1>2, GotoShape DEF Types, Pcs
  <2>2. \E phase \in Phases, code \in Codes :
          /\ Ran(s, phase, code)
          /\ command[s].phase = "running" => phase = "gone"
          /\ command[s].phase # "running" => phase = command[s].phase /\ code = command[s].code
    BY <1>1, <1>2, KillShape DEF Types
  <2>3. Types' /\ Others(s) /\ docker' = docker
    BY <1>1, <1>2, <2>1, <2>2 DEF Types, After, Ran, Others, world
  <2>4. Placed(s)'
    BY <1>1, <1>2, <2>1, <2>2 DEF Types, Good, Placed, Reporting, At, After, Ran, Command, world
  <2>5. Left(s)'
    BY <1>1, <1>2, <2>1, <2>2 DEF Types, Good, Placed, Left, At, After, Ran, Command, world
  <2>6. Reporting(s)'
    BY <1>1, <1>2, <2>1, <2>2 DEF Types, Good, Placed, Reporting, At, After, Ran, Command,
      world, TimeoutCode, Error, NoCode, Killed
  <2>7. Hosting(s)'
    BY <1>1, <1>2, <2>1, <2>2 DEF Types, Good, Hosting, At, After, Backend, world
  <2> QED BY <2>3, <2>4, <2>5, <2>6, <2>7 DEF Keeps, Good
<1>3. CASE Mishap(s, "remove", "print") /\ UNCHANGED <<command, container>>
  <2>1. After(s, "print", run[s].host, run[s].shown, run[s].exit,
              run[s].backend, run[s].mishaps \cup {"remove"})
    BY <1>1, <1>3, MishapShape DEF Types, Pcs, Mishaps
  <2>2. Types' /\ Others(s) /\ docker' = docker
    BY <1>1, <1>3, <2>1 DEF Types, After, Ran, Others, world
  <2>3. Placed(s)'
    BY <1>1, <1>3, <2>1 DEF Types, Good, Placed, Reporting, At, After, Ran, Command, world
  <2>4. Left(s)'
    BY <1>1, <1>3, <2>1 DEF Types, Good, Placed, Left, At, After, Ran, Command, world
  <2>5. Reporting(s)'
    BY <1>1, <1>3, <2>1 DEF Types, Good, Placed, Reporting, At, After, Ran, Command,
      world, TimeoutCode, Error, NoCode, Killed
  <2>6. Hosting(s)'
    BY <1>1, <1>3, <2>1 DEF Types, Good, Hosting, At, After, Backend, world
  <2> QED BY <2>2, <2>3, <2>4, <2>5, <2>6 DEF Keeps, Good
<1> QED BY <1>1, <1>2, <1>3 DEF Remove

LEMMA SpawnKeeps ==
  ASSUME IInv, NEW s \in Setups, Spawn(s)
  PROVE  Keeps(s)
<1>1. Types /\ Good(s) /\ At(s, "spawn") /\ UNCHANGED <<container, gateway, world>>
  BY DEF IInv, Spawn
<1>2. CASE Goto(s, "collect") /\ command' = [command EXCEPT ![s].phase = "running"]
  <2>1. After(s, "collect", run[s].host, run[s].shown, run[s].exit,
              run[s].backend, run[s].mishaps)
    BY <1>1, <1>2, GotoShape DEF Types, Pcs
  <2>2. Ran(s, "running", command[s].code)
    BY <1>1, <1>2, PhaseShape DEF Types, Phases
  <2>3. Types' /\ Others(s) /\ docker' = docker
    BY <1>1, <1>2, <2>1, <2>2 DEF Types, After, Ran, Others, world
  <2>4. Placed(s)'
    BY <1>1, <1>2, <2>1, <2>2 DEF Types, Good, Placed, Reporting, At, After, Ran, Command, world
  <2>5. Left(s)'
    BY <1>1, <1>2, <2>1, <2>2 DEF Types, Good, Placed, Left, At, After, Ran, Command, world
  <2>6. Reporting(s)'
    BY <1>1, <1>2, <2>1, <2>2 DEF Types, Good, Placed, Reporting, At, After, Ran, Command,
      world, TimeoutCode, Error, NoCode, Killed
  <2>7. Hosting(s)'
    BY <1>1, <1>2, <2>1, <2>2 DEF Types, Good, Hosting, At, After, Backend, world
  <2> QED BY <2>3, <2>4, <2>5, <2>6, <2>7 DEF Keeps, Good
<1>3. CASE Failed(s, "print") /\ UNCHANGED command
  <2>1. After(s, "print", run[s].host, run[s].shown, Error,
              "none", run[s].mishaps)
    BY <1>1, <1>3, FailedShape DEF Types, Pcs
  <2>2. Types' /\ Others(s) /\ docker' = docker
    BY <1>1, <1>3, <2>1 DEF Types, After, Ran, Others, world
  <2>3. Placed(s)'
    BY <1>1, <1>3, <2>1 DEF Types, Good, Placed, Reporting, At, After, Ran, Command, world
  <2>4. Left(s)'
    BY <1>1, <1>3, <2>1 DEF Types, Good, Placed, Left, At, After, Ran, Command, world
  <2>5. Reporting(s)'
    BY <1>1, <1>3, <2>1 DEF Types, Good, Placed, Reporting, At, After, Ran, Command,
      world, TimeoutCode, Error, NoCode, Killed
  <2>6. Hosting(s)'
    BY <1>1, <1>3, <2>1 DEF Types, Good, Hosting, At, After, Backend, world
  <2> QED BY <2>2, <2>3, <2>4, <2>5, <2>6 DEF Keeps, Good
<1> QED BY <1>1, <1>2, <1>3 DEF Spawn

LEMMA CollectKeeps ==
  ASSUME IInv, NEW s \in Setups, Collect(s)
  PROVE  Keeps(s)
<1>1. Types /\ Good(s) /\ At(s, "collect") /\ command[s].phase \in {"detached", "gone"}
     /\ UNCHANGED <<command, container, gateway, world>>
  BY DEF IInv, Collect
<1>2. CASE Report(s, command[s].code, "subprocess", "print")
  <2>1. After(s, "print", run[s].host, run[s].shown, command[s].code,
              "subprocess", run[s].mishaps)
    BY <1>1, <1>2, ReportShape DEF Types, Pcs, Exits, Backends, Good, Reporting, At
  <2>2. Types' /\ Others(s) /\ docker' = docker
    BY <1>1, <1>2, <2>1 DEF Types, After, Ran, Others, world
  <2>3. Placed(s)'
    BY <1>1, <1>2, <2>1 DEF Types, Good, Placed, Reporting, At, After, Ran, Command, world
  <2>4. Left(s)'
    BY <1>1, <1>2, <2>1 DEF Types, Good, Placed, Left, At, After, Ran, Command, world
  <2>5. Reporting(s)'
    BY <1>1, <1>2, <2>1 DEF Types, Good, Placed, Reporting, At, After, Ran, Command,
      world, TimeoutCode, Error, NoCode, Killed
  <2>6. Hosting(s)'
    BY <1>1, <1>2, <2>1 DEF Types, Good, Hosting, At, After, Backend, world
  <2> QED BY <2>2, <2>3, <2>4, <2>5, <2>6 DEF Keeps, Good
<1>3. CASE Failed(s, "print")
  <2>1. After(s, "print", run[s].host, run[s].shown, Error,
              "none", run[s].mishaps)
    BY <1>1, <1>3, FailedShape DEF Types, Pcs
  <2>2. Types' /\ Others(s) /\ docker' = docker
    BY <1>1, <1>3, <2>1 DEF Types, After, Ran, Others, world
  <2>3. Placed(s)'
    BY <1>1, <1>3, <2>1 DEF Types, Good, Placed, Reporting, At, After, Ran, Command, world
  <2>4. Left(s)'
    BY <1>1, <1>3, <2>1 DEF Types, Good, Placed, Left, At, After, Ran, Command, world
  <2>5. Reporting(s)'
    BY <1>1, <1>3, <2>1 DEF Types, Good, Placed, Reporting, At, After, Ran, Command,
      world, TimeoutCode, Error, NoCode, Killed
  <2>6. Hosting(s)'
    BY <1>1, <1>3, <2>1 DEF Types, Good, Hosting, At, After, Backend, world
  <2> QED BY <2>2, <2>3, <2>4, <2>5, <2>6 DEF Keeps, Good
<1> QED BY <1>1, <1>2, <1>3 DEF Collect

LEMMA TimeOutKeeps ==
  ASSUME IInv, NEW s \in Setups, TimeOut(s)
  PROVE  Keeps(s)
<1>1. Types /\ Good(s) /\ At(s, "collect") /\ UNCHANGED <<container, gateway, world>>
  BY DEF IInv, TimeOut
<1>2. After(s, "print", run[s].host, run[s].shown, TimeoutCode,
            "subprocess", run[s].mishaps \cup {"timeout"})
  BY <1>1, ReportMishapShape DEF Types, Pcs, Exits, Backends, Mishaps, TimeOut
<1>3. \E phase \in Phases, code \in Codes :
        /\ Ran(s, phase, code)
        /\ IF command[s].phase = "running"
           THEN phase \in {"background", "detached", "gone"}
           ELSE phase = command[s].phase /\ code = command[s].code
  BY <1>1, KillShellShape DEF Types, TimeOut
<1>4. Types' /\ Others(s) /\ docker' = docker
  BY <1>1, <1>2, <1>3 DEF Types, After, Ran, Others, world
<1>5. Placed(s)'
  BY <1>1, <1>2, <1>3 DEF Types, Good, Placed, Reporting, At, After, Ran, Command, world
<1>6. Left(s)'
  BY <1>1, <1>2, <1>3 DEF Types, Good, Placed, Left, At, After, Ran, Command, world
<1>7. Reporting(s)'
  BY <1>1, <1>2, <1>3 DEF Types, Good, Placed, Reporting, At, After, Ran, Command,
    world, TimeoutCode, Error, NoCode, Killed
<1>8. Hosting(s)'
  BY <1>1, <1>2, <1>3 DEF Types, Good, Hosting, At, After, Backend, world
<1> QED BY <1>4, <1>5, <1>6, <1>7, <1>8 DEF Keeps, Good

LEMMA PrintKeeps ==
  ASSUME IInv, NEW s \in Setups, ShowReport(s)
  PROVE  Keeps(s)
<1>1. Types /\ Good(s) /\ At(s, "print") /\ UNCHANGED <<command, container, world>>
     /\ gateway' = [gateway EXCEPT ![s] = "none"]
  BY DEF IInv, ShowReport
<1>2. After(s, "ended", run[s].host, run[s].shown, run[s].exit,
            run[s].backend, run[s].mishaps)
  BY <1>1, GotoShape DEF Types, Pcs, ShowReport
<1>3. Types' /\ Others(s) /\ docker' = docker
  BY <1>1, <1>2 DEF Types, After, Ran, Others, world
<1>4. Placed(s)'
  BY <1>1, <1>2 DEF Types, Good, Placed, Reporting, At, After, Ran, Command, world
<1>5. Left(s)'
  BY <1>1, <1>2 DEF Types, Good, Placed, Left, At, After, Ran, Command, world
<1>6. Reporting(s)'
  BY <1>1, <1>2 DEF Types, Good, Placed, Reporting, At, After, Ran, Command,
    world, TimeoutCode, Error, NoCode, Killed
<1>7. Hosting(s)'
  BY <1>1, <1>2 DEF Types, Good, Hosting, At, After, Backend, world
<1> QED BY <1>3, <1>4, <1>5, <1>6, <1>7 DEF Keeps, Good

LEMMA SignalKeeps ==
  ASSUME IInv, NEW s \in Setups, Signal(s)
  PROVE  Keeps(s)
<1>1. /\ Types /\ Good(s) /\ signals < MaxSignals /\ signals' = signals + 1
      /\ UNCHANGED <<docker, flips, container>> /\ MaxSignals \in Nat
  BY SetupsOK DEF IInv, Signal, Interrupt, Die
<1>2. CASE /\ run[s].pc \in {"wait", "logs"} /\ Report(s, NoCode, "none", "remove")
           /\ UNCHANGED <<command, gateway>>
  <2>1. After(s, "remove", run[s].host, run[s].shown, NoCode,
              "none", run[s].mishaps)
    BY <1>1, <1>2, ReportShape DEF Types, Pcs, Exits, Backends
  <2>2. Types' /\ Others(s) /\ docker' = docker
    BY <1>1, <1>2, <2>1 DEF Types, After, Ran, Others, world
  <2>3. Placed(s)'
    BY <1>1, <1>2, <2>1 DEF Types, Good, Placed, Reporting, At, After, Ran, Command, world
  <2>4. Left(s)'
    BY <1>1, <1>2, <2>1 DEF Types, Good, Placed, Left, At, After, Ran, Command, world
  <2>5. Reporting(s)'
    BY <1>1, <1>2, <2>1 DEF Types, Good, Placed, Reporting, At, After, Ran, Command,
      world, TimeoutCode, Error, NoCode, Killed
  <2>6. Hosting(s)'
    BY <1>1, <1>2, <2>1 DEF Types, Good, Hosting, At, After, Backend, world
  <2> QED BY <2>2, <2>3, <2>4, <2>5, <2>6 DEF Keeps, Good
<1>3. CASE /\ run[s].pc \notin {"idle", "ended"}
           /\ ReportMishap(s, NoCode, "none", "signal", "ended")
           /\ gateway' = [gateway EXCEPT ![s] = "none"]
           /\ \/ At(s, "collect") /\ KillShell(s)
              \/ UNCHANGED command
  <2>1. After(s, "ended", run[s].host, run[s].shown, NoCode,
              "none", run[s].mishaps \cup {"signal"})
    BY <1>1, <1>3, ReportMishapShape DEF Types, Pcs, Exits, Backends, Mishaps
  <2>2. \/ UNCHANGED command
        \/ At(s, "collect") /\ \E phase \in Phases, code \in Codes :
             /\ Ran(s, phase, code)
             /\ IF command[s].phase = "running"
                THEN phase \in {"background", "detached", "gone"}
                ELSE phase = command[s].phase /\ code = command[s].code
    BY <1>1, <1>3, KillShellShape DEF Types
  <2>3. /\ command' \in [Setups -> Command]
        /\ \A t \in Setups \ {s} : command'[t] = command[t]
    BY <1>1, <2>2 DEF Types, Ran
  <2>4. /\ gateway' \in [Setups -> {"none", "starting", "serving"}]
        /\ \A t \in Setups \ {s} : gateway'[t] = gateway[t]
    BY <1>1, <1>3 DEF Types
  <2>5. Types'
    BY <1>1, <2>1, <2>3, <2>4 DEF Types, After
  <2>6. Others(s)
    BY <1>1, <2>1, <2>3, <2>4 DEF Others, After
  <2>7. Types' /\ Others(s) /\ docker' = docker
    BY <1>1, <2>5, <2>6
  <2>8. Placed(s)'
    BY <1>1, <1>3, <2>1, <2>2 DEF Types, Good, Placed, Reporting, At, After, Ran, Command, world
  <2>9. Left(s)'
    BY <1>1, <1>3, <2>1, <2>2 DEF Types, Good, Placed, Left, At, After, Ran, Command, world
  <2>10. Reporting(s)'
    BY <1>1, <1>3, <2>1, <2>2 DEF Types, Good, Placed, Reporting, At, After, Ran, Command,
      world, TimeoutCode, Error, NoCode, Killed
  <2>11. Hosting(s)'
    BY <1>1, <1>3, <2>1, <2>2 DEF Types, Good, Hosting, At, After, Backend, world
  <2> QED BY <2>7, <2>8, <2>9, <2>10, <2>11 DEF Keeps, Good
<1> QED BY <1>2, <1>3 DEF Signal, Interrupt, Die

LEMMA ExitKeeps ==
  ASSUME IInv, NEW s \in Setups, Exit(s)
  PROVE  Keeps(s)
<1>1. Types /\ Good(s) /\ command[s].phase = "running" /\ UNCHANGED <<run, container, gateway, world>>
  BY DEF IInv, Exit
<1>2. \E code \in {0, 1}, phase \in {"gone", "background", "detached"} :
        (container[s] # "none" => phase = "gone") /\ Ran(s, phase, code)
  BY <1>1, RanShape DEF Types, Exit, Phases, Codes
<1>3. Types' /\ Others(s) /\ docker' = docker
  BY <1>1, <1>2 DEF Types, After, Ran, Others, world
<1>4. Placed(s)'
  BY <1>1, <1>2 DEF Types, Good, Placed, Reporting, At, After, Ran, Command, world
<1>5. Left(s)'
  BY <1>1, <1>2 DEF Types, Good, Placed, Left, At, After, Ran, Command, world
<1>6. Reporting(s)'
  BY <1>1, <1>2 DEF Types, Good, Placed, Reporting, At, After, Ran, Command,
    world, TimeoutCode, Error, NoCode, Killed
<1>7. Hosting(s)'
  BY <1>1, <1>2 DEF Types, Good, Hosting, At, After, Backend, world
<1> QED BY <1>3, <1>4, <1>5, <1>6, <1>7 DEF Keeps, Good

LEMMA RestDetachesKeeps ==
  ASSUME IInv, NEW s \in Setups, RestDetaches(s)
  PROVE  Keeps(s)
<1>1. Types /\ Good(s) /\ command[s].phase = "background" /\ UNCHANGED <<run, container, gateway, world>>
  BY DEF IInv, RestDetaches
<1>2. Ran(s, "detached", command[s].code)
  BY <1>1, PhaseShape DEF Types, RestDetaches, Phases
<1>3. Types' /\ Others(s) /\ docker' = docker
  BY <1>1, <1>2 DEF Types, After, Ran, Others, world
<1>4. Placed(s)'
  BY <1>1, <1>2 DEF Types, Good, Placed, Reporting, At, After, Ran, Command, world
<1>5. Left(s)'
  BY <1>1, <1>2 DEF Types, Good, Placed, Left, At, After, Ran, Command, world
<1>6. Reporting(s)'
  BY <1>1, <1>2 DEF Types, Good, Placed, Reporting, At, After, Ran, Command,
    world, TimeoutCode, Error, NoCode, Killed
<1>7. Hosting(s)'
  BY <1>1, <1>2 DEF Types, Good, Hosting, At, After, Backend, world
<1> QED BY <1>3, <1>4, <1>5, <1>6, <1>7 DEF Keeps, Good

LEMMA RestExitsKeeps ==
  ASSUME IInv, NEW s \in Setups, RestExits(s)
  PROVE  Keeps(s)
<1>1. Types /\ Good(s) /\ command[s].phase \in {"background", "detached"}
      /\ UNCHANGED <<run, container, gateway, world>>
  BY DEF IInv, RestExits
<1>2. Ran(s, "gone", command[s].code)
  BY <1>1, PhaseShape DEF Types, RestExits, Phases
<1>3. Types' /\ Others(s) /\ docker' = docker
  BY <1>1, <1>2 DEF Types, After, Ran, Others, world
<1>4. Placed(s)'
  BY <1>1, <1>2 DEF Types, Good, Placed, Reporting, At, After, Ran, Command, world
<1>5. Left(s)'
  BY <1>1, <1>2 DEF Types, Good, Placed, Left, At, After, Ran, Command, world
<1>6. Reporting(s)'
  BY <1>1, <1>2 DEF Types, Good, Placed, Reporting, At, After, Ran, Command,
    world, TimeoutCode, Error, NoCode, Killed
<1>7. Hosting(s)'
  BY <1>1, <1>2 DEF Types, Good, Hosting, At, After, Backend, world
<1> QED BY <1>3, <1>4, <1>5, <1>6, <1>7 DEF Keeps, Good

\* The daemon comes or goes, and everybody who is asking for it takes note.
LEMMA FlipKeeps ==
  ASSUME IInv, Flip
  PROVE  IInv'
<1>1. /\ Types /\ UNCHANGED <<command, container, gateway, signals>>
      /\ flips < MaxFlips /\ flips' = flips + 1 /\ docker' = ~docker /\ MaxFlips \in Nat
  BY SetupsOK DEF IInv, Flip
<1>2. ASSUME NEW s \in Setups
      PROVE  /\ run'[s] \in Setup /\ run'[s].pc = run[s].pc
             /\ run'[s].host = run[s].host /\ run'[s].shown = run[s].shown
             /\ run'[s].exit = run[s].exit /\ run'[s].backend = run[s].backend
             /\ run[s].mishaps \subseteq run'[s].mishaps
             /\ run[s].pc \in {"host", "summary", "serve", "check"} =>
                  "flip" \in run'[s].mishaps
  <2>1. run[s] \in Setup
    BY <1>1 DEF Types
  <2>2. CASE run[s].pc \in {"host", "summary", "serve", "check"}
    <3>1. run'[s] = [run[s] EXCEPT !.mishaps = @ \cup {"flip"}]
      BY <2>2, Zenon DEF Flip
    <3>2. run'[s] = [pc |-> run[s].pc, host |-> run[s].host, shown |-> run[s].shown,
                     exit |-> run[s].exit, backend |-> run[s].backend,
                     mishaps |-> run[s].mishaps \cup {"flip"}]
      BY <2>1, <3>1, Fields
    <3>3. run[s].mishaps \cup {"flip"} \in SUBSET Mishaps
      BY <2>1, Fields DEF Mishaps
    <3>4. run'[s] \in Setup
      BY <2>1, <3>2, <3>3, ASetup, Fields
    <3> QED BY <3>2, <3>4
  <2>3. CASE run[s].pc \notin {"host", "summary", "serve", "check"}
    BY <2>1, <2>3 DEF Flip
  <2> QED BY <2>2, <2>3
<1>3. run' \in [Setups -> Setup]
  BY <1>2 DEF Flip
<1>4. Types'
  BY <1>1, <1>3 DEF Types
<1>5. ASSUME NEW s \in Setups
      PROVE  Good(s)'
  <2>1. Good(s)
    BY DEF IInv
  <2>2. Placed(s)' /\ Left(s)' /\ Reporting(s)'
    BY <1>1, <1>2, <2>1 DEF Good, Placed, Left, Reporting, At
  <2>3. Hosting(s)'
    BY <1>1, <1>2, <2>1 DEF Good, Hosting
  <2> QED BY <2>2, <2>3 DEF Good
<1> QED BY <1>4, <1>5 DEF IInv

-------------------------------------------------------------------------------
(* The theorems.                                                           *)

LEMMA InitGood ==
  ASSUME Init
  PROVE  IInv
<1>1. Types
  BY SetupsOK DEF Init, Types, Setup, Pcs, Command, NoCode
<1>2. ASSUME NEW s \in Setups
      PROVE  Good(s)
  BY DEF Init, Good, Placed, Left, Reporting, Hosting, At, NoCode
<1> QED BY <1>1, <1>2 DEF IInv

\* The setups a step is not of stay as they are.
LEMMA Kept ==
  ASSUME IInv, NEW s \in Setups, Keeps(s)
  PROVE  IInv'
<1>1. Types' /\ Good(s)' /\ Others(s) /\ docker' = docker
  BY DEF Keeps
<1>2. ASSUME NEW t \in Setups \ {s}
      PROVE  Good(t)'
  <2>1. Good(t)
    BY DEF IInv
  <2> QED BY <1>1, <2>1 DEF Others, Good, Placed, Left, Reporting, Hosting, At
<1> QED BY <1>1, <1>2 DEF IInv

LEMMA Step ==
  ASSUME IInv, [Next]_vars
  PROVE  IInv'
<1>1. ASSUME NEW s \in Setups, Prepare(s)
      PROVE  Keeps(s)
  BY <1>1, ChooseHostKeeps, SummarizeKeeps, ServeMockKeeps DEF Prepare
<1>2. ASSUME NEW s \in Setups, InDocker(s)
      PROVE  Keeps(s)
  BY <1>2, CreateKeeps, StartKeeps, WaitKeeps, LogsKeeps, RemoveKeeps DEF InDocker
<1>3. ASSUME NEW s \in Setups, OnHost(s)
      PROVE  Keeps(s)
  BY <1>3, SpawnKeeps, CollectKeeps, TimeOutKeeps DEF OnHost
<1>4. ASSUME NEW s \in Setups, SetupStep(s)
      PROVE  Keeps(s)
  BY <1>1, <1>2, <1>3, <1>4, CheckKeeps, PrintKeeps DEF SetupStep
<1>5. ASSUME NEW s \in Setups,
             \/ Begin(s) \/ SetupStep(s) \/ Signal(s)
             \/ Listen(s) \/ ListenFails(s) \/ Exit(s) \/ RestDetaches(s) \/ RestExits(s)
      PROVE  IInv'
  BY <1>4, <1>5, BeginKeeps, SignalKeeps, ListenKeeps, ListenFailsKeeps, ExitKeeps,
     RestDetachesKeeps, RestExitsKeeps, Kept
<1>6. CASE UNCHANGED vars
  BY <1>6 DEF vars, world, IInv, Types, Good, Placed, Left, Reporting, Hosting, At
<1> QED BY <1>5, <1>6, FlipKeeps DEF Next

LEMMA Invariant == Spec => []IInv
BY InitGood, Step, PTL DEF Spec

\* A setup, its command and its container are where its program counter says: a
\* command is run in a container or on the host, never in both (run_command).
THEOREM TypeCorrect == Spec => []TypeOK
<1>1. IInv => TypeOK
  BY DEF IInv, Types, Good, TypeOK
<1> QED BY <1>1, Invariant, PTL

\* What is left behind by a setup that has ended has a reason: the container did
\* not start or would not be removed, the command timed out, a signal came, or what
\* is left has nothing of the command's output in its hands.
THEOREM LeftoversExplained == Spec => []LeftForAReason
<1>1. IInv => LeftForAReason
  BY DEF IInv, Good, Left, LeftForAReason, At
<1> QED BY <1>1, Invariant, PTL

\* A success, or a failure of the tests, that is reported is the command's own, and
\* no process that could still write to the reported output is left.
THEOREM ReportIsTrue == Spec => []ReportTrue
<1>1. IInv => ReportTrue
  BY DEF IInv, Good, Reporting, ReportTrue
<1> QED BY <1>1, Invariant, PTL

\* With docker there all along, or away all along, the three answers of
\* docker_available() agree.
THEOREM HostIsRight == Spec => []HostFits
<1>1. IInv => HostFits
  BY DEF IInv, Good, Hosting, HostFits
<1> QED BY <1>1, Invariant, PTL
===============================================================================
