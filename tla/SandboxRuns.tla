------------------------------ MODULE SandboxRuns ------------------------------
(***************************************************************************)
(* `efsm setup` (cli.py): the EphemeralOrchestrator (orchestrator.py) asks *)
(* twice whether docker is there while it prepares the environment, starts *)
(* the mock server in a thread, and has a DockerSandbox (sandbox.py) run   *)
(* the test command, which asks once more: in a container, or in a shell   *)
(* on the host.  Several setups share the docker daemon and one port.      *)
(*                                                                         *)
(* A step is a call out of the program (the daemon, the operating system,  *)
(* the terminal) and what is done up to the next.  Nothing is assumed of   *)
(* the command, which may run for ever and leave processes behind, with or *)
(* without its output, nor of the daemon, which may fail any call and be   *)
(* gone at any time.  There is no clock: a timeout may come at any moment. *)
(***************************************************************************)
EXTENDS Integers

CONSTANTS
  Setups,     \* runs of `efsm setup`, or of programs that do as it does
  Strict,     \* those of them whose sandbox has allow_fallback=False
  MaxFlips,   \* bound on how often docker comes or goes
  MaxSignals  \* bound on the number of setups interrupted or killed

ASSUME SetupsOK ==
  /\ Strict \subseteq Setups
  /\ MaxFlips \in Nat
  /\ MaxSignals \in Nat

VARIABLES
  run,        \* the setups
  command,    \* per setup, its test command
  container,  \* per setup, its container
  gateway,    \* per setup, the thread of its mock server
  docker,     \* whether the daemon answers
  flips,      \* how often that has changed
  signals     \* the number of setups interrupted or killed

world == <<docker, flips, signals>>
vars  == <<run, command, container, gateway, world>>

TimeoutCode == 124   \* _TIMEOUT_EXIT_CODE
Error       == -1    \* _ORCHESTRATOR_ERROR_EXIT
Killed      == 137
NoCode      == -2

Pcs == {"idle", "host", "summary", "serve", "check", "create", "start", "wait",
        "logs", "remove", "spawn", "collect", "print", "ended"}

Setup == [pc      : Pcs,
          host    : {"none", "docker", "subprocess"},   \* what the base URLs are for
          shown   : {"none", "docker", "subprocess"},   \* the sandbox_backend shown
          exit    : {0, 1, TimeoutCode, Error, NoCode}, \* the report: its exit_code
          backend : {"none", "docker", "subprocess"},   \*             and its backend
          mishaps : SUBSET {"flip", "start", "remove", "timeout", "signal"}]  \* history

\* The shell has exited and a process it started has not: "background" as long as
\* one of them holds the output open, "detached" once none does (`server
\* >/dev/null 2>&1 &`, or a daemon that has closed its files).
Command == [phase : {"none", "running", "background", "detached", "gone"},
            code  : {0, 1, Killed, NoCode}]

Init ==
  /\ run = [s \in Setups |-> [pc |-> "idle", host |-> "none", shown |-> "none",
                              exit |-> NoCode, backend |-> "none", mishaps |-> {}]]
  /\ command = [s \in Setups |-> [phase |-> "none", code |-> NoCode]]
  /\ container = [s \in Setups |-> "none"]
  /\ gateway = [s \in Setups |-> "none"]
  /\ docker \in BOOLEAN
  /\ flips = 0
  /\ signals = 0

At(s, pc)      == run[s].pc = pc
Set(s, r)      == run' = [run EXCEPT ![s] = r]
Goto(s, pc)    == Set(s, [run[s] EXCEPT !.pc = pc])
Mishap(s, m, pc) == Set(s, [run[s] EXCEPT !.pc = pc, !.mishaps = @ \cup {m}])

Report(s, exit, backend, pc) ==
  Set(s, [run[s] EXCEPT !.exit = exit, !.backend = backend, !.pc = pc])

ReportMishap(s, exit, backend, m, pc) ==
  Set(s, [run[s] EXCEPT !.exit = exit, !.backend = backend, !.pc = pc,
                        !.mishaps = @ \cup {m}])

\* run_tests() makes a report of whatever is raised.
Failed(s, pc)  == Report(s, Error, "none", pc)

-------------------------------------------------------------------------------
(* configure_from_task() and the mock server.                              *)

Begin(s) ==
  /\ At(s, "idle")
  /\ Goto(s, "host")
  /\ UNCHANGED <<command, container, gateway, world>>

Backend(available) == IF available THEN "docker" ELSE "subprocess"

\* Mutant: the host is taken from whether the docker package can be imported.
HostByPackage(s) ==
  /\ At(s, "host")
  /\ Set(s, [run[s] EXCEPT !.host = "docker", !.pc = "summary"])
  /\ UNCHANGED <<command, container, gateway, world>>

\* host = "host.docker.internal" if docker_available() else "127.0.0.1"
ChooseHost(s) ==
  /\ At(s, "host")
  /\ Set(s, [run[s] EXCEPT !.host = Backend(docker), !.pc = "summary"])
  /\ UNCHANGED <<command, container, gateway, world>>

\* sandbox_backend="docker" if docker_available() else "subprocess"
Summarize(s) ==
  /\ At(s, "summary")
  /\ Set(s, [run[s] EXCEPT !.shown = Backend(docker), !.pc = "serve"])
  /\ UNCHANGED <<command, container, gateway, world>>

\* With --serve-mock and an API, MockServer.run in a daemon thread.
ServeMock(s) ==
  /\ At(s, "serve")
  /\ \E life \in {"none", "starting"} : gateway' = [gateway EXCEPT ![s] = life]
  /\ Goto(s, "check")
  /\ UNCHANGED <<command, container, world>>

\* uvicorn in that thread binds the port, always the same ...
Listen(s) ==
  /\ gateway[s] = "starting"
  /\ \A t \in Setups : gateway[t] # "serving"
  /\ gateway' = [gateway EXCEPT ![s] = "serving"]
  /\ UNCHANGED <<run, command, container, world>>

\* ... or exits, for which nobody looks: the port is taken, FastAPI is missing.
ListenFails(s) ==
  /\ gateway[s] = "starting"
  /\ gateway' = [gateway EXCEPT ![s] = "none"]
  /\ UNCHANGED <<run, command, container, world>>

-------------------------------------------------------------------------------
(* run_command()                                                           *)

Check(s) ==
  /\ At(s, "check")
  /\ \/ docker /\ Goto(s, "create")
     \/ ~docker /\ s \notin Strict /\ Goto(s, "spawn")
     \/ ~docker /\ s \in Strict /\ Failed(s, "print")
  /\ UNCHANGED <<command, container, gateway, world>>

\* containers.run(detach=True) is two calls of the daemon, outside the try: a
\* container that was created and does not start stays.
Create(s) ==
  /\ At(s, "create")
  /\ \/ /\ docker
        /\ container' = [container EXCEPT ![s] = "created"]
        /\ Goto(s, "start")
     \/ Failed(s, "print") /\ UNCHANGED container
  /\ UNCHANGED <<command, gateway, world>>

\* Mutant: what does not start in a container is run on the host.
StartOrFallBack(s) ==
  /\ At(s, "start")
  /\ Goto(s, "spawn")
  /\ UNCHANGED <<command, container, gateway, world>>

Start(s) ==
  /\ At(s, "start")
  /\ \/ /\ docker
        /\ container' = [container EXCEPT ![s] = "started"]
        /\ command' = [command EXCEPT ![s].phase = "running"]
        /\ Goto(s, "wait")
     \/ /\ ReportMishap(s, Error, "none", "start", "print")
        /\ UNCHANGED <<command, container>>
  /\ UNCHANGED <<gateway, world>>

\* container.wait(timeout): the exit code, -1 for a reply that has none, or a
\* timeout or another error, which are raised.
Wait(s) ==
  /\ At(s, "wait")
  /\ \/ /\ docker /\ command[s].phase = "gone"
        /\ \E exit \in {command[s].code, Error} :
             Report(s, exit, "docker", "logs")
     \/ Failed(s, "remove")
  /\ UNCHANGED <<command, container, gateway, world>>

Logs(s) ==
  /\ At(s, "logs")
  /\ \/ docker /\ Goto(s, "remove")
     \/ Failed(s, "remove")
  /\ UNCHANGED <<command, container, gateway, world>>

Kill(s) == IF command[s].phase = "running"
           THEN [phase |-> "gone", code |-> Killed] ELSE command[s]

\* Mutant: force=True is left out, a running container refuses to be removed.
RemoveUnforced(s) ==
  /\ At(s, "remove")
  /\ container' = [container EXCEPT ![s] =
                     IF docker /\ command[s].phase = "gone" THEN "none" ELSE @]
  /\ Goto(s, "print")
  /\ UNCHANGED <<command, gateway, world>>

\* finally: container.remove(force=True), whose errors are swallowed.
Remove(s) ==
  /\ At(s, "remove")
  /\ \/ /\ docker
        /\ container' = [container EXCEPT ![s] = "none"]
        /\ command' = [command EXCEPT ![s] = Kill(s)]
        /\ Goto(s, "print")
     \/ Mishap(s, "remove", "print") /\ UNCHANGED <<command, container>>
  /\ UNCHANGED <<gateway, world>>

-------------------------------------------------------------------------------
(* _run_subprocess()                                                       *)

Spawn(s) ==
  /\ At(s, "spawn")
  /\ \/ command' = [command EXCEPT ![s].phase = "running"] /\ Goto(s, "collect")
     \/ Failed(s, "print") /\ UNCHANGED command
  /\ UNCHANGED <<container, gateway, world>>

\* Mutant: what the command has written is reported when the shell has exited,
\* to its end or not.
CollectEarly(s) ==
  /\ At(s, "collect")
  /\ command[s].phase \in {"background", "detached", "gone"}
  /\ \/ Report(s, command[s].code, "subprocess", "print")
     \/ Failed(s, "print")
  /\ UNCHANGED <<command, container, gateway, world>>

\* subprocess.run: the output has come to its end, which it does not while a
\* process is left that holds it open, and the shell has exited; text=True raises
\* on what is not UTF-8.
Collect(s) ==
  /\ At(s, "collect")
  /\ command[s].phase \in {"detached", "gone"}
  /\ \/ Report(s, command[s].code, "subprocess", "print")
     \/ Failed(s, "print")
  /\ UNCHANGED <<command, container, gateway, world>>

\* The shell is killed, not what it has started.
KillShell(s) ==
  \E left \in {"background", "detached", "gone"} :
    command' = [command EXCEPT ![s] =
                  IF @.phase = "running" THEN [phase |-> left, code |-> Killed] ELSE @]

\* Mutant: after the kill, the rest of the output is waited for.
TimeOutAndDrain(s) ==
  /\ At(s, "collect")
  /\ IF command[s].phase = "running" THEN KillShell(s) /\ UNCHANGED run
     ELSE /\ command[s].phase \in {"detached", "gone"}
          /\ Report(s, TimeoutCode, "subprocess", "print")
          /\ UNCHANGED command
  /\ UNCHANGED <<container, gateway, world>>

TimeOut(s) ==
  /\ At(s, "collect")
  /\ KillShell(s)
  /\ ReportMishap(s, TimeoutCode, "subprocess", "timeout", "print")
  /\ UNCHANGED <<container, gateway, world>>

-------------------------------------------------------------------------------

\* The report is printed and the process exits, with its daemon thread.
ShowReport(s) ==
  /\ At(s, "print")
  /\ Goto(s, "ended")
  /\ gateway' = [gateway EXCEPT ![s] = "none"]
  /\ UNCHANGED <<command, container, world>>

\* Ctrl-C: a KeyboardInterrupt, which no `except Exception` stops; the finally
\* clause is run, and subprocess.run kills the shell.
Interrupt(s) ==
  /\ run[s].pc \notin {"idle", "ended"}
  /\ IF run[s].pc \in {"wait", "logs"}
     THEN /\ Report(s, NoCode, "none", "remove")
          /\ UNCHANGED <<command, gateway>>
     ELSE /\ ReportMishap(s, NoCode, "none", "signal", "ended")
          /\ gateway' = [gateway EXCEPT ![s] = "none"]
          /\ IF At(s, "collect") THEN KillShell(s) ELSE UNCHANGED command
  /\ UNCHANGED container

\* kill -9: the command goes on.
Die(s) ==
  /\ run[s].pc \notin {"idle", "ended"}
  /\ ReportMishap(s, NoCode, "none", "signal", "ended")
  /\ gateway' = [gateway EXCEPT ![s] = "none"]
  /\ UNCHANGED <<command, container>>

Signal(s) ==
  /\ signals < MaxSignals
  /\ signals' = signals + 1
  /\ Interrupt(s) \/ Die(s)
  /\ UNCHANGED <<docker, flips>>

-------------------------------------------------------------------------------
(* The command and the daemon.                                             *)

\* The command exits; in a container what it has started goes with it.
Exit(s) ==
  /\ command[s].phase = "running"
  /\ \E code \in {0, 1}, phase \in {"gone", "background", "detached"} :
       /\ container[s] # "none" => phase = "gone"
       /\ command' = [command EXCEPT ![s] = [phase |-> phase, code |-> code]]
  /\ UNCHANGED <<run, container, gateway, world>>

\* What it has left running closes its output ...
RestDetaches(s) ==
  /\ command[s].phase = "background"
  /\ command' = [command EXCEPT ![s].phase = "detached"]
  /\ UNCHANGED <<run, container, gateway, world>>

\* ... or exits, sooner or later or never.
RestExits(s) ==
  /\ command[s].phase \in {"background", "detached"}
  /\ command' = [command EXCEPT ![s].phase = "gone"]
  /\ UNCHANGED <<run, container, gateway, world>>

\* The daemon comes or goes.
Flip ==
  /\ flips < MaxFlips
  /\ flips' = flips + 1
  /\ docker' = ~docker
  /\ run' = [s \in Setups |->
               IF run[s].pc \in {"host", "summary", "serve", "check"}
               THEN [run[s] EXCEPT !.mishaps = @ \cup {"flip"}] ELSE run[s]]
  /\ UNCHANGED <<command, container, gateway, signals>>

-------------------------------------------------------------------------------

Prepare(s) == ChooseHost(s) \/ Summarize(s) \/ ServeMock(s)
InDocker(s) == Create(s) \/ Start(s) \/ Wait(s) \/ Logs(s) \/ Remove(s)
OnHost(s)  == Spawn(s) \/ Collect(s) \/ TimeOut(s)

SetupStep(s) == Prepare(s) \/ Check(s) \/ InDocker(s) \/ OnHost(s) \/ ShowReport(s)

Next == \/ \E s \in Setups :
             \/ Begin(s) \/ SetupStep(s) \/ Signal(s)
             \/ Listen(s) \/ ListenFails(s)
             \/ Exit(s) \/ RestDetaches(s) \/ RestExits(s)
        \/ Flip

Spec == Init /\ [][Next]_vars

\* The operating system runs the setups, and the timeouts of subprocess and of
\* the docker client come.  Nothing is assumed of commands, of the daemon, or of
\* the thread of the mock server.
FairSpec == Spec /\ \A s \in Setups : WF_vars(SetupStep(s))

-------------------------------------------------------------------------------
(* Properties.                                                             *)

\* What the setups, their commands, containers and threads can be; a command is
\* run in one place, and is there while the setup waits for it.
Placed(s) ==
  /\ run[s].pc \in {"idle", "host", "summary", "serve", "check", "create", "spawn"} =>
       container[s] = "none" /\ command[s].phase = "none"
  /\ At(s, "start") => container[s] = "created"
  /\ run[s].pc \in {"wait", "logs", "remove"} => container[s] = "started"
  /\ At(s, "collect") => container[s] = "none" /\ command[s].phase # "none"
  /\ container[s] = "created" => command[s].phase = "none"
  /\ container[s] = "started" => command[s].phase \in {"running", "gone"}

TypeOK ==
  /\ run \in [Setups -> Setup]
  /\ command \in [Setups -> Command]
  /\ container \in [Setups -> {"none", "created", "started"}]
  /\ gateway \in [Setups -> {"none", "starting", "serving"}]
  /\ docker \in BOOLEAN
  /\ flips \in 0..MaxFlips
  /\ signals \in 0..MaxSignals
  /\ \A s \in Setups : Placed(s)

\* What a setup that has ended leaves behind has a reason.  No thread is on the
\* port; a container is there only if it did not start, could not be removed, or a
\* signal cut the cleaning up short; a process on the host only if the command
\* timed out, a signal came, or the process has let go of the command's output,
\* and run_command() returned without it.
LeftForAReason ==
  \A s \in Setups : At(s, "ended") =>
    /\ gateway[s] = "none"
    /\ container[s] # "none" => run[s].mishaps \cap {"start", "remove", "signal"} # {}
    /\ container[s] = "none" /\ command[s].phase \in {"running", "background"} =>
         run[s].mishaps \cap {"timeout", "signal"} # {}

\* An exit code that is reported, other than the two the program makes up itself,
\* is what the command exited with, success above all, and the output reported
\* with it is all there is: nothing is left that could write to it, and in a
\* container nothing is left at all.
ReportTrue ==
  \A s \in Setups : run[s].exit \in {0, 1} =>
    /\ command[s].code = run[s].exit
    /\ command[s].phase \in {"detached", "gone"}
    /\ run[s].backend = "docker" => command[s].phase = "gone"

\* The URLs the tests are given, and the backend that is announced, are for where
\* the tests are run, unless docker came or went while the setup was asking.
HostFits ==
  \A s \in Setups : run[s].backend # "none" /\ "flip" \notin run[s].mishaps =>
    run[s].host = run[s].backend /\ run[s].shown = run[s].backend

\* A setup ends, whatever its command does and whoever holds its output open.
SetupEnds == \A s \in Setups : run[s].pc # "idle" ~> At(s, "ended")
===============================================================================
