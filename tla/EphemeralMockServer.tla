-------------------------- MODULE EphemeralMockServer --------------------------
(***************************************************************************)
(* The lifecycle of EphemeralMockServer (src/sin_code_efsm/server.py): the *)
(* main thread runs start(), stop() and reset(); SIGINT and SIGTERM, once  *)
(* their handlers are installed, interrupt whatever the main thread is     *)
(* doing and run stop() again on top of it; each start() hands the bound   *)
(* socket to a uvicorn thread of its own, which the main thread can only   *)
(* ask to exit.                                                            *)
(*                                                                         *)
(* The main thread is a stack of call frames.  The top frame runs, one     *)
(* step per stretch of code between two points where CPython may deliver a *)
(* signal: after a call, or a jump back in a loop, but not after entering  *)
(* a `with` (the interpreters the project runs on, 3.11 to 3.13,           *)
(* .github/workflows/ci.yml:14).  A signal pushes a frame for the handler. *)
(* An exception unwinds the stack to the enclosing `except Exception`, if  *)
(* there is one, else to the caller.                                       *)
(*                                                                         *)
(* Names: server, thread, sock, port, mapped, records and lock stand for   *)
(* _server, _thread, _sock, _actual_port, the keys of _service_map, the    *)
(* status of each StateManager record, and StateManager._lock.  _app and   *)
(* the port and error fields of a record are written and never read here.  *)
(***************************************************************************)
EXTENDS Integers, Sequences, FiniteSets

CONSTANTS
  Services,     \* the service names a caller may list
  Known,        \* those _create_service recognizes
  Configs,      \* the lists a server may be constructed with
  Traffic,      \* bound: the services that are sent data
  PollCount,    \* _STARTUP_POLL_COUNT
  MaxStarts,    \* bound on the number of start() calls that bind a socket
  MaxSignals,   \* bound on the number of signals delivered
  SpawnFails    \* whether Thread.start() may fail ("can't start new thread")

ASSUME ConstantsOK ==
  /\ Known \subseteq Services
  /\ Configs \subseteq SUBSET Services
  /\ Traffic \subseteq Services
  /\ "none" \notin Services
  /\ PollCount \in Nat \ {0}
  /\ MaxStarts \in Nat
  /\ MaxSignals \in Nat
  /\ SpawnFails \in BOOLEAN

VARIABLES
  server,    \* the start whose uvicorn.Server is _server, or NoGen
  thread,    \* the start whose Thread is _thread, or NoGen
  sock,      \* the start whose socket is _sock, or NoGen
  port,      \* _actual_port
  mapped,    \* the keys of _service_map
  running,   \* _running of the instance mapped under a name
  bound,     \* _port of that instance
  data,      \* the data of that instance: "none", or, by when the latest of it
             \* came in, "old" (before the last call of reset()) or "new"
  records,   \* StateManager: the status of a record, or "absent"
  lock,      \* the depth of the frame inside `with StateManager._lock`, or 0
  uv,        \* per start: its uvicorn server and thread
  socks,     \* per start: the port its listening socket holds, or "closed"
  gen,       \* the number of starts that bound a socket
  stack,     \* the call frames of the main thread
  config,    \* _services_cfg, None and the empty list standing for the defaults
  handlers,  \* whether the signal handlers are installed
  signals,   \* the number of signals delivered
  last       \* the last call that left the main thread, and how

object   == <<server, thread, sock, port>>
services == <<mapped, running, bound, data>>
state    == <<records, lock>>
gateway  == <<uv, socks, gen>>
process  == <<config, handlers, signals>>
control  == <<process, stack, last>>
vars     == <<object, services, state, gateway, control>>

NoGen == 0
NoSvc == "none"
Gens  == 1..MaxStarts
Ports == {"preferred", "other"}

Ops == {"start", "stop", "reset", "signal"}
StartPcs == {"bind", "register", "registering", "server", "thread", "spawn",
             "poll", "install", "warm", "warm_next", "warm_start",
             "warm_status"}
StopPcs  == {"check", "down", "down_next", "down_status", "exit", "join",
             "sock", "close", "closed", "drop", "dropping"}
ResetPcs == {"reset", "reset_next"}

\* The steps whose next move is to take StateManager._lock.
LockPcs  == {"register", "warm_status", "down_status", "drop"}

Frame == [op     : Ops,
          pc     : StartPcs \cup StopPcs \cup ResetPcs,
          todo   : SUBSET Services,       \* still to visit in the running loop
          view   : SUBSET Services,       \* the keys when the loop began
          cur    : Services \cup {NoSvc}, \* the loop variable
          polls  : 0..PollCount,          \* polls of `started` made
          target : 0..MaxStarts]          \* the start whose thread is joined, or
                                          \* whose socket is closed

NewFrame(op, pc) == [op |-> op, pc |-> pc, todo |-> {}, view |-> {},
                     cur |-> NoSvc, polls |-> 0, target |-> NoGen]

NoServer == [phase |-> "none", started |-> FALSE, exit |-> FALSE]

Init ==
  /\ server = NoGen /\ thread = NoGen /\ sock = NoGen /\ port = "none"
  /\ mapped = {}
  /\ running = [s \in Services |-> FALSE]
  /\ bound   = [s \in Services |-> "none"]
  /\ data    = [s \in Services |-> "none"]
  /\ records = [s \in Services |-> "absent"]
  /\ lock = 0
  /\ uv    = [g \in Gens |-> NoServer]
  /\ socks = [g \in Gens |-> "closed"]
  /\ gen = 0
  /\ config \in Configs
  /\ stack = <<>>
  /\ handlers = FALSE
  /\ signals = 0
  /\ last = [op |-> "none", ok |-> TRUE]

-------------------------------------------------------------------------------
(* The control stack of the main thread.                                       *)

Depth == Len(stack)
Idle  == stack = <<>>
Top   == stack[Depth]
At(pc) == ~Idle /\ Top.pc = pc

Become(f) == /\ stack' = [stack EXCEPT ![Depth] = f]
             /\ UNCHANGED last
Goto(pc)  == Become([Top EXCEPT !.pc = pc])

\* The running call returns to the frame it interrupted, or to the caller.
Return ==
  /\ stack' = SubSeq(stack, 1, Depth - 1)
  /\ last' = IF Depth = 1 THEN [op |-> Top.op, ok |-> TRUE] ELSE last

\* The only handler in scope is the `except Exception` around _sock.close();
\* every `with self._lock` an exception leaves releases the lock.
Catchers == {j \in 1..(Depth - 1) : stack[j].pc \in {"close", "closed"}}
Raise ==
  \/ /\ Catchers = {}
     /\ stack' = <<>>
     /\ last' = [op |-> stack[1].op, ok |-> FALSE]
     /\ lock' = 0
  \/ \E d \in Catchers :
       /\ \A j \in Catchers : j <= d
       /\ stack' = [SubSeq(stack, 1, d) EXCEPT ![d].pc = "closed"]
       /\ lock' = IF lock > d THEN 0 ELSE lock
       /\ UNCHANGED last

\* A call from outside, on an idle main thread.
Call(op, pc) == /\ Idle
                /\ stack' = <<NewFrame(op, pc)>>
                /\ UNCHANGED <<object, services, state, gateway, process, last>>

\* for svc in self._service_map.values(): the iterator remembers the keys.  The
\* map only ever loses all of its keys at once, so "changed size" is a changed
\* set of keys.
BeginLoop(pc) ==
  Become([Top EXCEPT !.pc = pc, !.todo = mapped, !.view = mapped])
ChangedSize   == mapped # Top.view

-------------------------------------------------------------------------------
(* start()                                                                     *)

CallStart == gen < MaxStarts /\ Call("start", "bind")

\* RuntimeError("Server is already running"): nothing changes.
AlreadyRunning ==
  /\ At("bind")
  /\ server # NoGen
  /\ Raise
  /\ UNCHANGED <<object, services, records, gateway, process>>

\* _create_bound_socket: the preferred port, or any free one if an open socket,
\* ours or another program's, holds it.  Rebinding _sock drops the last
\* reference to the socket it named, which closes it.
Bind ==
  /\ At("bind")
  /\ server = NoGen
  /\ \E p \in Ports :
       /\ p = "preferred" => \A g \in Gens : socks[g] # "preferred"
       /\ port' = p
       /\ socks' = [g \in Gens |-> IF g = gen + 1 THEN p
                                   ELSE IF g = sock THEN "closed"
                                   ELSE socks[g]]
  /\ sock' = gen + 1
  /\ gen' = gen + 1
  /\ Become([Top EXCEPT !.pc = "register", !.todo = config])
  /\ UNCHANGED <<server, thread, services, state, uv, process>>

\* OSError: no port is free at all.
BindFails ==
  /\ At("bind")
  /\ server = NoGen
  /\ Raise
  /\ UNCHANGED <<object, services, records, gateway, process>>

\* One round of the loop of _build_app: a fresh instance enters the map, then
\* StateManager.register takes the lock ...
Register(s) ==
  /\ At("register")
  /\ s \in Top.todo \cap Known
  /\ lock = 0
  /\ lock' = Depth
  /\ mapped'  = mapped \cup {s}
  /\ running' = [running EXCEPT ![s] = FALSE]
  /\ bound'   = [bound EXCEPT ![s] = "none"]
  /\ data'    = [data EXCEPT ![s] = "none"]
  /\ Become([Top EXCEPT !.pc = "registering", !.cur = s])
  /\ UNCHANGED <<object, records, gateway, process>>

\* Mutant: _build_app forgets StateManager.register.
NotRegistered ==
  /\ At("registering")
  /\ lock' = 0
  /\ Become([Top EXCEPT !.pc = "register", !.todo = @ \ {Top.cur}])
  /\ UNCHANGED <<object, services, records, gateway, process>>

\* ... inserts the record unless there is one, and releases the lock.
Registered ==
  /\ At("registering")
  /\ records' = [records EXCEPT ![Top.cur] = IF @ = "absent" THEN "down" ELSE @]
  /\ lock' = 0
  /\ Become([Top EXCEPT !.pc = "register", !.todo = @ \ {Top.cur}])
  /\ UNCHANGED <<object, services, gateway, process>>

\* ValueError("Unknown service"): the socket is bound, _server is still None.
RejectService ==
  /\ At("register")
  /\ ~(Top.todo \subseteq Known)
  /\ Raise
  /\ UNCHANGED <<object, services, records, gateway, process>>

CreateServer ==
  /\ At("register")
  /\ Top.todo = {}
  /\ Goto("server")
  /\ UNCHANGED <<object, services, state, gateway, process>>

\* self._server = uvicorn.Server(cfg); the thread's target and socket are
\* evaluated before any signal can arrive.
AssignServer ==
  /\ At("server")
  /\ server' = gen
  /\ Goto("thread")
  /\ UNCHANGED <<thread, sock, port, services, state, gateway, process>>

AssignThread ==
  /\ At("thread")
  /\ thread' = gen
  /\ uv' = [uv EXCEPT ![gen].phase = "unstarted"]
  /\ Goto("spawn")
  /\ UNCHANGED <<server, sock, port, services, state, socks, gen, process>>

\* self._thread.start()
Spawn ==
  /\ At("spawn")
  /\ uv' = [uv EXCEPT ![gen].phase = "booting"]
  /\ Goto("poll")
  /\ UNCHANGED <<object, services, state, socks, gen, process>>

SpawnRefused ==
  /\ SpawnFails
  /\ At("spawn")
  /\ Raise
  /\ UNCHANGED <<object, services, records, gateway, process>>

\* Mutant: the polling loop of start() has no else branch.
PollForgiving ==
  /\ At("poll")
  /\ \/ /\ server = NoGen
        /\ Raise
        /\ UNCHANGED records
     \/ /\ server # NoGen
        /\ IF uv[server].started \/ Top.polls = PollCount THEN Goto("install")
           ELSE Become([Top EXCEPT !.polls = @ + 1])
        /\ UNCHANGED state
  /\ UNCHANGED <<object, services, gateway, process>>

\* Mutant: the polling loop makes one round too many.
PollOnceMore ==
  /\ At("poll")
  /\ \/ /\ server = NoGen \/ Top.polls > PollCount
        /\ Raise
        /\ UNCHANGED records
     \/ /\ server # NoGen
        /\ Top.polls <= PollCount
        /\ IF uv[server].started THEN Goto("install")
           ELSE Become([Top EXCEPT !.polls = @ + 1])
        /\ UNCHANGED state
  /\ UNCHANGED <<object, services, gateway, process>>

\* One poll of self._server.started: an AttributeError when a handler has set
\* _server to None, a RuntimeError when the polls are used up.
Poll ==
  /\ At("poll")
  /\ \/ /\ server = NoGen \/ Top.polls = PollCount
        /\ Raise
        /\ UNCHANGED records
     \/ /\ server # NoGen
        /\ Top.polls < PollCount
        /\ IF uv[server].started THEN Goto("install")
           ELSE Become([Top EXCEPT !.polls = @ + 1])
        /\ UNCHANGED state
  /\ UNCHANGED <<object, services, gateway, process>>

InstallHandlers ==
  /\ At("install")
  /\ handlers' = TRUE
  /\ Goto("warm")
  /\ UNCHANGED <<object, services, state, gateway, config, signals>>

Warm ==
  /\ At("warm")
  /\ BeginLoop("warm_next")
  /\ UNCHANGED <<object, services, state, gateway, process>>

\* Mutant: the services are told the preferred port, not the actual one.
BindPreferredPort(s) ==
  /\ At("warm_next")
  /\ ~ChangedSize
  /\ s \in Top.todo
  /\ bound' = [bound EXCEPT ![s] = "preferred"]
  /\ Become([Top EXCEPT !.pc = "warm_start", !.cur = s])
  /\ UNCHANGED <<object, mapped, running, data, state, gateway, process>>

\* svc.bind_port(self._actual_port)
BindPort(s) ==
  /\ At("warm_next")
  /\ ~ChangedSize
  /\ s \in Top.todo
  /\ bound' = [bound EXCEPT ![s] = port]
  /\ Become([Top EXCEPT !.pc = "warm_start", !.cur = s])
  /\ UNCHANGED <<object, mapped, running, data, state, gateway, process>>

\* svc.on_start(): no one can see an instance a handler has dropped.
OnStart ==
  /\ At("warm_start")
  /\ running' = [running EXCEPT ![Top.cur] = Top.cur \in mapped]
  /\ Goto("warm_status")
  /\ UNCHANGED <<object, mapped, bound, data, state, gateway, process>>

\* StateManager.set_status(svc.name, status), a KeyError without a record.
SetStatus(status, next) ==
  /\ lock = 0
  /\ IF records[Top.cur] = "absent"
     THEN Raise /\ UNCHANGED records
     ELSE /\ records' = [records EXCEPT ![Top.cur] = status]
          /\ Become([Top EXCEPT !.pc = next, !.todo = @ \ {Top.cur}])
          /\ UNCHANGED lock
  /\ UNCHANGED <<object, services, gateway, process>>

SetUp == At("warm_status") /\ SetStatus("up", "warm_next")

StartReturns ==
  /\ At("warm_next")
  /\ ~ChangedSize
  /\ Top.todo = {}
  /\ Return
  /\ UNCHANGED <<object, services, state, gateway, process>>

\* RuntimeError("dictionary changed size during iteration")
LoopBroken ==
  /\ At("warm_next") \/ At("down_next") \/ At("reset_next")
  /\ ChangedSize
  /\ Raise
  /\ UNCHANGED <<object, services, records, gateway, process>>

-------------------------------------------------------------------------------
(* stop(), called by the user or by _signal_handler                            *)

CallStop == Call("stop", "check")

\* A signal interrupts any frame, or the idle main thread.
Signal ==
  /\ handlers
  /\ signals < MaxSignals
  /\ signals' = signals + 1
  /\ stack' = Append(stack, NewFrame("signal", "check"))
  /\ UNCHANGED <<object, services, state, gateway, config, handlers, last>>

StopCheck ==
  /\ At("check")
  /\ IF server = NoGen THEN Return ELSE Goto("down")
  /\ UNCHANGED <<object, services, state, gateway, process>>

Down ==
  /\ At("down")
  /\ BeginLoop("down_next")
  /\ UNCHANGED <<object, services, state, gateway, process>>

\* svc.on_stop()
OnStop(s) ==
  /\ At("down_next")
  /\ ~ChangedSize
  /\ s \in Top.todo
  /\ running' = [running EXCEPT ![s] = FALSE]
  /\ Become([Top EXCEPT !.pc = "down_status", !.cur = s])
  /\ UNCHANGED <<object, mapped, bound, data, state, gateway, process>>

SetDown == At("down_status") /\ SetStatus("down", "down_next")

AllDown ==
  /\ At("down_next")
  /\ ~ChangedSize
  /\ Top.todo = {}
  /\ Goto("exit")
  /\ UNCHANGED <<object, services, state, gateway, process>>

\* Mutant: stop() joins the thread without asking uvicorn to exit.
AskNothing ==
  /\ At("exit")
  /\ IF thread = NoGen THEN Goto("sock")
     ELSE Become([Top EXCEPT !.pc = "join", !.target = thread])
  /\ UNCHANGED <<object, services, state, gateway, process>>

\* self._server.should_exit = True, an AttributeError if a handler was faster;
\* then the thread to join is looked up.
AskExit ==
  /\ At("exit")
  /\ IF server = NoGen
     THEN Raise /\ UNCHANGED uv
     ELSE /\ uv' = [uv EXCEPT ![server].exit = TRUE]
          /\ IF thread = NoGen THEN Goto("sock")
             ELSE Become([Top EXCEPT !.pc = "join", !.target = thread])
          /\ UNCHANGED lock
  /\ UNCHANGED <<object, services, records, socks, gen, process>>

\* Mutant: join() has no timeout.
JoinForever ==
  /\ At("join")
  /\ \/ /\ uv[Top.target].phase = "unstarted"
        /\ Raise
     \/ /\ uv[Top.target].phase = "dead"
        /\ Goto("sock")
        /\ UNCHANGED lock
  /\ UNCHANGED <<object, services, records, gateway, process>>

\* self._thread.join(timeout=_JOIN_TIMEOUT_S) raises for a thread that was never
\* started, and otherwise comes back when the thread is dead or time is up.
Join ==
  /\ At("join")
  /\ IF uv[Top.target].phase = "unstarted"
     THEN Raise
     ELSE Goto("sock") /\ UNCHANGED lock
  /\ UNCHANGED <<object, services, records, gateway, process>>

\* Mutant: stop() leaves closing the socket to uvicorn.
SkipClose ==
  /\ At("sock")
  /\ sock # NoGen
  /\ Goto("closed")
  /\ UNCHANGED <<object, services, state, gateway, process>>

\* self._sock.close(), unless _sock is None.
CallClose ==
  /\ At("sock")
  /\ sock # NoGen
  /\ Become([Top EXCEPT !.pc = "close", !.target = sock])
  /\ UNCHANGED <<object, services, state, gateway, process>>

CloseSocket ==
  /\ At("close")
  /\ socks' = [socks EXCEPT ![Top.target] = "closed"]
  /\ Goto("closed")
  /\ UNCHANGED <<object, services, state, uv, gen, process>>

\* Mutant: stop() sets _server to None last, after the records are dropped.
ForgetServerLate ==
  /\ At("closed") \/ (At("sock") /\ sock = NoGen)
  /\ thread' = NoGen /\ sock' = NoGen /\ port' = "none"
  /\ mapped' = {}
  /\ running' = [s \in Services |-> FALSE]
  /\ bound'   = [s \in Services |-> "none"]
  /\ data'    = [s \in Services |-> "none"]
  /\ Goto("drop")
  /\ UNCHANGED <<server, state, gateway, process>>

\* The five fields become None and the map is emptied.
Forget ==
  /\ At("closed") \/ (At("sock") /\ sock = NoGen)
  /\ server' = NoGen /\ thread' = NoGen /\ sock' = NoGen /\ port' = "none"
  /\ mapped' = {}
  /\ running' = [s \in Services |-> FALSE]
  /\ bound'   = [s \in Services |-> "none"]
  /\ data'    = [s \in Services |-> "none"]
  /\ Goto("drop")
  /\ UNCHANGED <<state, gateway, process>>

\* Mutant: stop() leaves the records to the next start().
DropNothing ==
  /\ At("drop")
  /\ lock = 0
  /\ lock' = Depth
  /\ Goto("dropping")
  /\ UNCHANGED <<object, services, records, gateway, process>>

\* StateManager.drop()
Drop ==
  /\ At("drop")
  /\ lock = 0
  /\ lock' = Depth
  /\ records' = [s \in Services |-> "absent"]
  /\ Goto("dropping")
  /\ UNCHANGED <<object, services, gateway, process>>

StopReturns ==
  /\ At("dropping")
  /\ lock' = 0
  /\ Return
  /\ UNCHANGED <<object, services, records, gateway, process>>

-------------------------------------------------------------------------------
(* reset(), and the traffic that makes it necessary                            *)

CallReset ==
  /\ Idle
  /\ stack' = <<NewFrame("reset", "reset")>>
  /\ data' = [s \in Services |-> IF data[s] = "new" THEN "old" ELSE data[s]]
  /\ UNCHANGED <<object, mapped, running, bound, state, gateway, process, last>>

Reset ==
  /\ At("reset")
  /\ BeginLoop("reset_next")
  /\ UNCHANGED <<object, services, state, gateway, process>>

\* Mutant: reset() gives up after the first service.
ResetOneService(s) ==
  /\ At("reset_next")
  /\ ~ChangedSize
  /\ s \in Top.todo
  /\ data' = [data EXCEPT ![s] = "none"]
  /\ Become([Top EXCEPT !.todo = {}])
  /\ UNCHANGED <<object, mapped, running, bound, state, gateway, process>>

\* svc.reset()
ResetService(s) ==
  /\ At("reset_next")
  /\ ~ChangedSize
  /\ s \in Top.todo
  /\ data' = [data EXCEPT ![s] = "none"]
  /\ Become([Top EXCEPT !.todo = @ \ {s}])
  /\ UNCHANGED <<object, mapped, running, bound, state, gateway, process>>

ResetReturns ==
  /\ At("reset_next")
  /\ ~ChangedSize
  /\ Top.todo = {}
  /\ Return
  /\ UNCHANGED <<object, services, state, gateway, process>>

\* Data reaches a service through a request to the newest gateway (an older one
\* that outlived the join reaches instances no one else can see), or from the
\* idle main thread (add_endpoint()).
Request(s) ==
  /\ s \in mapped \cap Traffic
  /\ Idle \/ (gen # 0 /\ uv[gen].phase = "serving")
  /\ data' = [data EXCEPT ![s] = "new"]
  /\ UNCHANGED <<object, mapped, running, bound, state, gateway, control>>

-------------------------------------------------------------------------------
(* The uvicorn thread of one start.                                            *)

\* startup() sets `started`, provided the socket is still open; an exit asked for
\* in the meantime is noticed at once.
UvServe(g) ==
  /\ uv[g].phase = "booting"
  /\ socks[g] # "closed"
  /\ uv' = [uv EXCEPT ![g].phase = IF uv[g].exit THEN "dead" ELSE "serving",
                      ![g].started = TRUE]
  /\ UNCHANGED <<object, services, state, socks, gen, control>>

\* startup() fails.
UvFail(g) ==
  /\ uv[g].phase = "booting"
  /\ uv' = [uv EXCEPT ![g].phase = "dead"]
  /\ UNCHANGED <<object, services, state, socks, gen, control>>

\* should_exit is noticed and the sockets are closed.
UvExit(g) ==
  /\ uv[g].phase = "serving"
  /\ uv[g].exit
  /\ uv' = [uv EXCEPT ![g].phase = "dead"]
  /\ socks' = [socks EXCEPT ![g] = "closed"]
  /\ UNCHANGED <<object, services, state, gen, control>>

-------------------------------------------------------------------------------

StartStep == \/ AlreadyRunning \/ Bind \/ BindFails
             \/ (\E s \in Services : Register(s)) \/ Registered
             \/ RejectService \/ CreateServer \/ AssignServer \/ AssignThread
             \/ Spawn \/ SpawnRefused \/ Poll \/ InstallHandlers \/ Warm
             \/ (\E s \in Services : BindPort(s)) \/ OnStart \/ SetUp
             \/ StartReturns
StopStep  == \/ StopCheck \/ Down \/ (\E s \in Services : OnStop(s)) \/ SetDown
             \/ AllDown \/ AskExit \/ Join \/ CallClose \/ CloseSocket
             \/ Forget \/ Drop \/ StopReturns
ResetStep == \/ Reset \/ (\E s \in Services : ResetService(s)) \/ ResetReturns

MainStep  == StartStep \/ StopStep \/ ResetStep \/ LoopBroken
UvStep(g) == UvServe(g) \/ UvFail(g) \/ UvExit(g)

Next == \/ CallStart \/ CallStop \/ CallReset \/ Signal
        \/ MainStep
        \/ \E s \in Services : Request(s)
        \/ \E g \in Gens : UvStep(g)

Spec == Init /\ [][Next]_vars

\* The interpreter keeps running the main thread.  Nothing is assumed of
\* uvicorn, of callers or of whoever sends signals.
FairSpec == Spec /\ WF_vars(MainStep)

-------------------------------------------------------------------------------
(* Properties.                                                             *)

\* Every field, call frame, socket and uvicorn thread is one the code can make.
TypeOK ==
  /\ server \in 0..MaxStarts /\ thread \in 0..MaxStarts /\ sock \in 0..MaxStarts
  /\ port \in Ports \cup {"none"}
  /\ mapped \subseteq Services
  /\ running \in [Services -> BOOLEAN]
  /\ bound \in [Services -> Ports \cup {"none"}]
  /\ data \in [Services -> {"none", "old", "new"}]
  /\ records \in [Services -> {"absent", "down", "up"}]
  /\ lock \in Nat
  /\ uv \in [Gens -> [phase   : {"none", "unstarted", "booting", "serving", "dead"},
                      started : BOOLEAN,
                      exit    : BOOLEAN]]
  /\ socks \in [Gens -> Ports \cup {"closed"}]
  /\ gen \in 0..MaxStarts
  /\ config \in Configs
  /\ stack \in Seq(Frame)
  /\ handlers \in BOOLEAN
  /\ signals \in 0..MaxSignals
  /\ last \in [op : Ops \cup {"none"}, ok : BOOLEAN]

\* Only a call from outside runs start(), and it has a start left to bind.
StartAtBottom == \A j \in 1..Depth : stack[j].pc \in StartPcs => j = 1
StartLeft     == \A j \in 1..Depth : stack[j].pc = "bind" => gen < MaxStarts
TypeInv       == TypeOK /\ StartAtBottom /\ StartLeft

\* A signal handler runs stop() on the thread it interrupts.  StateManager._lock
\* is not reentrant: if the handler could come to need it while the interrupted
\* frame holds it (register() or drop(), at the call they make inside `with`),
\* the main thread would wait for itself for ever.  It never comes to that.
NoSelfDeadlock ==
  lock # 0 => \A j \in (lock + 1)..Depth : stack[j].pc \notin LockPcs

\* Why not.  Only start() has frames at these steps, and it is never called
\* from a signal handler; between binding and `_server = ...`, and from
\* `_server = None` on, `_server` is None; so whoever interrupts a holder of
\* the lock finds `_server` None and returns.
NoServerPcs   == {"register", "registering", "server", "drop", "dropping"}
NoServerThere == \A j \in 1..Depth : stack[j].pc \in NoServerPcs => server = NoGen
LockHeld ==
  lock # 0 => /\ lock <= Depth
              /\ stack[lock].pc \in {"registering", "dropping"}
              /\ \A j \in (lock + 1)..Depth : stack[j].pc = "check"
LockInv == NoServerThere /\ LockHeld

\* Between calls, the StateManager and the service instances, two records of one
\* fact kept by two classes, agree on which services are up.
StatusAgreement ==
  Idle => \A s \in Services :
            records[s] = "up" <=> (s \in mapped /\ running[s])

\* Between calls, a service that says it is up is behind a gateway that has come
\* up, and reports the port that gateway listens on.
UpIsServing ==
  Idle => \A s \in mapped :
            running[s] => /\ server # NoGen
                          /\ uv[server].started
                          /\ bound[s] = port

\* A gateway thread that the server no longer refers to has been asked to exit:
\* however start(), stop() and the signals interleave, and whether or not the
\* join in stop() timed out, no thread is left serving for ever.
NoStrayThread ==
  \A g \in Gens :
    uv[g].phase \in {"booting", "serving"} /\ g # server => uv[g].exit

\* Why not: `_server` is only forgotten after its should_exit is set, and a
\* start() that lost its server to a signal starts a thread that will exit.
ExitAsked ==
  \A j \in 1..Depth :
    /\ stack[j].pc \in {"join", "sock", "close", "closed"}
         => server = NoGen \/ uv[server].exit
    /\ stack[j].pc \in StartPcs \ {"bind"} => gen # 0
    /\ stack[j].pc \in {"thread", "spawn"} => server = gen \/ uv[gen].exit
StrayInv == NoStrayThread /\ ExitAsked

\* Only the socket `_sock` names can be open: none is ever forgotten open, where
\* it would hold the preferred port against the next start().
NoOrphanListener == \A g \in Gens : socks[g] # "closed" => g = sock

\* When reset() returns normally, no service holds data from before the call
\* only: what is left came in while it ran, or later.
ResetDelivers ==
  Idle /\ last = [op |-> "reset", ok |-> TRUE] => \A s \in mapped : data[s] # "old"

\* When a start() no signal interrupted returns normally, every service of the
\* list is mapped, recorded as up, running and bound to the port of the gateway.
StartDelivers ==
  Idle /\ last = [op |-> "start", ok |-> TRUE] /\ signals = 0 =>
    /\ server = gen /\ sock = gen
    /\ mapped = config
    /\ \A s \in config :
         records[s] = "up" /\ running[s] /\ bound[s] = socks[gen]

\* When stop() returns normally, to its caller or out of the signal handler, the
\* server is down and has kept nothing: no socket, no port, no service, no record.
\* Excluded is a server constructed with an unknown service: its start() always
\* raises, with the socket bound, some services registered and `_server` None, and
\* stop() returns at once and leaves them there.
StopCleans ==
  Idle /\ last \in [op : {"stop", "signal"}, ok : {TRUE}] /\ config \subseteq Known =>
    /\ server = NoGen /\ sock = NoGen /\ port = "none"
    /\ \A g \in Gens : socks[g] = "closed"
    /\ mapped = {}
    /\ \A s \in Services : records[s] = "absent"

\* start() failed in self._thread.start() and left `_server` and `_thread` set
\* (server.py:116-122): join() raises, in this stop() and in every later one.
Unjoinable == thread # NoGen /\ uv[thread].phase = "unstarted"

\* As long as no signal comes, that is the only exception of stop(): it raises
\* nothing else in whatever state the calls before it, the failed ones included,
\* have left the server, since every service of the map has its record.
StopCompletes ==
  Idle /\ last = [op |-> "stop", ok |-> FALSE] /\ signals = 0 => Unjoinable

\* What stop() owes its caller: unless a signal comes in between, or start() could
\* not start the thread it joins, it returns; and when it returns, nothing of the
\* run is left, if the server knew its services.
StopDelivers == StopCompletes /\ StopCleans

\* stop() raises nothing, at all ("should not raise", tests/test_efsm.py:346).
StopNeverRaises == last.op = "stop" => last.ok

\* Every call ends, by a return or an exception, even if uvicorn never reacts: "a
\* stuck server should not block the caller indefinitely" (server.py:166-167).
CallsEnd == ~Idle ~> Idle
===============================================================================
