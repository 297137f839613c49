------------------- MODULE EphemeralMockServerCallsProofs -------------------
(* What the calls of EphemeralMockServer deliver, for every value of its constants:  *)
(* theorems that build on the control flow, the types and the lock of                *)
(* EphemeralMockServerProofs.                                                        *)
EXTENDS EphemeralMockServerProofs

USE DEF NoGen, NoSvc

-------------------------------------------------------------------------------
(* What each step does to the frame it runs in, and to the tables.            *)

Fields(pc, todo, view, cur, target) ==
  /\ Moves(pc)
  /\ stack'[Depth].op = Top.op
  /\ stack'[Depth].todo = todo /\ stack'[Depth].view = view
  /\ stack'[Depth].cur = cur /\ stack'[Depth].target = target

Keeps(pc) == Fields(pc, Top.todo, Top.view, Top.cur, Top.target)

LEMMA BecomeFields ==
  ASSUME TypeOK, ~Idle, NEW f \in Frame, Become(f), f.op = Top.op
  PROVE  Fields(f.pc, f.todo, f.view, f.cur, f.target)
BY ReplaceTop DEF Fields, Moves

LEMMA GotoFields == ASSUME TypeOK, ~Idle, NEW pc \in Pcs, Goto(pc) PROVE Keeps(pc)
<1> DEFINE f == [Top EXCEPT !.pc = pc]
<1>1. /\ f \in Frame /\ f.pc = pc /\ f.op = Top.op
      /\ f.todo = Top.todo /\ f.view = Top.view /\ f.cur = Top.cur /\ f.target = Top.target
  BY TopFrame DEF Frame, Pcs
<1>2. Become(f)
  BY DEF Goto
<1> HIDE DEF f
<1>3. Fields(f.pc, f.todo, f.view, f.cur, f.target)
  BY <1>1, <1>2, BecomeFields
<1> QED BY <1>1, <1>3 DEF Keeps

LEMMA LoopFields ==
  ASSUME TypeOK, ~Idle, NEW pc \in Pcs, BeginLoop(pc)
  PROVE  Fields(pc, mapped, mapped, Top.cur, Top.target)
<1> DEFINE f == [Top EXCEPT !.pc = pc, !.todo = mapped, !.view = mapped]
<1>1. /\ f \in Frame /\ f.pc = pc /\ f.op = Top.op
      /\ f.todo = mapped /\ f.view = mapped /\ f.cur = Top.cur /\ f.target = Top.target
  BY TopFrame DEF Frame, Pcs, TypeOK
<1>2. Become(f)
  BY DEF BeginLoop
<1> HIDE DEF f
<1>3. Fields(f.pc, f.todo, f.view, f.cur, f.target)
  BY <1>1, <1>2, BecomeFields
<1> QED BY <1>1, <1>3

\* A step that chooses the loop variable.
LEMMA ChooseFields ==
  ASSUME TypeOK, ~Idle, NEW pc \in Pcs, NEW s \in Services,
         Become([Top EXCEPT !.pc = pc, !.cur = s])
  PROVE  Fields(pc, Top.todo, Top.view, s, Top.target)
<1> DEFINE f == [Top EXCEPT !.pc = pc, !.cur = s]
<1>1. /\ f \in Frame /\ f.pc = pc /\ f.op = Top.op
      /\ f.todo = Top.todo /\ f.view = Top.view /\ f.cur = s /\ f.target = Top.target
  BY TopFrame DEF Frame, Pcs
<1>2. Become(f)
  OBVIOUS
<1> HIDE DEF f
<1>3. Fields(f.pc, f.todo, f.view, f.cur, f.target)
  BY <1>1, <1>2, BecomeFields
<1> QED BY <1>1, <1>3

\* A step that is through with one element of the loop.
LEMMA TickFields ==
  ASSUME TypeOK, ~Idle, NEW pc \in Pcs, NEW s,
         Become([Top EXCEPT !.pc = pc, !.todo = @ \ {s}])
  PROVE  Fields(pc, Top.todo \ {s}, Top.view, Top.cur, Top.target)
<1> DEFINE f == [Top EXCEPT !.pc = pc, !.todo = @ \ {s}]
<1>1. /\ f \in Frame /\ f.pc = pc /\ f.op = Top.op
      /\ f.todo = Top.todo \ {s} /\ f.view = Top.view /\ f.cur = Top.cur
      /\ f.target = Top.target
  BY TopFrame DEF Frame, Pcs
<1>2. Become(f)
  OBVIOUS
<1> HIDE DEF f
<1>3. Fields(f.pc, f.todo, f.view, f.cur, f.target)
  BY <1>1, <1>2, BecomeFields
<1> QED BY <1>1, <1>3

\* A step that looks up what to join or to close.
LEMMA TargetFields ==
  ASSUME TypeOK, ~Idle, NEW pc \in Pcs, NEW g \in 0..MaxStarts,
         Become([Top EXCEPT !.pc = pc, !.target = g])
  PROVE  Fields(pc, Top.todo, Top.view, Top.cur, g)
<1> DEFINE f == [Top EXCEPT !.pc = pc, !.target = g]
<1>1. /\ f \in Frame /\ f.pc = pc /\ f.op = Top.op
      /\ f.todo = Top.todo /\ f.view = Top.view /\ f.cur = Top.cur /\ f.target = g
  BY TopFrame DEF Frame, Pcs
<1>2. Become(f)
  OBVIOUS
<1> HIDE DEF f
<1>3. Fields(f.pc, f.todo, f.view, f.cur, f.target)
  BY <1>1, <1>2, BecomeFields
<1> QED BY <1>1, <1>3

\* Most steps leave the tables alone.
tables   == <<object, services, records, gateway, config, signals>>
NoTables == UNCHANGED tables

Passes ==
  /\ NoTables
  /\ \/ Top.pc = "register" /\ Top.todo = {} /\ Keeps("server")
     \/ Top.pc = "poll" /\ server # NoGen /\ uv[server].started /\ Keeps("install")
     \/ Top.pc = "poll" /\ Keeps("poll")
     \/ Top.pc = "install" /\ Keeps("warm")
     \/ Top.pc = "warm" /\ Fields("warm_next", mapped, mapped, Top.cur, Top.target)
     \/ Top.pc = "check" /\ server # NoGen /\ Keeps("down")
     \/ Top.pc = "down" /\ Fields("down_next", mapped, mapped, Top.cur, Top.target)
     \/ Top.pc = "down_next" /\ mapped = Top.view /\ Top.todo = {} /\ Keeps("exit")
     \/ Top.pc = "join" /\ uv[Top.target].phase # "unstarted" /\ Keeps("sock")
     \/ /\ Top.pc = "sock" /\ sock # NoGen
        /\ Fields("close", Top.todo, Top.view, Top.cur, sock)
     \/ Top.pc = "reset" /\ Fields("reset_next", mapped, mapped, Top.cur, Top.target)

Ends ==
  /\ NoTables /\ Pops /\ Return
  /\ \/ Top.pc \in {"warm_next", "reset_next"} /\ mapped = Top.view /\ Top.todo = {}
     \/ Top.pc = "check" /\ server = NoGen
     \/ Top.pc = "dropping"

Fails ==
  /\ NoTables /\ Unwound /\ Raise
  /\ \/ Top.pc \in {"bind", "poll"}
     \/ Top.pc = "register" /\ ~(Top.todo \subseteq Known)
     \/ Top.pc = "spawn" /\ SpawnFails
     \/ Top.pc \in {"warm_status", "down_status"} /\ records[Top.cur] = "absent"
     \/ Top.pc \in {"warm_next", "down_next", "reset_next"} /\ mapped # Top.view
     \/ Top.pc = "exit" /\ server = NoGen
     \/ Top.pc = "join" /\ uv[Top.target].phase = "unstarted"

Reports(p, status, q) ==
  /\ Top.pc = p /\ records[Top.cur] # "absent"
  /\ records' = [records EXCEPT ![Top.cur] = status]
  /\ Fields(q, Top.todo \ {Top.cur}, Top.view, Top.cur, Top.target)
  /\ UNCHANGED <<object, services, gateway, config, signals>>

Asks ==
  /\ Top.pc = "exit" /\ server # NoGen
  /\ uv' = [uv EXCEPT ![server].exit = TRUE]
  /\ \/ thread = NoGen /\ Keeps("sock")
     \/ thread # NoGen /\ Fields("join", Top.todo, Top.view, Top.cur, thread)
  /\ UNCHANGED <<object, services, records, socks, gen, config, signals>>

StartChanges ==
  \/ Bind \/ (\E s \in Services : Register(s)) \/ Registered
  \/ AssignServer \/ AssignThread \/ Spawn
  \/ (\E s \in Services : BindPort(s)) \/ OnStart
  \/ Reports("warm_status", "up", "warm_next")
StopChanges ==
  \/ (\E s \in Services : OnStop(s)) \/ Reports("down_status", "down", "down_next")
  \/ Asks \/ CloseSocket \/ Forget \/ Drop

LEMMA ReportSteps ==
  ASSUME TypeOK, ~Idle, NEW p \in {"warm_status", "down_status"}, Top.pc = p,
         NEW status, NEW q \in Pcs, SetStatus(status, q), UNCHANGED <<config, signals>>
  PROVE  Fails \/ Reports(p, status, q)
<1>1. CASE records[Top.cur] = "absent"
  <2>1. Raise /\ NoTables
    BY <1>1 DEF SetStatus, NoTables, tables
  <2> QED BY <1>1, <2>1, RaiseUnwinds DEF Fails
<1>2. CASE records[Top.cur] # "absent"
  <2>1. /\ Become([Top EXCEPT !.pc = q, !.todo = @ \ {Top.cur}])
        /\ records' = [records EXCEPT ![Top.cur] = status]
        /\ UNCHANGED <<object, services, gateway>>
    BY <1>2 DEF SetStatus
  <2>2. Fields(q, Top.todo \ {Top.cur}, Top.view, Top.cur, Top.target)
    BY <2>1, TickFields
  <2> QED BY <1>2, <2>1, <2>2 DEF Reports
<1> QED BY <1>1, <1>2

LEMMA StartSteps ==
  ASSUME TypeOK, StartStep
  PROVE  ~Idle /\ Top.pc \in StartPcs /\ (Passes \/ Ends \/ Fails \/ StartChanges)
<1> USE DEF NoTables, tables, process, state
<1>1. CASE AlreadyRunning \/ BindFails \/ RejectService \/ SpawnRefused
  BY <1>1, RaiseUnwinds DEF AlreadyRunning, BindFails, RejectService, SpawnRefused, At,
     Fails, StartPcs
<1>2. CASE Bind \/ (\E s \in Services : Register(s)) \/ Registered
           \/ AssignServer \/ AssignThread \/ Spawn
           \/ (\E s \in Services : BindPort(s)) \/ OnStart
  BY <1>2 DEF Bind, Register, Registered, AssignServer, AssignThread, Spawn, BindPort,
     OnStart, At, StartChanges, StartPcs
<1>3. CASE CreateServer
  BY <1>3, GotoFields DEF CreateServer, At, Passes, Pcs, StartPcs
<1>4. CASE Poll
  <2>1. ~Idle /\ Top.pc = "poll" /\ NoTables
    BY <1>4 DEF Poll, At
  <2>2. CASE Raise
    BY <2>1, <2>2, RaiseUnwinds DEF Fails, StartPcs
  <2>3. CASE server # NoGen /\ uv[server].started /\ Goto("install")
    BY <2>1, <2>3, GotoFields DEF Passes, Pcs, StartPcs
  <2>4. CASE Top.polls < PollCount /\ Become([Top EXCEPT !.polls = @ + 1])
    <3> DEFINE f == [Top EXCEPT !.polls = @ + 1]
    <3>1. /\ f \in Frame /\ f.pc = "poll" /\ f.op = Top.op /\ f.todo = Top.todo
          /\ f.view = Top.view /\ f.cur = Top.cur /\ f.target = Top.target
      BY <2>1, <2>4, TopFrame, ConstantsOK DEF Frame
    <3>2. Become(f)
      BY <2>4
    <3> HIDE DEF f
    <3>3. Fields(f.pc, f.todo, f.view, f.cur, f.target)
      BY <2>1, <3>1, <3>2, BecomeFields
    <3> QED BY <2>1, <3>1, <3>3 DEF Keeps, Passes, StartPcs
  <2> QED BY <1>4, <2>2, <2>3, <2>4 DEF Poll
<1>5. CASE InstallHandlers
  BY <1>5, GotoFields DEF InstallHandlers, At, Passes, Pcs, StartPcs
<1>6. CASE Warm
  BY <1>6, LoopFields DEF Warm, At, Passes, Pcs, StartPcs
<1>7. CASE SetUp
  <2>1. ~Idle /\ Top.pc = "warm_status" /\ SetStatus("up", "warm_next")
        /\ UNCHANGED <<config, signals>>
    BY <1>7 DEF SetUp, At, SetStatus
  <2>2. "warm_next" \in Pcs /\ "warm_status" \in StartPcs
    BY DEF Pcs, StartPcs
  <2>3. Fails \/ Reports("warm_status", "up", "warm_next")
    BY <2>1, <2>2, ReportSteps
  <2> QED BY <2>1, <2>2, <2>3 DEF StartChanges
<1>8. CASE StartReturns
  BY <1>8, ReturnPops DEF StartReturns, At, ChangedSize, Ends, StartPcs
<1> QED BY <1>1, <1>2, <1>3, <1>4, <1>5, <1>6, <1>7, <1>8 DEF StartStep

LEMMA StopSteps ==
  ASSUME TypeOK, StopStep
  PROVE  ~Idle /\ Top.pc \in StopPcs /\ (Passes \/ Ends \/ Fails \/ StopChanges)
<1> USE DEF NoTables, tables, process, state
<1>1. CASE StopCheck
  BY <1>1, GotoFields, ReturnPops DEF StopCheck, At, Passes, Ends, Pcs, StopPcs
<1>2. CASE Down
  BY <1>2, LoopFields DEF Down, At, Passes, Pcs, StopPcs
<1>3. CASE (\E s \in Services : OnStop(s)) \/ CloseSocket \/ Forget \/ Drop
  BY <1>3 DEF OnStop, CloseSocket, Forget, Drop, At, StopChanges, StopPcs
<1>4. CASE SetDown
  <2>1. ~Idle /\ Top.pc = "down_status" /\ SetStatus("down", "down_next")
        /\ UNCHANGED <<config, signals>>
    BY <1>4 DEF SetDown, At, SetStatus
  <2>2. "down_next" \in Pcs /\ "down_status" \in StopPcs
    BY DEF Pcs, StopPcs
  <2>3. Fails \/ Reports("down_status", "down", "down_next")
    BY <2>1, <2>2, ReportSteps
  <2> QED BY <2>1, <2>2, <2>3 DEF StopChanges
<1>5. CASE AllDown
  BY <1>5, GotoFields DEF AllDown, At, ChangedSize, Passes, Pcs, StopPcs
<1>6. CASE AskExit
  <2>1. ~Idle /\ Top.pc = "exit" /\ UNCHANGED <<object, services, records, socks, gen, config, signals>>
    BY <1>6 DEF AskExit, At
  <2>2. CASE server = NoGen
    BY <1>6, <2>1, <2>2, RaiseUnwinds DEF AskExit, Fails, StopPcs, gateway
  <2>3. CASE server # NoGen /\ thread = NoGen
    BY <1>6, <2>1, <2>3, GotoFields DEF AskExit, Asks, StopChanges, Pcs, StopPcs
  <2>4. CASE server # NoGen /\ thread # NoGen
    <3>1. /\ uv' = [uv EXCEPT ![server].exit = TRUE]
          /\ Become([Top EXCEPT !.pc = "join", !.target = thread])
      BY <1>6, <2>4 DEF AskExit
    <3>2. Fields("join", Top.todo, Top.view, Top.cur, thread)
      BY <2>1, <3>1, TargetFields DEF TypeOK, Pcs, StopPcs
    <3> QED BY <2>1, <2>4, <3>1, <3>2 DEF Asks, StopChanges, StopPcs
  <2> QED BY <2>2, <2>3, <2>4
<1>7. CASE Join
  BY <1>7, GotoFields, RaiseUnwinds DEF Join, At, Passes, Fails, Pcs, StopPcs
<1>8. CASE CallClose
  BY <1>8, TargetFields DEF CallClose, At, Passes, Pcs, StopPcs, TypeOK
<1>9. CASE StopReturns
  BY <1>9, ReturnPops DEF StopReturns, At, Ends, StopPcs
<1> QED BY <1>1, <1>2, <1>3, <1>4, <1>5, <1>6, <1>7, <1>8, <1>9 DEF StopStep

LEMMA ResetSteps ==
  ASSUME TypeOK, ResetStep \/ LoopBroken
  PROVE  ~Idle /\ (Passes \/ Ends \/ Fails \/ \E s \in Services : ResetService(s))
<1> USE DEF NoTables, tables, process, state
<1>1. CASE Reset
  BY <1>1, LoopFields DEF Reset, At, Passes, Pcs, ResetPcs
<1>2. CASE \E s \in Services : ResetService(s)
  BY <1>2 DEF ResetService, At
<1>3. CASE ResetReturns
  BY <1>3, ReturnPops DEF ResetReturns, At, ChangedSize, Ends
<1>4. CASE LoopBroken
  BY <1>4, RaiseUnwinds DEF LoopBroken, At, ChangedSize, Fails
<1> QED BY <1>1, <1>2, <1>3, <1>4 DEF ResetStep

\* The frames of the steps that change the tables.
LEMMA ChangeFields ==
  ASSUME TypeOK
  PROVE  /\ Bind => ~Idle /\ Fields("register", config, Top.view, Top.cur, Top.target)
         /\ \A s \in Services :
              /\ Register(s) => ~Idle /\ Fields("registering", Top.todo, Top.view, s, Top.target)
              /\ BindPort(s) => ~Idle /\ Fields("warm_start", Top.todo, Top.view, s, Top.target)
              /\ OnStop(s) => ~Idle /\ Fields("down_status", Top.todo, Top.view, s, Top.target)
              /\ ResetService(s) =>
                   ~Idle /\ Fields("reset_next", Top.todo \ {s}, Top.view, Top.cur, Top.target)
         /\ Registered =>
              ~Idle /\ Fields("register", Top.todo \ {Top.cur}, Top.view, Top.cur, Top.target)
         /\ AssignServer => ~Idle /\ Keeps("thread")
         /\ AssignThread => ~Idle /\ Keeps("spawn")
         /\ Spawn => ~Idle /\ Keeps("poll")
         /\ OnStart => ~Idle /\ Keeps("warm_status")
         /\ CloseSocket => ~Idle /\ Keeps("closed")
         /\ Forget => ~Idle /\ Keeps("drop")
         /\ Drop => ~Idle /\ Keeps("dropping")
<1> USE DEF Pcs, StartPcs, StopPcs, ResetPcs
<1>1. ASSUME Bind PROVE ~Idle /\ Fields("register", config, Top.view, Top.cur, Top.target)
  <2> DEFINE f == [Top EXCEPT !.pc = "register", !.todo = config]
  <2>1. ~Idle /\ Become(f)
    BY <1>1 DEF Bind, At
  <2>2. /\ f \in Frame /\ f.pc = "register" /\ f.op = Top.op /\ f.todo = config
        /\ f.view = Top.view /\ f.cur = Top.cur /\ f.target = Top.target
    BY <2>1, TopFrame, ConstantsOK DEF Frame, TypeOK
  <2> HIDE DEF f
  <2>3. Fields(f.pc, f.todo, f.view, f.cur, f.target)
    BY <2>1, <2>2, BecomeFields
  <2> QED BY <2>1, <2>2, <2>3
<1>2. ASSUME NEW s \in Services
      PROVE  /\ Register(s) => ~Idle /\ Fields("registering", Top.todo, Top.view, s, Top.target)
             /\ BindPort(s) => ~Idle /\ Fields("warm_start", Top.todo, Top.view, s, Top.target)
             /\ OnStop(s) => ~Idle /\ Fields("down_status", Top.todo, Top.view, s, Top.target)
  BY <1>2, ChooseFields DEF Register, BindPort, OnStop, At
<1>3. ASSUME NEW s \in Services, ResetService(s)
      PROVE  ~Idle /\ Fields("reset_next", Top.todo \ {s}, Top.view, Top.cur, Top.target)
  <2> DEFINE f == [Top EXCEPT !.todo = @ \ {s}]
  <2>1. ~Idle /\ Top.pc = "reset_next" /\ Become(f)
    BY <1>3 DEF ResetService, At
  <2>2. /\ f \in Frame /\ f.pc = "reset_next" /\ f.op = Top.op /\ f.todo = Top.todo \ {s}
        /\ f.view = Top.view /\ f.cur = Top.cur /\ f.target = Top.target
    BY <2>1, TopFrame DEF Frame
  <2> HIDE DEF f
  <2>3. Fields(f.pc, f.todo, f.view, f.cur, f.target)
    BY <2>1, <2>2, BecomeFields
  <2> QED BY <2>1, <2>2, <2>3
<1>4. Registered =>
        ~Idle /\ Fields("register", Top.todo \ {Top.cur}, Top.view, Top.cur, Top.target)
  BY TickFields DEF Registered, At
<1>5. /\ AssignServer => ~Idle /\ Keeps("thread")
      /\ AssignThread => ~Idle /\ Keeps("spawn")
      /\ Spawn => ~Idle /\ Keeps("poll")
      /\ OnStart => ~Idle /\ Keeps("warm_status")
      /\ CloseSocket => ~Idle /\ Keeps("closed")
      /\ Forget => ~Idle /\ Keeps("drop")
      /\ Drop => ~Idle /\ Keeps("dropping")
  BY GotoFields DEF AssignServer, AssignThread, Spawn, OnStart, CloseSocket, Forget, Drop, At
<1> QED BY <1>1, <1>2, <1>3, <1>4, <1>5

\* start() and reset() run at the bottom of the stack; the frame of a call or of a
\* signal is new.
LEMMA BottomFrame ==
  ASSUME TypeInv, ~Idle, Top.pc \in StartPcs
  PROVE  Depth = 1
BY TopFrame DEF TypeInv, StartAtBottom, Top

LEMMA NewCall ==
  ASSUME CallStart \/ CallStop \/ CallReset
  PROVE  /\ Depth = 0 /\ Depth' = 1
         /\ UNCHANGED <<object, mapped, running, bound, records, gateway, config, signals, last>>
         /\ \/ stack'[1] = NewFrame("start", "bind") /\ data' = data
            \/ stack'[1] = NewFrame("stop", "check") /\ data' = data
            \/ stack'[1] = NewFrame("reset", "reset") /\ CallReset
BY DEF CallStart, CallStop, CallReset, Call, Idle, Depth, services, state, process

LEMMA NewSignal ==
  ASSUME TypeOK, Signal
  PROVE  /\ Depth \in Nat /\ Depth' = Depth + 1
         /\ \A j \in 1..Depth : stack'[j] = stack[j]
         /\ stack'[Depth + 1] = NewFrame("signal", "check")
         /\ UNCHANGED <<object, services, records, gateway, config, last>>
         /\ signals' = signals + 1
BY DEF Signal, TypeOK, Depth, state
\* An exception leaves the frame that catches it, or no frame; its call fails.
LEMMA RaiseFields ==
  ASSUME TypeOK, ~Idle, Raise
  PROVE  /\ Unwound
         /\ Depth' = 0 => last' = [op |-> stack[1].op, ok |-> FALSE]
         /\ Depth' # 0 =>
              /\ Depth' \in 1..Depth /\ last' = last
              /\ stack'[Depth'] = [stack[Depth'] EXCEPT !.pc = "closed"]
<1>1. Unwound
  BY RaiseUnwinds
<1>2. CASE stack' = <<>> /\ last' = [op |-> stack[1].op, ok |-> FALSE]
  BY <1>1, <1>2 DEF Depth
<1>3. ASSUME NEW d \in Catchers,
             stack' = [SubSeq(stack, 1, d) EXCEPT ![d].pc = "closed"], last' = last
      PROVE  /\ Depth' = d /\ d # 0 /\ d \in 1..Depth /\ last' = last
             /\ stack'[d] = [stack[d] EXCEPT !.pc = "closed"]
  <2>1. /\ stack \in Seq(Frame) /\ Depth = Len(stack) /\ Depth \in Nat \ {0}
        /\ d \in 1..(Depth - 1)
    BY TopFrame DEF TypeOK, Depth, Catchers
  <2>2. d \in 0..Len(stack) /\ d \in 1..Len(stack) /\ d # 0
    BY <2>1
  <2> DEFINE p == SubSeq(stack, 1, d)
             f == [p[d] EXCEPT !.pc = "closed"]
  <2>3. p \in Seq(Frame) /\ Len(p) = d /\ \A j \in 1..d : p[j] = stack[j]
    BY <2>1, <2>2, Prefix
  <2>4. f \in Frame
    <3>1. p[d] \in Frame
      BY <2>2, <2>3, ElementOfSeq
    <3> HIDE DEF p
    <3> QED BY <3>1 DEF Frame, StopPcs
  <2>5. stack' = [p EXCEPT ![d] = f]
    BY <1>3
  <2> HIDE DEF p, f
  <2>6. d \in 1..Len(p)
    BY <2>2, <2>3
  <2>7. Len(stack') = d /\ stack'[d] = f
    BY <2>3, <2>4, <2>5, <2>6, ExceptSeq
  <2>8. p[d] = stack[d]
    BY <2>2, <2>3
  <2> QED BY <1>3, <2>1, <2>2, <2>7, <2>8 DEF f, Depth
<1>4. CASE \E d \in Catchers :
             stack' = [SubSeq(stack, 1, d) EXCEPT ![d].pc = "closed"] /\ last' = last
  <2>1. PICK d \in Catchers :
             stack' = [SubSeq(stack, 1, d) EXCEPT ![d].pc = "closed"] /\ last' = last
    BY <1>4
  <2> QED BY <1>1, <1>3, <2>1
<1> QED BY <1>2, <1>4 DEF Raise

\* A step of the running frame stays in its call.
StaysIn(q) ==
  /\ Moves(q) /\ stack'[Depth].op = Top.op
  /\ Top.pc \in StartPcs <=> q \in StartPcs
  /\ Top.pc \in ResetPcs <=> q \in ResetPcs
  /\ Top.pc \in StopPcs => q \in StopPcs
  /\ Top.pc = "check" => server # NoGen
  /\ q # "check"

LEMMA PassStays == ASSUME Passes PROVE \E q \in Pcs : StaysIn(q)
BY DEF Passes, Keeps, Fields, StaysIn, Pcs, StartPcs, StopPcs, ResetPcs

LEMMA ChangeStays ==
  ASSUME TypeOK, StartChanges \/ StopChanges \/ \E s \in Services : ResetService(s)
  PROVE  \E q \in Pcs : StaysIn(q)
<1> USE DEF Pcs, StartPcs, StopPcs, ResetPcs
<1>1. CASE Bind
  BY <1>1, ChangeFields DEF Bind, At, Fields, StaysIn
<1>2. CASE \E s \in Services : Register(s)
  BY <1>2, ChangeFields DEF Register, At, Fields, StaysIn
<1>3. CASE Registered
  BY <1>3, ChangeFields DEF Registered, At, Fields, StaysIn
<1>4. CASE AssignServer \/ AssignThread \/ Spawn
  BY <1>4, ChangeFields DEF AssignServer, AssignThread, Spawn, At, Keeps, Fields, StaysIn
<1>5. CASE \E s \in Services : BindPort(s)
  BY <1>5, ChangeFields DEF BindPort, At, Fields, StaysIn
<1>6. CASE OnStart
  BY <1>6, ChangeFields DEF OnStart, At, Keeps, Fields, StaysIn
<1>7. CASE Reports("warm_status", "up", "warm_next") \/ Reports("down_status", "down", "down_next")
  BY <1>7 DEF Reports, Fields, StaysIn
<1>8. CASE \E s \in Services : OnStop(s)
  BY <1>8, ChangeFields DEF OnStop, At, Fields, StaysIn
<1>9. CASE Asks
  BY <1>9 DEF Asks, Keeps, Fields, StaysIn
<1>10. CASE CloseSocket \/ Forget \/ Drop
  BY <1>10, ChangeFields DEF CloseSocket, Forget, Drop, At, Keeps, Fields, StaysIn
<1>11. CASE \E s \in Services : ResetService(s)
  BY <1>11, ChangeFields DEF ResetService, At, Fields, StaysIn
<1> QED BY <1>1, <1>2, <1>3, <1>4, <1>5, <1>6, <1>7, <1>8, <1>9, <1>10, <1>11
        DEF StartChanges, StopChanges

\* What a step of the process can be.
LEMMA NextSteps ==
  ASSUME TypeInv, [Next]_vars
  PROVE  \/ ~Idle /\ (Passes \/ Ends \/ Fails)
         \/ ~Idle /\ Depth = 1 /\ StartChanges
         \/ ~Idle /\ (StopChanges \/ \E s \in Services : ResetService(s))
         \/ CallStart \/ CallStop \/ CallReset \/ Signal
         \/ (\E s \in Services : Request(s)) \/ (\E g \in Gens : UvStep(g))
         \/ UNCHANGED vars
<1>1. TypeOK
  BY DEF TypeInv
<1>2. CASE StartStep
  BY <1>1, <1>2, StartSteps, BottomFrame
<1>3. CASE StopStep
  BY <1>1, <1>3, StopSteps
<1>4. CASE ResetStep \/ LoopBroken
  BY <1>1, <1>4, ResetSteps
<1> QED BY <1>2, <1>3, <1>4 DEF Next, MainStep
-------------------------------------------------------------------------------
(* Whose frames are where.                                                    *)

ShapeInv ==
  \A j \in 1..Depth :
    /\ stack[j].pc \in ResetPcs => j = 1
    /\ stack[j].op = "start" <=> stack[j].pc \in StartPcs
    /\ stack[j].op = "reset" <=> stack[j].pc \in ResetPcs
    /\ stack[j].op = "signal" => stack[j].pc \in StopPcs
    /\ stack[j].pc \in NoServerPcs => \A k \in (j + 1)..Depth : stack[k].pc = "check"
LEMMA ShapeStep == ASSUME TypeInv, LockInv, ShapeInv, [Next]_vars PROVE ShapeInv'
<1> USE DEF StartPcs, StopPcs, ResetPcs
<1>1. TypeOK /\ Depth \in Nat /\ (~Idle => Depth # 0 /\ Top = stack[Depth])
  BY TopFrame DEF TypeInv, TypeOK, Depth, Top
<1>2. ASSUME ~Idle, NEW q \in Pcs, StaysIn(q) PROVE ShapeInv'
  <2>1. /\ Depth' = Depth /\ stack'[Depth].pc = q /\ stack'[Depth].op = stack[Depth].op
        /\ \A j \in 1..Depth : j # Depth => stack'[j] = stack[j]
    BY <1>1, <1>2 DEF StaysIn, Moves
  <2>2. ASSUME NEW j \in 1..Depth, j # Depth, stack[j].pc \in NoServerPcs
        PROVE  FALSE
    <3>1. Top.pc = "check"
      BY <1>1, <1>2, <2>2 DEF ShapeInv
    <3>2. server = NoGen
      BY <2>2 DEF LockInv, NoServerThere
    <3> QED BY <1>2, <3>1, <3>2 DEF StaysIn
  <2>3. ASSUME NEW j \in 1..Depth, stack'[j].pc \in NoServerPcs,
               NEW k \in (j + 1)..Depth
        PROVE  stack'[k].pc = "check"
    BY <1>1, <2>1, <2>2, <2>3
  <2>4. ASSUME NEW j \in 1..Depth
        PROVE  /\ stack'[j].pc \in ResetPcs => j = 1
               /\ stack'[j].op = "start" <=> stack'[j].pc \in StartPcs
               /\ stack'[j].op = "reset" <=> stack'[j].pc \in ResetPcs
               /\ stack'[j].op = "signal" => stack'[j].pc \in StopPcs
    <3>1. CASE j # Depth
      BY <2>1, <3>1 DEF ShapeInv
    <3>2. CASE j = Depth
      <4>1. /\ Top.pc \in ResetPcs => j = 1
            /\ Top.op = "start" <=> Top.pc \in StartPcs
            /\ Top.op = "reset" <=> Top.pc \in ResetPcs
            /\ Top.op = "signal" => Top.pc \in StopPcs
        BY <1>1, <1>2, <3>2 DEF ShapeInv
      <4> QED BY <1>1, <1>2, <2>1, <3>2, <4>1 DEF StaysIn
    <3> QED BY <3>1, <3>2
  <2> QED BY <2>1, <2>3, <2>4 DEF ShapeInv
<1>3. CASE ~Idle /\ Ends
  BY <1>1, <1>3 DEF Ends, Pops, ShapeInv
<1>4. CASE ~Idle /\ Fails
  <2>1. /\ Depth' \in 0..(Depth - 1)
        /\ \A j \in 1..Depth' : j # Depth' => stack'[j] = stack[j]
        /\ Depth' # 0 => /\ stack[Depth'].pc \in {"close", "closed"}
                         /\ stack'[Depth'].pc = "closed"
                         /\ stack'[Depth'].op = stack[Depth'].op
    <3>1. Depth' # 0 => stack[Depth'] \in Frame
      BY <1>1, <1>4, RaiseFields, ElementOfSeq DEF Fails, TypeOK, Depth
    <3> QED BY <1>1, <1>4, <3>1, RaiseFields DEF Fails, Unwound, Frame
  <2>2. ASSUME NEW j \in 1..Depth', stack'[j].pc \in NoServerPcs PROVE FALSE
    <3>1. j # Depth' /\ stack[j].pc \in NoServerPcs
      BY <2>1, <2>2 DEF NoServerPcs
    <3>2. stack[Depth'].pc = "check"
      BY <1>1, <2>1, <3>1 DEF ShapeInv
    <3> QED BY <1>1, <2>1, <3>1, <3>2
  <2> QED BY <1>1, <2>1, <2>2 DEF ShapeInv
<1>5. CASE CallStart \/ CallStop \/ CallReset
  BY <1>5, NewCall DEF ShapeInv, NewFrame, NoServerPcs
<1>6. CASE Signal
  <2>1. stack'[Depth + 1].op = "signal" /\ stack'[Depth + 1].pc = "check"
    BY <1>1, <1>6, NewSignal DEF NewFrame
  <2>2. /\ Depth' = Depth + 1
        /\ \A j \in 1..Depth : stack'[j] = stack[j]
    BY <1>1, <1>6, NewSignal
  <2> QED BY <1>1, <2>1, <2>2 DEF ShapeInv, NoServerPcs
<1>7. CASE UNCHANGED stack
  BY <1>7 DEF ShapeInv, Depth
<1>8. (\E s \in Services : Request(s)) \/ (\E g \in Gens : UvStep(g)) \/ UNCHANGED vars
        => UNCHANGED stack
  BY DEF vars, control, Request, UvStep, UvServe, UvFail, UvExit
<1> QED BY <1>1, <1>2, <1>3, <1>4, <1>5, <1>6, <1>7, <1>8, NextSteps, PassStays, ChangeStays

\* start() and reset() run at the bottom of the stack only, every frame is at a step
\* of the method it was called for, and whoever interrupts a frame that finds, or has
\* just made, `_server` None goes no further than stop()'s first check.
THEOREM ShapeInvariant == Spec => []ShapeInv
<1>1. Init => ShapeInv
  BY DEF Init, ShapeInv, Depth
<1>2. TypeInv /\ LockInv /\ ShapeInv /\ [Next]_vars => ShapeInv'
  BY ShapeStep
<1> QED BY <1>1, <1>2, TypeInvariant, LockInvariant, PTL DEF Spec
-------------------------------------------------------------------------------
(* What a completed stop() leaves to the frames it interrupted.               *)

\* stop() has taken everything down.
Gone ==
  /\ server = NoGen /\ sock = NoGen /\ port = "none" /\ mapped = {}
  /\ \A s \in Services : ~running[s]
  /\ \A g \in Gens : socks[g] = "closed"
Dropped     == \A s \in Services : records[s] = "absent"
DropPending == \E j \in 1..Depth : stack[j].pc = "drop"
Registering(s) == \E j \in 1..Depth : stack[j].pc = "registering" /\ stack[j].cur = s

\* A frame at one of these steps was started, or checked, with a server there.
ServedPcs == (StopPcs \ {"check"}) \cup
             {"thread", "spawn", "poll", "install", "warm", "warm_next", "warm_start",
              "warm_status"}
LoopPcs   == {"down_next", "down_status", "warm_next", "warm_start", "warm_status",
              "reset_next"}
CurPcs    == {"down_status", "warm_start", "warm_status"}

\* What a frame may rely on, as long as no handler has taken everything down.
Relies(f) ==
  /\ f.pc \in ServedPcs => server # NoGen \/ (Gone /\ (Dropped \/ DropPending))
  /\ f.pc \in LoopPcs => f.todo \subseteq f.view /\ (f.view = mapped \/ Gone)
  /\ f.pc \in CurPcs => f.cur \in Services /\ (f.cur \in mapped \/ Gone)
  /\ f.pc = "join" => f.target \in Gens /\ (f.target = thread \/ (Gone /\ thread = NoGen))
  /\ f.pc \in {"sock", "close", "closed"} => thread = NoGen \/ uv[thread].phase # "unstarted"
  /\ f.pc = "close" => f.target = sock \/ Gone
  /\ f.pc = "closed" => \A g \in Gens : socks[g] = "closed"

GoneInv ==
  /\ NoOrphanListener
  /\ \A s \in mapped : records[s] # "absent" \/ Registering(s)
  /\ \A j \in 1..Depth : Relies(stack[j])
LEMMA Here ==
  ASSUME TypeInv
  PROVE  /\ TypeOK /\ Depth \in Nat
         /\ server \in 0..MaxStarts /\ thread \in 0..MaxStarts /\ sock \in 0..MaxStarts
         /\ ~Idle => Depth # 0 /\ Top = stack[Depth] /\ Top \in Frame
BY TopFrame DEF TypeInv, TypeOK, Depth, Top

\* A frame that registers a service, or is about to drop the records, is on top.
LEMMA NothingPending ==
  ASSUME TypeInv, LockInv, ShapeInv, ~Idle, Top.pc = "check" => server # NoGen
  PROVE  /\ DropPending => Top.pc = "drop"
         /\ \A s : Registering(s) => Top.pc = "registering"
<1>1. ASSUME NEW j \in 1..Depth, stack[j].pc \in NoServerPcs PROVE stack[j] = Top
  <2>1. server = NoGen
    BY <1>1 DEF LockInv, NoServerThere
  <2>2. j = Depth \/ Top.pc = "check"
    BY <1>1, Here DEF ShapeInv
  <2> QED BY <2>1, <2>2, Here
<1> QED BY <1>1 DEF DropPending, Registering, NoServerPcs

\* A step that disturbs nothing the frames below rely on.
Spares ==
  /\ server' = server /\ mapped' = mapped
  /\ thread' = thread /\ sock' = sock
  /\ Gone => Gone'
  /\ Gone /\ (Dropped \/ DropPending) => (Dropped \/ DropPending)'
  /\ \A g \in Gens : socks[g] = "closed" => socks'[g] = "closed"
  /\ \A g \in Gens : uv'[g].phase = "unstarted" => uv[g].phase = "unstarted"

LEMMA SparesFrame ==
  ASSUME TypeInv, Spares, NEW j, stack'[j] = stack[j], Relies(stack[j])
  PROVE  Relies(stack[j])'
<1>1. thread' = thread /\ (thread = NoGen \/ thread \in Gens)
  BY Here, ConstantsOK DEF Spares, Gens
<1>2. thread = NoGen \/ uv[thread].phase # "unstarted"
        => thread' = NoGen \/ uv'[thread'].phase # "unstarted"
  BY <1>1 DEF Spares
<1>3. (\A g \in Gens : socks[g] = "closed") => \A g \in Gens : socks'[g] = "closed"
  BY DEF Spares
<1> QED BY <1>1, <1>2, <1>3 DEF Relies, Spares

LEMMA SparesStack ==
  ASSUME TypeInv, GoneInv, ~Idle, Spares, NEW q, Moves(q), Relies(Top)'
  PROVE  (\A j \in 1..Depth : Relies(stack[j]))'
<1>1. /\ Depth' = Depth /\ Depth \in Nat \ {0} /\ Top' = stack'[Depth]
      /\ \A j \in 1..Depth : j # Depth => stack'[j] = stack[j]
  BY Here DEF Moves, Top
<1>2. ASSUME NEW j \in 1..Depth PROVE Relies(stack[j])'
  <2>1. CASE j # Depth
    BY <1>1, <2>1, SparesFrame DEF GoneInv
  <2>2. CASE j = Depth
    <3>1. stack'[j] = Top'
      BY <1>1, <2>2
    <3> QED BY <3>1 DEF Relies
  <2> QED BY <2>1, <2>2
<1> QED BY <1>1, <1>2

LEMMA NoTablesGone ==
  ASSUME NoTables
  PROVE  /\ Gone' = Gone /\ Dropped' = Dropped /\ NoOrphanListener' = NoOrphanListener
         /\ UNCHANGED <<server, mapped, thread, sock, socks, uv, running, records, bound, port, data, gen, config, signals>>
BY DEF NoTables, tables, object, services, gateway, Gone, Dropped, NoOrphanListener

LEMMA PassGone == ASSUME TypeInv, LockInv, ShapeInv, GoneInv, ~Idle, Passes PROVE Spares /\ GoneInv'
<1>1. ~DropPending /\ \A s : ~Registering(s)
  BY NothingPending DEF Passes
<1>2. Spares
  BY <1>1, NoTablesGone DEF Passes, Spares
<1>3. PICK q : Moves(q)
  BY DEF Passes, Keeps, Fields
<1>4. Relies(Top)
  BY Here DEF GoneInv
<1>5. Relies(Top)'
  <2>1. /\ Top' = stack'[Depth] /\ (Dropped' <=> Dropped) /\ (Gone' <=> Gone)
        /\ UNCHANGED <<server, mapped, thread, sock, socks, uv>>
    BY <1>3, NoTablesGone DEF Passes, Moves, Top
  <2> QED BY <1>1, <1>4, <2>1, Here DEF Passes, Keeps, Fields, Moves, Relies, ServedPcs,
     LoopPcs, CurPcs, StopPcs
<1>6. NoOrphanListener' /\ \A s \in mapped' : records'[s] # "absent"
  BY <1>1, NoTablesGone DEF Passes, GoneInv
<1> QED BY <1>2, <1>3, <1>5, <1>6, SparesStack DEF GoneInv

LEMMA EndGone == ASSUME TypeInv, GoneInv, ~Idle, Ends PROVE Spares /\ GoneInv'
<1>1. /\ Depth \in Nat \ {0} /\ Depth' = Depth - 1
      /\ \A j \in 1..(Depth - 1) : stack'[j] = stack[j]
      /\ stack[Depth].pc \notin {"drop", "registering"}
  BY Here DEF Ends, Pops
<1>2. DropPending' = DropPending /\ \A s : Registering(s)' = Registering(s)
  BY <1>1 DEF DropPending, Registering
<1>3. Spares
  BY <1>2, NoTablesGone DEF Ends, Spares
<1>4. (\A j \in 1..Depth : Relies(stack[j]))'
  BY <1>1, <1>3, SparesFrame DEF GoneInv
<1>5. /\ NoOrphanListener'
      /\ \A s \in mapped' : records'[s] # "absent" \/ Registering(s)'
  BY <1>2, NoTablesGone DEF Ends, GoneInv
<1> QED BY <1>3, <1>4, <1>5 DEF GoneInv

\* stop() fails inside another stop() only once a third one is through.
LEMMA FailsGone ==
  ASSUME TypeInv, LockInv, ShapeInv, GoneInv, ~Idle, Fails, NEW d \in 1..(Depth - 1),
         stack[d].pc \in {"close", "closed"}
  PROVE  Gone
<1>1. /\ Depth \in Nat \ {0} /\ Top = stack[Depth] /\ Depth # 1
      /\ Top.pc \notin StartPcs \cup ResetPcs
  BY Here DEF ShapeInv, TypeInv, StartAtBottom
<1>2. ~DropPending /\ \A s : ~Registering(s)
  BY NothingPending DEF Fails
<1>3. Relies(Top) /\ Relies(stack[d])
  BY <1>1 DEF GoneInv
<1>4. CASE Top.pc = "down_status" /\ records[Top.cur] = "absent"
  BY <1>2, <1>3, <1>4 DEF Relies, CurPcs, GoneInv
<1>5. CASE Top.pc = "down_next" /\ mapped # Top.view
  BY <1>3, <1>5 DEF Relies, LoopPcs
<1>6. CASE Top.pc = "exit" /\ server = NoGen
  BY <1>3, <1>6 DEF Relies, ServedPcs, StopPcs
<1>7. CASE Top.pc = "join" /\ uv[Top.target].phase = "unstarted"
  <2>1. Top.target \in Gens /\ (Top.target = thread \/ Gone)
    BY <1>3, <1>7 DEF Relies
  <2>2. thread = NoGen \/ uv[thread].phase # "unstarted"
    BY <1>3 DEF Relies
  <2>3. NoGen \notin Gens
    BY DEF Gens
  <2> QED BY <1>7, <2>1, <2>2, <2>3
<1> QED BY <1>1, <1>4, <1>5, <1>6, <1>7 DEF Fails, StartPcs, ResetPcs

LEMMA FailGone == ASSUME TypeInv, LockInv, ShapeInv, GoneInv, ~Idle, Fails PROVE Spares /\ GoneInv'
<1>2. ~DropPending /\ \A s : ~Registering(s)
  BY NothingPending DEF Fails
<1>3. Spares
  BY <1>2, NoTablesGone DEF Fails, Spares
<1>4. /\ Depth \in Nat \ {0} /\ Depth' \in 0..(Depth - 1)
      /\ \A j \in 1..Depth' : j # Depth' => stack'[j] = stack[j]
  BY Here DEF Fails, Unwound
<1>5. ASSUME Depth' # 0 PROVE Relies(stack[Depth])'
  <2> DEFINE d == Depth'
  <2>1. /\ d \in 1..(Depth - 1) /\ stack[d].pc \in {"close", "closed"}
        /\ stack'[d] = [stack[d] EXCEPT !.pc = "closed"] /\ stack[d] \in Frame
    BY <1>4, <1>5, RaiseFields, Here, ElementOfSeq DEF Fails, Unwound, Depth, TypeOK
  <2>2. Relies(stack[d]) /\ Gone /\ stack'[d].pc = "closed"
    BY <1>4, <2>1, FailsGone DEF GoneInv, Frame
  <2>3. /\ (Dropped' <=> Dropped) /\ (Gone' <=> Gone)
        /\ UNCHANGED <<server, mapped, thread, sock, socks, uv>>
    BY NoTablesGone DEF Fails
  <2> HIDE DEF d
  <2>4. \A g \in Gens : socks[g] = "closed"
    BY <2>2 DEF Gone
  <2>5. /\ server' # NoGen \/ (Gone' /\ Dropped')
        /\ thread' = NoGen \/ uv'[thread'].phase # "unstarted"
    BY <1>2, <2>1, <2>2, <2>3 DEF Relies, ServedPcs, StopPcs
  <2>6. stack'[Depth'].pc = "closed"
    BY <2>2 DEF d
  <2> QED BY <2>3, <2>4, <2>5, <2>6 DEF Relies, LoopPcs, CurPcs
<1>6. (\A j \in 1..Depth : Relies(stack[j]))'
  <2>1. ASSUME NEW j \in 1..Depth' PROVE Relies(stack[j])'
    <3>1. CASE j # Depth'
      BY <1>3, <1>4, <3>1, SparesFrame DEF GoneInv
    <3>2. CASE j = Depth'
      BY <1>4, <1>5, <3>2
    <3> QED BY <3>1, <3>2
  <2> QED BY <2>1
<1>7. NoOrphanListener' /\ \A s \in mapped' : records'[s] # "absent"
  BY <1>2, NoTablesGone DEF Fails, GoneInv
<1> QED BY <1>3, <1>6, <1>7 DEF GoneInv
LEMMA OnStopGone ==
  ASSUME TypeInv, LockInv, ShapeInv, GoneInv, NEW s \in Services, OnStop(s)
  PROVE  Spares /\ GoneInv'
<1>1. /\ ~Idle /\ Top.pc = "down_next" /\ Top.view = mapped /\ s \in Top.todo
      /\ Fields("down_status", Top.todo, Top.view, s, Top.target)
      /\ running' = [running EXCEPT ![s] = FALSE]
      /\ UNCHANGED <<object, mapped, records, gateway>>
  BY ChangeFields DEF TypeInv, OnStop, At, ChangedSize, state
<1>2. ~DropPending /\ \A t : ~Registering(t)
  BY <1>1, NothingPending
<1>3. Gone => Gone'
  BY <1>1, Here DEF Gone, object, gateway, TypeOK
<1>4. Spares
  BY <1>1, <1>2, <1>3 DEF Spares, object, gateway, Dropped
<1>5. Relies(Top)'
  <2>1. Relies(Top) /\ Top' = stack'[Depth]
    BY <1>1, Here DEF GoneInv, Fields, Moves, Top
  <2> QED BY <1>1, <1>4, <2>1 DEF Fields, Moves, Relies, Spares, ServedPcs, LoopPcs,
     CurPcs, StopPcs
<1>6. NoOrphanListener' /\ \A t \in mapped' : records'[t] # "absent"
  BY <1>1, <1>2 DEF GoneInv, NoOrphanListener, object, gateway
<1> QED BY <1>1, <1>4, <1>5, <1>6, SparesStack DEF GoneInv, Fields

LEMMA ReportGone ==
  ASSUME TypeInv, LockInv, ShapeInv, GoneInv, ~Idle,
         NEW p \in {"warm_status", "down_status"}, NEW q \in {"warm_next", "down_next"},
         NEW status \in {"up", "down"}, Reports(p, status, q)
  PROVE  Spares /\ GoneInv'
<1>1. ~DropPending /\ \A t : ~Registering(t)
  BY NothingPending DEF Reports
<1>2. /\ Top.pc = p /\ records[Top.cur] # "absent"
      /\ Fields(q, Top.todo \ {Top.cur}, Top.view, Top.cur, Top.target)
      /\ records' = [records EXCEPT ![Top.cur] = status]
      /\ UNCHANGED <<object, services, gateway>>
  BY DEF Reports
<1>3. Gone' = Gone
  BY <1>2 DEF Gone, object, services, gateway
<1>4. Relies(Top) /\ Top' = stack'[Depth]
  BY <1>2, Here DEF GoneInv, Fields, Moves, Top
<1>5. Top.cur \in Services /\ ~Dropped
  BY <1>2, <1>4 DEF Relies, CurPcs, Dropped
<1>6. Spares
  BY <1>1, <1>2, <1>3, <1>5 DEF Spares, object, services, gateway
<1>7. Relies(Top)'
  BY <1>1, <1>2, <1>3, <1>4, <1>5, <1>6 DEF Fields, Moves, Relies, Spares, ServedPcs,
     LoopPcs, CurPcs, StopPcs
<1>8. NoOrphanListener' /\ \A t \in mapped' : records'[t] # "absent"
  <2>1. \A t \in mapped : records'[t] # "absent"
    BY <1>1, <1>2, Here DEF GoneInv, TypeOK
  <2> QED BY <1>2, <2>1 DEF GoneInv, NoOrphanListener, object, services, gateway
<1> QED BY <1>2, <1>6, <1>7, <1>8, SparesStack DEF GoneInv, Fields

LEMMA AsksGone ==
  ASSUME TypeInv, LockInv, ShapeInv, GoneInv, ~Idle, Asks PROVE Spares /\ GoneInv'
<1>1. ~DropPending /\ \A t : ~Registering(t)
  BY NothingPending DEF Asks
<1>2. /\ UNCHANGED <<object, services, records, socks>>
      /\ uv \in Gateways /\ uv' = [uv EXCEPT ![server].exit = TRUE]
  BY Here DEF Asks, TypeOK, Gateways
<1>3. \A g \in Gens : uv'[g].phase = uv[g].phase
  BY <1>2 DEF Gateways
<1>4. Gone' = Gone /\ Dropped' = Dropped
  BY <1>2 DEF Gone, Dropped, object, services
<1>5. Spares
  BY <1>1, <1>2, <1>3, <1>4 DEF Spares, object, services
<1>6. PICK q : Moves(q)
  BY DEF Asks, Keeps, Fields
<1>7. Relies(Top)'
  <2>1. Relies(Top) /\ Top' = stack'[Depth] /\ (thread = NoGen \/ thread \in Gens)
    BY <1>6, Here, ConstantsOK DEF GoneInv, Moves, Top, Gens
  <2> QED BY <1>1, <1>5, <2>1 DEF Asks, Keeps, Fields, Moves, Relies, Spares, ServedPcs,
     LoopPcs, CurPcs, StopPcs
<1>8. NoOrphanListener' /\ \A t \in mapped' : records'[t] # "absent"
  BY <1>1, <1>2 DEF GoneInv, NoOrphanListener, object, services
<1> QED BY <1>5, <1>6, <1>7, <1>8, SparesStack DEF GoneInv

LEMMA CloseGone ==
  ASSUME TypeInv, LockInv, ShapeInv, GoneInv, CloseSocket PROVE Spares /\ GoneInv'
<1>1. /\ ~Idle /\ Top.pc = "close" /\ Keeps("closed")
      /\ socks' = [socks EXCEPT ![Top.target] = "closed"]
      /\ UNCHANGED <<object, services, state, uv, gen, process>>
  BY Here, ChangeFields DEF CloseSocket, At
<1>2. ~DropPending /\ \A t : ~Registering(t)
  BY <1>1, NothingPending
<1>3. \A g \in Gens : socks'[g] = IF g = Top.target THEN "closed" ELSE socks[g]
  BY <1>1, Here DEF TypeOK
<1>4. (Gone => Gone') /\ Dropped' = Dropped
  BY <1>1, <1>3 DEF Gone, Dropped, object, services, state
<1>5. Spares
  BY <1>1, <1>2, <1>3, <1>4 DEF Spares, object, services
<1>6. Relies(Top) /\ Top' = stack'[Depth]
  BY <1>1, Here DEF GoneInv, Keeps, Fields, Moves, Top
<1>7. \A g \in Gens : socks'[g] = "closed"
  BY <1>1, <1>3, <1>6 DEF Relies, GoneInv, NoOrphanListener, Gone
<1>8. Relies(Top)'
  <2>1. thread = NoGen \/ uv[thread].phase # "unstarted"
    BY <1>1, <1>6 DEF Relies
  <2> QED BY <1>1, <1>2, <1>5, <1>6, <1>7, <2>1 DEF Keeps, Fields, Moves, Relies, Spares,
     ServedPcs, LoopPcs, CurPcs, StopPcs
<1>9. NoOrphanListener' /\ \A t \in mapped' : records'[t] # "absent"
  BY <1>1, <1>2, <1>7 DEF GoneInv, NoOrphanListener, services, state
<1> QED BY <1>1, <1>5, <1>8, <1>9, SparesStack DEF GoneInv, Keeps, Fields

\* Once the five fields are None and the map is empty, everything is gone.
LEMMA ForgetGone == ASSUME TypeInv, GoneInv, Forget PROVE Gone' /\ GoneInv'
<1>1. /\ ~Idle /\ Keeps("drop")
      /\ Top.pc = "closed" \/ (Top.pc = "sock" /\ sock = NoGen)
      /\ server' = NoGen /\ thread' = NoGen /\ sock' = NoGen /\ port' = "none"
      /\ mapped' = {} /\ running' = [s \in Services |-> FALSE]
      /\ UNCHANGED <<state, gateway>>
  BY Here, ChangeFields DEF Forget, At
<1>2. \A g \in Gens : socks[g] = "closed"
  BY <1>1, Here DEF GoneInv, Relies, NoOrphanListener, Gens
<1>3. Gone'
  BY <1>1, <1>2 DEF Gone, gateway
<1>4. /\ Depth \in Nat \ {0} /\ Depth' = Depth /\ stack'[Depth].pc = "drop"
      /\ \A j \in 1..Depth : j # Depth => stack'[j] = stack[j]
  BY <1>1, Here DEF Keeps, Fields, Moves
<1>5. DropPending'
  BY <1>4 DEF DropPending
<1>6. ASSUME NEW j \in 1..Depth PROVE Relies(stack[j])'
  <2>1. CASE j = Depth
    BY <1>3, <1>4, <1>5, <2>1 DEF Relies, LoopPcs, CurPcs
  <2>2. CASE j # Depth
    <3>1. Relies(stack[j]) /\ stack'[j] = stack[j]
      BY <1>4, <2>2 DEF GoneInv
    <3>2. \A g \in Gens : socks'[g] = "closed"
      BY <1>3 DEF Gone
    <3> QED BY <1>1, <1>3, <1>5, <3>1, <3>2 DEF Relies
  <2> QED BY <2>1, <2>2
<1>7. NoOrphanListener'
  BY <1>1, <1>2 DEF NoOrphanListener, gateway
<1> QED BY <1>1, <1>3, <1>4, <1>6, <1>7 DEF GoneInv

LEMMA DropGone ==
  ASSUME TypeInv, LockInv, GoneInv, Drop PROVE Gone /\ Dropped' /\ Spares /\ GoneInv'
<1>1. /\ ~Idle /\ Top.pc = "drop" /\ Keeps("dropping")
      /\ records' = [s \in Services |-> "absent"]
      /\ UNCHANGED <<object, services, gateway>>
  BY Here, ChangeFields DEF Drop, At
<1>2. Gone
  <2>1. server = NoGen
    BY <1>1, Here DEF LockInv, NoServerThere, NoServerPcs
  <2>2. Relies(Top)
    BY <1>1, Here DEF GoneInv
  <2> QED BY <1>1, <2>1, <2>2 DEF Relies, ServedPcs, StopPcs
<1>3. Gone' = Gone /\ Dropped'
  BY <1>1 DEF Gone, Dropped, object, services, gateway
<1>4. Spares
  BY <1>1, <1>3 DEF Spares, object, services, gateway
<1>5. Relies(Top)'
  BY <1>1, <1>2, <1>3, Here DEF Keeps, Fields, Moves, Relies, LoopPcs, CurPcs, Top
<1>6. NoOrphanListener' /\ mapped' = {}
  BY <1>1, <1>2 DEF Gone, GoneInv, NoOrphanListener, object, services, gateway
<1> QED BY <1>1, <1>2, <1>3, <1>4, <1>5, <1>6, SparesStack DEF GoneInv, Keeps, Fields

LEMMA ResetServiceGone ==
  ASSUME TypeInv, LockInv, ShapeInv, GoneInv, NEW s \in Services, ResetService(s)
  PROVE  Spares /\ GoneInv'
<1>1. /\ ~Idle /\ Top.pc = "reset_next"
      /\ Fields("reset_next", Top.todo \ {s}, Top.view, Top.cur, Top.target)
      /\ UNCHANGED <<object, mapped, running, bound, state, gateway, process>>
  BY Here, ChangeFields DEF ResetService, At
<1>2. ~DropPending /\ \A t : ~Registering(t)
  BY <1>1, NothingPending
<1>3. Gone' = Gone /\ Dropped' = Dropped
  BY <1>1 DEF Gone, Dropped, object, gateway, state
<1>4. Spares
  BY <1>1, <1>2, <1>3 DEF Spares, object, gateway
<1>5. Relies(Top)'
  <2>1. Relies(Top) /\ Top' = stack'[Depth]
    BY <1>1, Here DEF GoneInv, Fields, Moves, Top
  <2> QED BY <1>1, <1>3, <1>4, <2>1 DEF Fields, Moves, Relies, Spares, ServedPcs, LoopPcs,
     CurPcs, StopPcs
<1>6. NoOrphanListener' /\ \A t \in mapped' : records'[t] # "absent"
  BY <1>1, <1>2 DEF GoneInv, NoOrphanListener, object, gateway, state
<1> QED BY <1>1, <1>4, <1>5, <1>6, SparesStack DEF GoneInv, Fields
\* The steps of start() that change the tables have no other frame to spare.
LEMMA OneFrame ==
  ASSUME TypeInv, ~Idle, Depth = 1, NEW q, Moves(q)
  PROVE  /\ Depth' = 1 /\ Top = stack[1] /\ Top' = stack'[1]
         /\ \A s : Registering(s) <=> Top.pc = "registering" /\ Top.cur = s
         /\ DropPending <=> Top.pc = "drop"
         /\ \A s : Registering(s)' <=> Top'.pc = "registering" /\ Top'.cur = s
BY DEF Moves, Top, Registering, DropPending

LEMMA StartGone ==
  ASSUME TypeInv, LockInv, StrayInv, GoneInv, ~Idle, Depth = 1, StartChanges
  PROVE  GoneInv'
<1>1. /\ TypeOK /\ Relies(Top)
      /\ \A s \in mapped : records[s] # "absent" \/ Registering(s)
  BY Here DEF GoneInv
<1>2. ASSUME NEW q, Moves(q), Relies(Top)', NoOrphanListener',
             \A s \in mapped' : records'[s] # "absent" \/ Registering(s)'
      PROVE  GoneInv'
  BY <1>2, OneFrame DEF GoneInv, Moves, Relies
<1>3. CASE Bind
  <2>1. /\ Fields("register", config, Top.view, Top.cur, Top.target) /\ Top.pc = "bind"
        /\ sock' = gen + 1
        /\ \A g \in Gens : g # gen + 1 => socks'[g] = IF g = sock THEN "closed" ELSE socks[g]
        /\ UNCHANGED <<mapped, records>>
    BY <1>1, <1>3, ChangeFields DEF Bind, At, services, state
  <2>2. NoOrphanListener'
    BY <2>1 DEF GoneInv, NoOrphanListener
  <2>3. Relies(Top)'
    BY <2>1, OneFrame DEF Fields, Moves, Relies, ServedPcs, LoopPcs, CurPcs, StopPcs
  <2> QED BY <1>1, <1>2, <2>1, <2>2, <2>3, OneFrame DEF Fields
<1>4. ASSUME NEW s \in Services, Register(s) PROVE GoneInv'
  <2>1. /\ Fields("registering", Top.todo, Top.view, s, Top.target) /\ Top.pc = "register"
        /\ mapped' = mapped \cup {s}
        /\ UNCHANGED <<object, records, gateway>>
    BY <1>1, <1>4, ChangeFields DEF Register, At
  <2>2. NoOrphanListener'
    BY <2>1 DEF GoneInv, NoOrphanListener, object, gateway
  <2>3. Relies(Top)' /\ Top'.pc = "registering" /\ Top'.cur = s
    BY <2>1, OneFrame DEF Fields, Moves, Relies, ServedPcs, LoopPcs, CurPcs, StopPcs
  <2> QED BY <1>1, <1>2, <2>1, <2>2, <2>3, OneFrame DEF Fields
<1>5. CASE Registered
  <2>1. /\ Fields("register", Top.todo \ {Top.cur}, Top.view, Top.cur, Top.target)
        /\ Top.pc = "registering"
        /\ records' = [records EXCEPT ![Top.cur] = IF @ = "absent" THEN "down" ELSE @]
        /\ UNCHANGED <<object, services, gateway>>
    BY <1>1, <1>5, ChangeFields DEF Registered, At
  <2>2. NoOrphanListener' /\ mapped' = mapped
    BY <2>1 DEF GoneInv, NoOrphanListener, object, gateway, services
  <2>3. Relies(Top)'
    BY <2>1, OneFrame DEF Fields, Moves, Relies, ServedPcs, LoopPcs, CurPcs, StopPcs
  <2>4. \A s \in mapped' : records'[s] # "absent"
    BY <1>1, <2>1, <2>2, OneFrame DEF TypeOK, Fields
  <2> QED BY <1>2, <2>1, <2>2, <2>3, <2>4 DEF Fields
<1>6. CASE AssignServer
  <2>1. /\ Keeps("thread") /\ Top.pc = "server" /\ server' = gen
        /\ UNCHANGED <<thread, sock, services, records, socks>>
    BY <1>1, <1>6, ChangeFields DEF AssignServer, At, state, gateway
  <2>2. NoOrphanListener' /\ UNCHANGED <<mapped, records>>
    BY <2>1 DEF GoneInv, NoOrphanListener, services
  <2>3. gen # 0
    BY <2>1, Here DEF StrayInv, ExitAsked, StartPcs
  <2>4. Relies(Top)'
    BY <2>1, <2>3, OneFrame DEF Keeps, Fields, Moves, Relies, LoopPcs, CurPcs
  <2> QED BY <1>1, <1>2, <2>1, <2>2, <2>4, OneFrame DEF Keeps, Fields
<1>7. CASE AssignThread \/ Spawn
  <2>1. PICK p \in {"thread", "spawn"}, q \in {"spawn", "poll"} :
          /\ Keeps(q) /\ Top.pc = p
          /\ UNCHANGED <<server, sock, port, services, records, socks>>
    BY <1>1, <1>7, ChangeFields DEF AssignThread, Spawn, At, state, object
  <2>2. NoOrphanListener' /\ UNCHANGED <<mapped, records>>
    BY <2>1 DEF GoneInv, NoOrphanListener, services
  <2>3. Gone' = Gone /\ Dropped' = Dropped /\ server' = server
    BY <2>1 DEF Gone, Dropped, services
  <2>4. Relies(Top)'
    BY <1>1, <2>1, <2>3, OneFrame DEF Keeps, Fields, Moves, Relies, ServedPcs, LoopPcs, CurPcs
  <2> QED BY <1>1, <1>2, <2>1, <2>2, <2>4, OneFrame DEF Keeps, Fields
<1>8. ASSUME NEW s \in Services, BindPort(s) PROVE GoneInv'
  <2>1. /\ Fields("warm_start", Top.todo, Top.view, s, Top.target) /\ Top.pc = "warm_next"
        /\ s \in Top.todo /\ Top.view = mapped
        /\ UNCHANGED <<object, mapped, running, records, gateway>>
    BY <1>1, <1>8, ChangeFields DEF BindPort, At, ChangedSize, state
  <2>2. NoOrphanListener' /\ UNCHANGED <<mapped, records>>
    BY <2>1 DEF GoneInv, NoOrphanListener, object, gateway
  <2>3. Gone' = Gone /\ Dropped' = Dropped /\ server' = server
    BY <2>1 DEF Gone, Dropped, object, gateway
  <2>4. Relies(Top)'
    BY <1>1, <2>1, <2>2, <2>3, OneFrame DEF Fields, Moves, Relies, ServedPcs, LoopPcs, CurPcs
  <2> QED BY <1>1, <1>2, <2>1, <2>2, <2>4, OneFrame DEF Fields
<1>9. CASE OnStart
  <2>1. /\ Keeps("warm_status") /\ Top.pc = "warm_start"
        /\ running' = [running EXCEPT ![Top.cur] = Top.cur \in mapped]
        /\ UNCHANGED <<object, mapped, records, gateway>>
    BY <1>1, <1>9, ChangeFields DEF OnStart, At, state
  <2>2. NoOrphanListener' /\ UNCHANGED <<mapped, records>>
    BY <2>1 DEF GoneInv, NoOrphanListener, object, gateway
  <2>3. (Gone => Gone') /\ Dropped' = Dropped /\ server' = server
    BY <1>1, <2>1 DEF Gone, Dropped, object, gateway, TypeOK
  <2>4. Relies(Top)'
    BY <1>1, <2>1, <2>2, <2>3, OneFrame DEF Keeps, Fields, Moves, Relies, ServedPcs, LoopPcs, CurPcs
  <2> QED BY <1>1, <1>2, <2>1, <2>2, <2>4, OneFrame DEF Keeps, Fields
<1>10. CASE Reports("warm_status", "up", "warm_next")
  <2>1. /\ Top.pc = "warm_status" /\ records[Top.cur] # "absent"
        /\ Fields("warm_next", Top.todo \ {Top.cur}, Top.view, Top.cur, Top.target)
        /\ records' = [records EXCEPT ![Top.cur] = "up"]
        /\ UNCHANGED <<object, services, gateway>>
    BY <1>10 DEF Reports
  <2>2. NoOrphanListener' /\ mapped' = mapped
    BY <2>1 DEF GoneInv, NoOrphanListener, object, gateway, services
  <2>3. ~Dropped /\ ~DropPending
    BY <1>1, <2>1, OneFrame DEF Relies, CurPcs, Dropped, Fields
  <2>4. Gone' = Gone /\ server' = server
    BY <2>1 DEF Gone, object, services, gateway
  <2>5. Relies(Top)'
    BY <1>1, <2>1, <2>2, <2>3, <2>4, OneFrame DEF Fields, Moves, Relies, ServedPcs, LoopPcs, CurPcs
  <2>6. \A s \in mapped' : records'[s] # "absent"
    BY <1>1, <2>1, <2>2, OneFrame DEF TypeOK, Fields
  <2> QED BY <1>2, <2>1, <2>2, <2>5, <2>6 DEF Fields
<1> QED BY <1>3, <1>4, <1>5, <1>6, <1>7, <1>8, <1>9, <1>10 DEF StartChanges

LEMMA OtherGone ==
  ASSUME TypeInv, GoneInv,
         \/ CallStart \/ CallStop \/ CallReset \/ Signal
         \/ (\E s \in Services : Request(s)) \/ (\E g \in Gens : UvStep(g))
         \/ UNCHANGED vars
  PROVE  GoneInv'
<1>1. CASE CallStart \/ CallStop \/ CallReset
  <2>1. /\ Depth = 0 /\ Depth' = 1 /\ stack'[1].pc \in {"bind", "check", "reset"}
        /\ UNCHANGED <<mapped, records, sock, socks>>
    BY <1>1, NewCall DEF NewFrame, object, gateway
  <2>2. \A s \in mapped : records[s] # "absent"
    BY <2>1 DEF GoneInv, Registering
  <2> QED BY <2>1, <2>2 DEF GoneInv, NoOrphanListener, Relies, ServedPcs, LoopPcs, CurPcs, StopPcs
<1>2. CASE Signal
  <2>1. /\ Depth \in Nat /\ Depth' = Depth + 1
        /\ \A j \in 1..Depth : stack'[j] = stack[j]
        /\ stack'[Depth + 1].pc = "check"
        /\ UNCHANGED <<object, services, records, gateway>>
    BY <1>2, Here, NewSignal DEF NewFrame
  <2>2. /\ DropPending => DropPending'
        /\ \A s : Registering(s) => Registering(s)'
    BY <2>1 DEF DropPending, Registering
  <2>3. Spares
    BY <2>1, <2>2 DEF Spares, Gone, Dropped, object, services, gateway
  <2>4. \A j \in 1..Depth : Relies(stack[j])'
    BY <2>1, <2>3, SparesFrame DEF GoneInv
  <2>5. \A f : f = stack'[Depth + 1] => f.pc = "check"
    BY <2>1
  <2>6. ASSUME NEW j \in 1..Depth' PROVE Relies(stack[j])'
    <3>1. CASE j = Depth + 1
      BY <2>1, <3>1 DEF Relies, ServedPcs, LoopPcs, CurPcs
    <3>2. CASE j # Depth + 1
      BY <2>1, <2>4, <3>2
    <3> QED BY <3>1, <3>2
  <2>7. NoOrphanListener' /\ \A s \in mapped' : records'[s] # "absent" \/ Registering(s)'
    BY <2>1, <2>2 DEF GoneInv, NoOrphanListener, object, services, gateway
  <2> QED BY <2>6, <2>7 DEF GoneInv
<1>3. CASE (\E s \in Services : Request(s)) \/ (\E g \in Gens : UvStep(g)) \/ UNCHANGED vars
  <2>1. UNCHANGED <<server, thread, sock, port, mapped, running, records, stack>>
    BY <1>3 DEF Request, UvStep, UvServe, UvFail, UvExit, vars, object, services, state,
       control
  <2>2. /\ \A g \in Gens : socks'[g] \in {socks[g], "closed"}
        /\ \A g \in Gens : uv'[g].phase = "unstarted" => uv[g].phase = "unstarted"
    <3>1. CASE UNCHANGED vars \/ \E s \in Services : Request(s)
      BY <3>1 DEF Request, vars, gateway
    <3>2. ASSUME NEW g \in Gens, UvStep(g)
          PROVE  /\ \A h \in Gens : socks'[h] \in {socks[h], "closed"}
                 /\ \A h \in Gens : uv'[h].phase = "unstarted" => uv[h].phase = "unstarted"
      <4>1. uv \in Gateways /\ socks \in [Gens -> Ports \cup {"closed"}]
        BY Here DEF TypeOK, Gateways
      <4> QED BY <3>2, <4>1 DEF UvStep, UvServe, UvFail, UvExit, Gateways
    <3> QED BY <1>3, <3>1, <3>2
  <2>3. DropPending' = DropPending /\ \A s : Registering(s)' = Registering(s)
    BY <2>1 DEF DropPending, Registering, Depth
  <2>4. Spares
    BY <2>1, <2>2, <2>3 DEF Spares, Gone, Dropped
  <2>5. (\A j \in 1..Depth : Relies(stack[j]))'
    BY <2>1, <2>4, SparesFrame DEF GoneInv, Depth
  <2>6. NoOrphanListener' /\ \A s \in mapped' : records'[s] # "absent" \/ Registering(s)'
    BY <2>1, <2>2, <2>3 DEF GoneInv, NoOrphanListener
  <2> QED BY <2>5, <2>6 DEF GoneInv
<1> QED BY <1>1, <1>2, <1>3

LEMMA GoneStep ==
  ASSUME TypeInv, LockInv, StrayInv, ShapeInv, GoneInv, [Next]_vars PROVE GoneInv'
<1>1. CASE ~Idle /\ (Passes \/ Ends \/ Fails)
  BY <1>1, PassGone, EndGone, FailGone
<1>2. CASE ~Idle /\ Depth = 1 /\ StartChanges
  BY <1>2, StartGone
<1>3. CASE ~Idle /\ StopChanges
  BY <1>3, OnStopGone, ReportGone, AsksGone, CloseGone, ForgetGone, DropGone DEF StopChanges
<1>4. CASE \E s \in Services : ResetService(s)
  BY <1>4, ResetServiceGone
<1> QED BY <1>1, <1>2, <1>3, <1>4, NextSteps, OtherGone

\* A stop() that another stop(), in a signal handler, has interrupted and overtaken
\* finds everything taken down, and whatever it still does has no effect.
THEOREM GoneInvariant == Spec => []GoneInv
<1>1. Init => GoneInv
  BY DEF Init, GoneInv, NoOrphanListener, Depth
<1>2. TypeInv /\ LockInv /\ StrayInv /\ ShapeInv /\ GoneInv /\ [Next]_vars => GoneInv'
  BY GoneStep
<1> QED BY <1>1, <1>2, TypeInvariant, LockInvariant, StrayInvariant, ShapeInvariant, PTL
        DEF Spec

\* No listening socket is ever forgotten open: whatever interleaving of start(), stop(),
\* signals and failures, the only socket that can hold a port is the one `_sock` names.
THEOREM NoListenerOrphaned == Spec => []NoOrphanListener
<1>1. GoneInv => NoOrphanListener
  BY DEF GoneInv
<1> QED BY <1>1, GoneInvariant, PTL
-------------------------------------------------------------------------------
(* Which services are up.                                                     *)

IsDown(s) == ~running[s] /\ records[s] # "up"
Agree(s)  == records[s] = "up" <=> (s \in mapped /\ running[s])

\* A frame is about to report the change it has made to a service.
Reporting(s) == \E j \in 1..Depth : stack[j].pc \in {"warm_status", "down_status"} /\ stack[j].cur = s
Interrupted  == \E j \in 2..Depth : stack[j].pc # "check"

Status(f) ==
  /\ f.pc \in {"down_next", "down_status"} => \A s \in mapped \ f.todo : IsDown(s)
  /\ f.pc = "down_status" => ~running[f.cur]
  /\ f.pc \in {"exit", "join", "sock", "close", "closed"} => \A s \in mapped : IsDown(s)
  /\ f.pc \in {"install", "warm", "warm_next", "warm_start", "warm_status"} /\ server # NoGen
       => uv[server].started
  /\ f.pc \in {"warm_start", "warm_status"} => bound[f.cur] = port \/ Gone
  /\ f.pc = "warm_status" => running[f.cur] \/ Gone \/ Interrupted

\* What is known of a service at any moment.
Truthful(s) ==
  /\ running[s] => s \in mapped /\ server # NoGen /\ uv[server].started /\ bound[s] = port
  /\ records[s] = "up" => DropPending \/ (s \in mapped /\ server # NoGen)
  /\ Agree(s) \/ Reporting(s) \/ DropPending

AgreeInv ==
  /\ \A s \in Services : Truthful(s)
  /\ \A j \in 1..Depth : Status(stack[j])
\* A step that leaves true what the frames below know of the services.
Steady ==
  /\ mapped' = mapped /\ server' = server /\ port' = port /\ bound' = bound
  /\ Gone => Gone'
  /\ \A s \in Services : IsDown(s) => IsDown(s)'
  /\ \A s \in Services : running'[s] => running[s]
  /\ \A g \in Gens : uv[g].started => uv'[g].started
  /\ running' = running \/ Interrupted'
  /\ Interrupted => Interrupted' \/ Gone'

LEMMA SteadyFrame ==
  ASSUME TypeInv, GoneInv, Steady, NEW j \in 1..Depth, stack'[j] = stack[j], Status(stack[j])
  PROVE  Status(stack[j])'
<1>1. /\ mapped \subseteq Services /\ (server = NoGen \/ server \in Gens)
      /\ stack[j].pc \in CurPcs => stack[j].cur \in Services
  <2>1. Relies(stack[j])
    BY DEF GoneInv
  <2>2. stack[j].pc \in CurPcs => stack[j].cur \in Services
    BY <2>1 DEF Relies
  <2>3. server = NoGen \/ server \in Gens
    BY Here, ConstantsOK DEF Gens
  <2> QED BY <2>2, <2>3, Here DEF TypeOK
<1>2. server # NoGen /\ uv[server].started => uv'[server'].started
  BY <1>1 DEF Steady
<1>3. \A s \in mapped : IsDown(s) => IsDown(s)'
  BY <1>1 DEF Steady
<1> QED BY <1>1, <1>2, <1>3 DEF Status, Steady, CurPcs

LEMMA SteadyStack ==
  ASSUME TypeInv, GoneInv, AgreeInv, ~Idle, Depth # 1 => Steady, NEW q, Moves(q), Status(Top)'
  PROVE  (\A j \in 1..Depth : Status(stack[j]))'
<1>1. /\ Depth' = Depth /\ Depth \in Nat \ {0} /\ Top' = stack'[Depth]
      /\ \A j \in 1..Depth : j # Depth => stack'[j] = stack[j]
  BY Here DEF Moves, Top
<1>2. ASSUME NEW j \in 1..Depth PROVE Status(stack[j])'
  <2>1. CASE j # Depth
    BY <1>1, <2>1, SteadyFrame DEF AgreeInv
  <2>2. CASE j = Depth
    <3>1. stack'[j] = Top'
      BY <1>1, <2>2
    <3> QED BY <3>1 DEF Status
  <2> QED BY <2>1, <2>2
<1> QED BY <1>1, <1>2

\* A handler that is at work stays so, or has taken everything down.
LEMMA StaysInterrupted ==
  ASSUME TypeInv, ~Idle, NEW q, StaysIn(q) PROVE Interrupted => Interrupted'
BY Here DEF StaysIn, Moves, Interrupted

LEMMA NoTablesTruthful ==
  ASSUME NoTables, NEW s, Truthful(s), DropPending => DropPending',
         Reporting(s) => Reporting(s)' \/ Agree(s)
  PROVE  Truthful(s)'
BY NoTablesGone DEF Truthful, Agree

LEMMA NoTablesSteady ==
  ASSUME NoTables, Interrupted => Interrupted' \/ Gone' PROVE Steady
BY NoTablesGone DEF Steady, IsDown

LEMMA PassAgree ==
  ASSUME TypeInv, LockInv, ShapeInv, GoneInv, AgreeInv, ~Idle, Passes PROVE AgreeInv'
<1>1. ~DropPending
  BY NothingPending DEF Passes
<1>2. PICK q : StaysIn(q)
  BY PassStays
<1>3. Steady
  BY <1>2, StaysInterrupted, NoTablesSteady DEF Passes
<1>4. Status(Top)'
  <2>1. Status(Top) /\ Top' = stack'[Depth] /\ mapped \subseteq Services
    BY <1>2, Here DEF AgreeInv, StaysIn, Moves, Top, TypeOK
  <2>2. UNCHANGED <<server, mapped, uv, running, records, bound, port>>
    BY NoTablesGone DEF Passes
  <2> QED BY <2>1, <2>2 DEF Passes, Keeps, Fields, Moves, Status, IsDown
<1>5. ASSUME NEW s \in Services PROVE Truthful(s)'
  <2>1. Reporting(s) => Reporting(s)'
    <3>1. Top.pc \notin {"warm_status", "down_status"}
      BY DEF Passes
    <3> QED BY <1>2, <3>1, Here DEF Reporting, StaysIn, Moves
  <2> QED BY <1>1, <2>1, NoTablesTruthful DEF Passes, AgreeInv
<1> QED BY <1>2, <1>3, <1>4, <1>5, SteadyStack DEF AgreeInv, StaysIn

LEMMA EndAgree ==
  ASSUME TypeInv, LockInv, ShapeInv, GoneInv, AgreeInv, ~Idle, Ends PROVE AgreeInv'
<1>1. /\ Depth \in Nat \ {0} /\ Depth' = Depth - 1 /\ Top = stack[Depth]
      /\ \A j \in 1..(Depth - 1) : stack'[j] = stack[j]
      /\ stack[Depth].pc \notin {"drop", "warm_status", "down_status"}
  BY Here DEF Ends, Pops
<1>2. DropPending' = DropPending /\ \A s : Reporting(s)' = Reporting(s)
  BY <1>1 DEF DropPending, Reporting
<1>3. CASE Depth = 1
  BY <1>1, <1>2, <1>3, NoTablesTruthful DEF Ends, AgreeInv
<1>4. CASE Depth # 1
  <2>1. Top.pc = "check" => (Interrupted => Interrupted')
    BY <1>1 DEF Interrupted
  <2>2. Top.pc = "dropping" => Gone'
    <3> SUFFICES ASSUME Top.pc = "dropping" PROVE Gone'
      OBVIOUS
    <3>1. server = NoGen /\ Relies(Top)
      BY <1>1 DEF LockInv, NoServerThere, NoServerPcs, GoneInv
    <3> QED BY <3>1, NoTablesGone DEF Relies, ServedPcs, StopPcs, Ends
  <2>3. Top.pc \notin {"warm_next", "reset_next"}
    BY <1>1, <1>4 DEF ShapeInv, TypeInv, StartAtBottom, StartPcs, ResetPcs
  <2>4. Steady
    BY <2>1, <2>2, <2>3, NoTablesSteady DEF Ends
  <2>5. (\A j \in 1..Depth : Status(stack[j]))'
    BY <1>1, <2>4, SteadyFrame DEF AgreeInv
  <2>6. \A s \in Services : Truthful(s)'
    BY <1>2, NoTablesTruthful DEF Ends, AgreeInv
  <2> QED BY <2>5, <2>6 DEF AgreeInv
<1> QED BY <1>3, <1>4

\* An exception never leaves the two records of a service's status in disagreement.
LEMMA FailsAgree ==
  ASSUME TypeInv, LockInv, ShapeInv, GoneInv, AgreeInv, ~Idle, Fails, ~DropPending,
         NEW s \in Services, \A t : ~Registering(t)
  PROVE  Agree(s)
<1>1. /\ Depth \in Nat \ {0} /\ Top = stack[Depth]
      /\ Relies(Top) /\ Status(Top) /\ Truthful(s)
  BY Here DEF GoneInv, AgreeInv
<1>2. CASE ~Reporting(s)
  BY <1>1, <1>2 DEF Truthful
<1>3. CASE records[s] = "absent"
  BY <1>1, <1>3 DEF Truthful, GoneInv, Agree
<1>4. CASE \A t \in mapped : IsDown(t)
  BY <1>1, <1>4 DEF Truthful, Agree, IsDown
<1>5. ASSUME NEW j \in 1..Depth, stack[j].cur = s, stack[j].pc \in {"warm_status", "down_status"},
             records[s] # "absent"
      PROVE  Agree(s)
  <2>1. CASE j = Depth
    BY <1>1, <1>5, <2>1 DEF Fails
  <2>2. CASE j # Depth
    <3>1. Depth # 1 /\ Top.pc \notin StartPcs \cup ResetPcs
      BY <1>1, <1>5, <2>2 DEF ShapeInv, TypeInv, StartAtBottom
    <3>2. CASE Top.pc = "down_status" /\ records[Top.cur] = "absent"
      BY <1>1, <1>4, <3>2 DEF Relies, CurPcs, GoneInv, Gone
    <3>3. CASE Top.pc = "down_next" /\ mapped # Top.view
      BY <1>1, <1>4, <3>3 DEF Relies, LoopPcs, Gone
    <3>4. CASE Top.pc \in {"exit", "join"}
      BY <1>1, <1>4, <3>4 DEF Status
    <3> QED BY <3>1, <3>2, <3>3, <3>4 DEF Fails, StartPcs, ResetPcs
  <2> QED BY <2>1, <2>2
<1> QED BY <1>2, <1>3, <1>5 DEF Reporting

LEMMA FailAgree ==
  ASSUME TypeInv, LockInv, ShapeInv, GoneInv, AgreeInv, ~Idle, Fails PROVE AgreeInv'
<1>1. ~DropPending /\ \A s : ~Registering(s)
  BY NothingPending DEF Fails
<1>2. \A s \in Services : Truthful(s)'
  BY <1>1, FailsAgree, NoTablesTruthful DEF Fails, AgreeInv
<1>3. /\ Depth \in Nat \ {0} /\ Depth' \in 0..(Depth - 1)
      /\ \A j \in 1..Depth' : j # Depth' => stack'[j] = stack[j]
      /\ Depth' # 0 => /\ stack'[Depth'].pc = "closed"
                       /\ stack[Depth'].pc \in {"close", "closed"}
  BY Here DEF Fails, Unwound
<1>4. /\ UNCHANGED <<server, mapped, uv, running, records, bound, port>>
      /\ Gone' = Gone
  BY NoTablesGone DEF Fails
<1>5. ASSUME NEW j \in 1..Depth' PROVE Status(stack[j])'
  <2>1. CASE j = Depth'
    <3>1. \A s \in mapped : IsDown(s)
      BY <1>3, <2>1 DEF AgreeInv, Status
    <3>2. \A s \in mapped' : IsDown(s)'
      BY <1>4, <3>1 DEF IsDown
    <3> QED BY <1>3, <2>1, <3>2 DEF Status
  <2>2. CASE j # Depth'
    <3>1. Depth' \in 2..Depth /\ stack'[Depth'].pc # "check"
      BY <1>3, <2>2
    <3>2. Interrupted'
      BY <3>1 DEF Interrupted
    <3>3. Steady
      BY <3>2, NoTablesSteady DEF Fails
    <3> QED BY <1>3, <2>2, <3>3, SteadyFrame DEF AgreeInv
  <2> QED BY <2>1, <2>2
<1> QED BY <1>2, <1>5 DEF AgreeInv
LEMMA OnStopAgree ==
  ASSUME TypeInv, LockInv, ShapeInv, GoneInv, AgreeInv, NEW s \in Services, OnStop(s)
  PROVE  AgreeInv'
<1>1. /\ ~Idle /\ Top.pc = "down_next"
      /\ Fields("down_status", Top.todo, Top.view, s, Top.target)
      /\ running' = [running EXCEPT ![s] = FALSE]
      /\ UNCHANGED <<object, mapped, bound, records, gateway>>
  BY Here, ChangeFields DEF OnStop, At, state
<1>2. \A t \in Services : running'[t] = (t # s /\ running[t])
  BY <1>1, Here DEF TypeOK
<1>3. /\ Depth \in Nat \ {0} /\ Depth' = Depth /\ Top' = stack'[Depth] /\ Top = stack[Depth]
      /\ stack'[Depth].pc = "down_status" /\ stack'[Depth].cur = s
      /\ \A j \in 1..Depth : j # Depth => stack'[j] = stack[j]
  BY <1>1, Here DEF Fields, Moves, Top
<1>4. \A t : Reporting(t) => Reporting(t)'
  BY <1>1, <1>3 DEF Reporting
<1>5. Reporting(s)' /\ (DropPending => DropPending')
  BY <1>1, <1>3 DEF Reporting, DropPending
<1>6. ASSUME NEW t \in Services PROVE Truthful(t)'
  BY <1>1, <1>2, <1>4, <1>5 DEF AgreeInv, Truthful, Agree, object, gateway
<1>7. Gone => Gone'
  BY <1>1, <1>2 DEF Gone, object, gateway
<1>8. \A t \in Services : IsDown(t) => IsDown(t)'
  BY <1>1, <1>2 DEF IsDown
<1>9. Depth # 1 => Steady
  <2>1. Depth # 1 => Interrupted'
    BY <1>3 DEF Interrupted
  <2> QED BY <1>1, <1>2, <1>7, <1>8, <2>1 DEF Steady, object, gateway
<1>10. Status(Top)'
  <2>1. Status(Top) /\ mapped \subseteq Services
    BY <1>3, Here DEF AgreeInv, TypeOK
  <2> QED BY <1>1, <1>2, <1>3, <1>8, <2>1 DEF Fields, Status
<1> QED BY <1>1, <1>6, <1>9, <1>10, SteadyStack DEF AgreeInv, Fields

LEMMA SetDownAgree ==
  ASSUME TypeInv, LockInv, ShapeInv, GoneInv, AgreeInv, ~Idle,
         Reports("down_status", "down", "down_next")
  PROVE  AgreeInv'
<1>1. /\ Top.pc = "down_status" /\ records[Top.cur] # "absent"
      /\ Fields("down_next", Top.todo \ {Top.cur}, Top.view, Top.cur, Top.target)
      /\ records' = [records EXCEPT ![Top.cur] = "down"]
      /\ UNCHANGED <<object, services, gateway>>
  BY DEF Reports
<1>2. \A t \in Services : records'[t] = IF t = Top.cur THEN "down" ELSE records[t]
  BY <1>1, Here DEF TypeOK
<1>3. /\ Depth \in Nat \ {0} /\ Depth' = Depth /\ Top' = stack'[Depth] /\ Top = stack[Depth]
      /\ stack'[Depth].pc = "down_next"
      /\ \A j \in 1..Depth : j # Depth => stack'[j] = stack[j]
  BY <1>1, Here DEF Fields, Moves, Top
<1>4. \A t : Reporting(t) => Reporting(t)' \/ t = Top.cur
  BY <1>1, <1>3 DEF Reporting
<1>5. (DropPending => DropPending') /\ (Interrupted => Interrupted')
  BY <1>1, <1>3 DEF DropPending, Interrupted
<1>6. /\ UNCHANGED <<running, bound, mapped, server, uv, port>> /\ Gone' = Gone
  BY <1>1 DEF services, object, gateway, Gone
<1>7. Status(Top) /\ mapped \subseteq Services
  BY <1>3, Here DEF AgreeInv, TypeOK
<1>8. ~running[Top.cur]
  BY <1>1, <1>7 DEF Status
<1>9. ASSUME NEW t \in Services PROVE Truthful(t)'
  BY <1>2, <1>4, <1>5, <1>6, <1>8 DEF AgreeInv, Truthful, Agree
<1>10. \A t \in Services : (IsDown(t) \/ t = Top.cur) => IsDown(t)'
  BY <1>2, <1>6, <1>8 DEF IsDown
<1>11. Steady
  BY <1>5, <1>6, <1>10 DEF Steady
<1>12. Status(Top)'
  <2>1. \A t \in mapped \ (Top.todo \ {Top.cur}) : IsDown(t)'
    BY <1>1, <1>7, <1>10 DEF Status
  <2>2. /\ Top'.pc = "down_next" /\ Top'.todo = Top.todo \ {Top.cur}
        /\ mapped' = mapped
    BY <1>1, <1>3, <1>6 DEF Fields
  <2> QED BY <2>1, <2>2 DEF Status
<1> QED BY <1>1, <1>9, <1>11, <1>12, SteadyStack DEF AgreeInv, Fields

LEMMA AsksAgree ==
  ASSUME TypeInv, LockInv, ShapeInv, GoneInv, AgreeInv, ~Idle, Asks PROVE AgreeInv'
<1>1. /\ Top.pc = "exit" /\ uv' = [uv EXCEPT ![server].exit = TRUE] /\ uv \in Gateways
      /\ UNCHANGED <<server, thread, sock, port, mapped, running, bound, records, socks>>
      /\ server \in Gens
  BY Here, ConstantsOK DEF Asks, object, services, TypeOK, Gateways, Gens
<1>2. \A g \in Gens : uv'[g].started = uv[g].started
  BY <1>1 DEF Gateways
<1>3. PICK q \in {"sock", "join"} : Moves(q)
  BY DEF Asks, Keeps, Fields
<1>4. /\ Depth \in Nat \ {0} /\ Depth' = Depth /\ Top' = stack'[Depth] /\ Top = stack[Depth]
      /\ stack'[Depth].pc = q
      /\ \A j \in 1..Depth : j # Depth => stack'[j] = stack[j]
  BY <1>3, Here DEF Moves, Top
<1>5. /\ DropPending => DropPending'
      /\ \A t : Reporting(t) => Reporting(t)'
      /\ Interrupted => Interrupted'
  BY <1>1, <1>4 DEF DropPending, Reporting, Interrupted
<1>6. ASSUME NEW t \in Services PROVE Truthful(t)'
  BY <1>1, <1>2, <1>5 DEF AgreeInv, Truthful, Agree
<1>7. Gone' = Gone /\ \A t : IsDown(t)' = IsDown(t)
  BY <1>1 DEF Gone, IsDown
<1>8. Steady
  BY <1>1, <1>2, <1>5, <1>7 DEF Steady
<1>9. Status(Top)'
  <2>1. \A t \in mapped : IsDown(t)
    BY <1>1, <1>4 DEF AgreeInv, Status
  <2> QED BY <1>1, <1>4, <1>7, <2>1 DEF Status
<1> QED BY <1>3, <1>6, <1>8, <1>9, SteadyStack DEF AgreeInv

LEMMA CloseAgree ==
  ASSUME TypeInv, LockInv, ShapeInv, GoneInv, AgreeInv, CloseSocket PROVE AgreeInv'
<1>1. /\ ~Idle /\ Top.pc = "close" /\ Keeps("closed")
      /\ socks' = [socks EXCEPT ![Top.target] = "closed"]
      /\ UNCHANGED <<server, thread, sock, port, mapped, running, bound, records, uv>>
  BY Here, ChangeFields DEF CloseSocket, At, object, services, state
<1>2. /\ Depth \in Nat \ {0} /\ Depth' = Depth /\ Top' = stack'[Depth] /\ Top = stack[Depth]
      /\ stack'[Depth].pc = "closed"
      /\ \A j \in 1..Depth : j # Depth => stack'[j] = stack[j]
  BY <1>1, Here DEF Keeps, Fields, Moves, Top
<1>3. /\ DropPending => DropPending'
      /\ \A t : Reporting(t) => Reporting(t)'
      /\ Interrupted => Interrupted'
  BY <1>1, <1>2 DEF DropPending, Reporting, Interrupted
<1>4. ASSUME NEW t \in Services PROVE Truthful(t)'
  BY <1>1, <1>3 DEF AgreeInv, Truthful, Agree
<1>5. (Gone => Gone') /\ \A t : IsDown(t)' = IsDown(t)
  BY <1>1, Here DEF Gone, IsDown, TypeOK
<1>6. Steady
  BY <1>1, <1>3, <1>5 DEF Steady
<1>7. Status(Top)'
  <2>1. \A t \in mapped : IsDown(t)
    BY <1>1, <1>2 DEF AgreeInv, Status
  <2> QED BY <1>1, <1>2, <1>5, <2>1 DEF Status
<1> QED BY <1>1, <1>4, <1>6, <1>7, SteadyStack DEF AgreeInv, Keeps, Fields

LEMMA ForgetAgree ==
  ASSUME TypeInv, GoneInv, AgreeInv, Forget PROVE AgreeInv'
<1>1. /\ ~Idle /\ Keeps("drop") /\ server' = NoGen /\ mapped' = {}
      /\ running' = [s \in Services |-> FALSE] /\ Gone'
  BY Here, ChangeFields, ForgetGone DEF Forget, At
<1>2. /\ Depth \in Nat \ {0} /\ Depth' = Depth /\ stack'[Depth].pc = "drop"
      /\ \A j \in 1..Depth : j # Depth => stack'[j] = stack[j]
  BY <1>1, Here DEF Keeps, Fields, Moves
<1>3. DropPending'
  BY <1>2 DEF DropPending
<1>4. \A s \in Services : Truthful(s)'
  BY <1>1, <1>3 DEF Truthful
<1>5. ASSUME NEW j \in 1..Depth PROVE Status(stack[j])'
  <2>1. CASE j = Depth
    BY <1>2, <2>1 DEF Status
  <2>2. CASE j # Depth
    <3>1. Status(stack[j]) /\ Relies(stack[j]) /\ stack'[j] = stack[j]
      BY <1>2, <2>2 DEF AgreeInv, GoneInv
    <3>2. stack[j].pc \in CurPcs => stack[j].cur \in Services
      BY <3>1 DEF Relies
    <3> QED BY <1>1, <3>1, <3>2 DEF Status, CurPcs
  <2> QED BY <2>1, <2>2
<1> QED BY <1>2, <1>4, <1>5 DEF AgreeInv

LEMMA DropAgree ==
  ASSUME TypeInv, LockInv, GoneInv, AgreeInv, Drop PROVE AgreeInv'
<1>1. /\ ~Idle /\ Top.pc = "drop" /\ Keeps("dropping") /\ Gone
      /\ records' = [s \in Services |-> "absent"]
      /\ UNCHANGED <<object, services, gateway>>
  BY Here, ChangeFields, DropGone DEF Drop, At
<1>2. Gone' /\ mapped' = {} /\ UNCHANGED <<server, mapped, running, bound, port, uv>>
  BY <1>1 DEF Gone, object, services, gateway
<1>3. \A s \in Services : Truthful(s)'
  BY <1>1, <1>2 DEF Truthful, Agree, Gone
<1>4. /\ Depth \in Nat \ {0} /\ Depth' = Depth /\ Top' = stack'[Depth] /\ Top = stack[Depth]
      /\ stack'[Depth].pc = "dropping"
      /\ \A j \in 1..Depth : j # Depth => stack'[j] = stack[j]
  BY <1>1, Here DEF Keeps, Fields, Moves, Top
<1>5. Steady
  <2>1. \A s \in Services : IsDown(s) => IsDown(s)'
    BY <1>1, <1>2 DEF IsDown
  <2> QED BY <1>1, <1>2, <2>1 DEF Steady, gateway
<1>6. Status(Top)'
  BY <1>4 DEF Status
<1> QED BY <1>1, <1>3, <1>5, <1>6, SteadyStack DEF AgreeInv, Keeps, Fields

LEMMA ResetServiceAgree ==
  ASSUME TypeInv, LockInv, ShapeInv, GoneInv, AgreeInv, NEW s \in Services, ResetService(s)
  PROVE  AgreeInv'
<1>1. /\ ~Idle /\ Top.pc = "reset_next"
      /\ Fields("reset_next", Top.todo \ {s}, Top.view, Top.cur, Top.target)
      /\ UNCHANGED <<server, thread, sock, port, mapped, running, bound, records, uv, socks>>
  BY Here, ChangeFields DEF ResetService, At, object, state, gateway
<1>2. /\ Depth \in Nat \ {0} /\ Depth' = Depth /\ Top' = stack'[Depth] /\ Top = stack[Depth]
      /\ stack'[Depth].pc = "reset_next"
      /\ \A j \in 1..Depth : j # Depth => stack'[j] = stack[j]
  BY <1>1, Here DEF Fields, Moves, Top
<1>3. /\ DropPending => DropPending'
      /\ \A t : Reporting(t) => Reporting(t)'
      /\ Interrupted => Interrupted'
  BY <1>1, <1>2 DEF DropPending, Reporting, Interrupted
<1>4. ASSUME NEW t \in Services PROVE Truthful(t)'
  BY <1>1, <1>3 DEF AgreeInv, Truthful, Agree
<1>5. Gone' = Gone /\ \A t : IsDown(t)' = IsDown(t)
  BY <1>1 DEF Gone, IsDown
<1>6. Steady
  BY <1>1, <1>3, <1>5 DEF Steady
<1>7. Status(Top)'
  BY <1>2 DEF Status
<1> QED BY <1>1, <1>4, <1>6, <1>7, SteadyStack DEF AgreeInv, Fields
\* A start() that is alone has found, or just set, the status of every service but one.
LEMMA OneFrameTruth ==
  ASSUME TypeInv, LockInv, GoneInv, AgreeInv, ~Idle, Depth = 1, Top.pc \in StartPcs
  PROVE  /\ \A s \in Services : Top.pc # "warm_status" => Agree(s)
         /\ \A s \in Services : records[s] = "up" => s \in mapped /\ server # NoGen
         /\ \A s \in Services : Agree(s) \/ Top.cur = s
         /\ Status(Top) /\ Relies(Top) /\ ~DropPending /\ ~Interrupted
         /\ mapped \subseteq Services
<1>1. Top = stack[1] /\ mapped \subseteq Services
  BY Here DEF TypeOK
<1>2. ~DropPending /\ ~Interrupted
  BY <1>1 DEF DropPending, Interrupted, StartPcs
<1>3. \A s : Reporting(s) <=> Top.pc \in {"warm_status", "down_status"} /\ Top.cur = s
  BY <1>1 DEF Reporting
<1>4. Top.pc # "down_status"
  BY DEF StartPcs
<1> QED BY <1>1, <1>2, <1>3, <1>4 DEF AgreeInv, Truthful, GoneInv

LEMMA StartAgree ==
  ASSUME TypeInv, LockInv, StrayInv, GoneInv, AgreeInv, ~Idle, Depth = 1, StartChanges
  PROVE  AgreeInv'
<1>1. TypeOK /\ mapped \subseteq Services
  BY Here DEF TypeOK
<1>2. Top.pc \in StartPcs
  BY DEF StartChanges, Bind, Register, Registered, AssignServer, AssignThread, Spawn, BindPort,
     OnStart, Reports, At, StartPcs
<1>3. ASSUME NEW q, Moves(q), Status(Top)', \A s \in Services : Truthful(s)' PROVE AgreeInv'
  BY <1>3, OneFrame DEF AgreeInv, Moves, Status
<1>4. CASE Bind
  <2>1. /\ Moves("register") /\ Top.pc = "bind" /\ server = NoGen /\ server' = NoGen
        /\ UNCHANGED <<mapped, running, records>>
    BY <1>1, <1>4, ChangeFields DEF Bind, At, services, state, Fields
  <2>2. Status(Top)'
    BY <2>1, OneFrame DEF Moves, Status
  <2>3. \A s \in Services : Truthful(s)'
    BY <1>2, <2>1, OneFrameTruth DEF AgreeInv, Truthful, Agree
  <2> QED BY <1>3, <2>1, <2>2, <2>3
<1>5. ASSUME NEW s \in Services, Register(s) PROVE AgreeInv'
  <2>1. /\ Moves("registering") /\ Top.pc = "register"
        /\ running' = [running EXCEPT ![s] = FALSE]
        /\ UNCHANGED <<object, records, gateway>>
    BY <1>1, <1>5, ChangeFields DEF Register, At, Fields
  <2>2. server = NoGen
    BY <2>1, Here DEF LockInv, NoServerThere, NoServerPcs
  <2>3. Status(Top)'
    BY <2>1, OneFrame DEF Moves, Status
  <2>4. \A t \in Services : ~running'[t] /\ records'[t] # "up"
    BY <1>1, <1>2, <2>1, <2>2, OneFrameTruth DEF AgreeInv, Truthful, TypeOK
  <2> QED BY <1>3, <2>1, <2>3, <2>4 DEF Truthful, Agree
<1>6. CASE Registered
  <2>1. /\ Moves("register") /\ Top.pc = "registering"
        /\ records' = [records EXCEPT ![Top.cur] = IF @ = "absent" THEN "down" ELSE @]
        /\ UNCHANGED <<object, services, gateway>>
    BY <1>1, <1>6, ChangeFields DEF Registered, At, Fields
  <2>2. server = NoGen
    BY <2>1, Here DEF LockInv, NoServerThere, NoServerPcs
  <2>3. Status(Top)'
    BY <2>1, OneFrame DEF Moves, Status
  <2>4. \A t \in Services : ~running'[t] /\ records'[t] # "up"
    BY <1>1, <1>2, <2>1, <2>2, OneFrameTruth DEF AgreeInv, Truthful, TypeOK, services
  <2> QED BY <1>3, <2>1, <2>3, <2>4 DEF Truthful, Agree
<1>7. CASE AssignServer
  <2>1. /\ Moves("thread") /\ Top.pc = "server" /\ UNCHANGED <<services, records>>
    BY <1>1, <1>7, ChangeFields DEF AssignServer, At, Keeps, Fields, state
  <2>2. server = NoGen
    BY <2>1, Here DEF LockInv, NoServerThere, NoServerPcs
  <2>3. Status(Top)'
    BY <2>1, OneFrame DEF Moves, Status
  <2>4. \A t \in Services : ~running'[t] /\ records'[t] # "up"
    BY <1>1, <1>2, <2>1, <2>2, OneFrameTruth DEF AgreeInv, Truthful, services
  <2> QED BY <1>3, <2>1, <2>3, <2>4 DEF Truthful, Agree
<1>8. CASE AssignThread \/ Spawn
  <2>1. PICK p \in {"thread", "spawn"}, q \in {"spawn", "poll"} :
          Moves(q) /\ Top.pc = p /\ UNCHANGED <<server, port, services, records>>
    BY <1>1, <1>8, ChangeFields DEF AssignThread, Spawn, At, Keeps, Fields, state, object
  <2>2. uv \in Gateways /\ (server = NoGen \/ server \in Gens)
    BY Here, ConstantsOK DEF TypeOK, Gateways, Gens
  <2>3. \A g \in Gens : uv'[g].started = uv[g].started
    BY <1>8, <2>2 DEF AssignThread, Spawn, Gateways
  <2>4. Status(Top)'
    BY <2>1, OneFrame DEF Moves, Status
  <2>5. \A t \in Services : Truthful(t)'
    BY <1>2, <2>1, <2>2, <2>3, OneFrameTruth DEF AgreeInv, Truthful, Agree, services
  <2> QED BY <1>3, <2>1, <2>4, <2>5
<1>9. ASSUME NEW s \in Services, BindPort(s) PROVE AgreeInv'
  <2>1. /\ Fields("warm_start", Top.todo, Top.view, s, Top.target) /\ Top.pc = "warm_next"
        /\ bound' = [bound EXCEPT ![s] = port]
        /\ UNCHANGED <<object, mapped, running, records, gateway>>
    BY <1>1, <1>9, ChangeFields DEF BindPort, At, state
  <2>2. \A t \in Services : bound'[t] = IF t = s THEN port ELSE bound[t]
    BY <1>1, <2>1 DEF TypeOK
  <2>3. /\ Top'.pc = "warm_start" /\ Top'.cur = s
        /\ UNCHANGED <<server, port, mapped, running, records, uv>>
    BY <2>1, OneFrame DEF Fields, Moves, object, gateway
  <2>4. Status(Top)'
    BY <1>2, <2>1, <2>2, <2>3, OneFrameTruth DEF Status
  <2>5. \A t \in Services : Truthful(t)'
    BY <1>2, <2>1, <2>2, <2>3, OneFrameTruth DEF AgreeInv, Truthful, Agree
  <2> QED BY <1>3, <2>1, <2>4, <2>5 DEF Fields
<1>10. CASE OnStart
  <2>1. /\ Keeps("warm_status") /\ Top.pc = "warm_start"
        /\ running' = [running EXCEPT ![Top.cur] = Top.cur \in mapped]
        /\ UNCHANGED <<object, mapped, bound, records, gateway>>
    BY <1>1, <1>10, ChangeFields DEF OnStart, At, state
  <2>2. /\ Status(Top) /\ Relies(Top)
        /\ Top.cur \in Services
    BY <1>2, <2>1, OneFrameTruth DEF Relies, CurPcs
  <2>3. \A t \in Services : running'[t] <=> IF t = Top.cur THEN t \in mapped ELSE running[t]
    BY <1>1, <2>1 DEF TypeOK
  <2>4. /\ Top'.pc = "warm_status" /\ Top'.cur = Top.cur
        /\ \A t : t = Top.cur => Reporting(t)'
        /\ UNCHANGED <<server, port, mapped, bound, records, uv, sock, socks>>
    BY <2>1, OneFrame DEF Keeps, Fields, Moves, object, gateway, Reporting
  <2>5. Gone => Gone'
    BY <2>3, <2>4, <2>2 DEF Gone
  <2>6. Status(Top)'
    BY <2>1, <2>2, <2>3, <2>4, <2>5 DEF Status, Relies, CurPcs
  <2>7. ASSUME Top.cur \in mapped
        PROVE  server # NoGen /\ uv[server].started /\ bound[Top.cur] = port
    BY <2>1, <2>2, <2>7 DEF Status, Relies, ServedPcs, Gone
  <2>8. ASSUME NEW t \in Services PROVE Truthful(t)'
    <3>1. CASE t = Top.cur
      BY <1>2, <2>1, <2>3, <2>4, <2>7, <3>1, OneFrameTruth DEF Truthful
    <3>2. CASE t # Top.cur
      BY <1>2, <2>1, <2>3, <2>4, <3>2, OneFrameTruth DEF AgreeInv, Truthful, Agree
    <3> QED BY <3>1, <3>2
  <2> QED BY <1>3, <2>1, <2>6, <2>8 DEF Keeps, Fields
<1>11. CASE Reports("warm_status", "up", "warm_next")
  <2>1. /\ Top.pc = "warm_status" /\ records[Top.cur] # "absent"
        /\ Fields("warm_next", Top.todo \ {Top.cur}, Top.view, Top.cur, Top.target)
        /\ records' = [records EXCEPT ![Top.cur] = "up"]
        /\ UNCHANGED <<object, services, gateway>>
    BY <1>11 DEF Reports
  <2>2. /\ Status(Top) /\ Relies(Top) /\ ~DropPending /\ ~Interrupted
        /\ Top.cur \in Services
    BY <1>2, <2>1, OneFrameTruth DEF Relies, CurPcs
  <2>3. server # NoGen
    BY <2>1, <2>2 DEF Relies, ServedPcs, Dropped
  <2>4. running[Top.cur]
    BY <2>1, <2>2, <2>3 DEF Status, Gone
  <2>5. \A t \in Services : records'[t] = IF t = Top.cur THEN "up" ELSE records[t]
    BY <1>1, <2>1 DEF TypeOK
  <2>6. /\ Top'.pc = "warm_next"
        /\ UNCHANGED <<server, port, mapped, running, bound, uv>>
    BY <2>1, OneFrame DEF Fields, Moves, object, services, gateway
  <2>7. Status(Top)'
    BY <2>1, <2>2, <2>6 DEF Status
  <2>8. ASSUME NEW t \in Services PROVE Truthful(t)'
    BY <1>2, <2>4, <2>5, <2>6, OneFrameTruth DEF AgreeInv, Truthful, Agree
  <2> QED BY <1>3, <2>1, <2>7, <2>8 DEF Fields
<1> QED BY <1>4, <1>5, <1>6, <1>7, <1>8, <1>9, <1>10, <1>11 DEF StartChanges

LEMMA OtherAgree ==
  ASSUME TypeInv, GoneInv, AgreeInv,
         \/ CallStart \/ CallStop \/ CallReset \/ Signal
         \/ (\E s \in Services : Request(s)) \/ (\E g \in Gens : UvStep(g))
         \/ UNCHANGED vars
  PROVE  AgreeInv'
<1>1. CASE CallStart \/ CallStop \/ CallReset
  <2>1. /\ Depth = 0 /\ Depth' = 1 /\ stack'[1].pc \in {"bind", "check", "reset"}
        /\ UNCHANGED <<server, port, mapped, running, bound, records, uv>>
    BY <1>1, NewCall DEF NewFrame, object, gateway
  <2>2. \A s \in Services : ~DropPending /\ ~Reporting(s)
    BY <2>1 DEF DropPending, Reporting
  <2>3. \A s \in Services : Truthful(s)'
    BY <2>1, <2>2 DEF AgreeInv, Truthful, Agree
  <2> QED BY <2>1, <2>3 DEF AgreeInv, Status
<1>2. CASE Signal
  <2>1. /\ Depth \in Nat /\ Depth' = Depth + 1
        /\ \A j \in 1..Depth : stack'[j] = stack[j]
        /\ stack'[Depth + 1].pc = "check"
        /\ UNCHANGED <<server, port, mapped, running, bound, records, uv, sock, socks>>
    BY <1>2, Here, NewSignal DEF NewFrame, object, services, gateway
  <2>2. /\ DropPending => DropPending'
        /\ \A s : Reporting(s) => Reporting(s)'
        /\ Interrupted => Interrupted'
    BY <2>1 DEF DropPending, Reporting, Interrupted
  <2>3. Steady
    BY <2>1, <2>2 DEF Steady, Gone, IsDown
  <2>4. \A j \in 1..Depth : Status(stack[j])'
    BY <2>1, <2>3, SteadyFrame DEF AgreeInv
  <2>5. ASSUME NEW j \in 1..Depth' PROVE Status(stack[j])'
    <3>1. CASE j = Depth + 1
      BY <2>1, <3>1 DEF Status
    <3>2. CASE j # Depth + 1
      BY <2>1, <2>4, <3>2
    <3> QED BY <3>1, <3>2
  <2>6. \A s \in Services : Truthful(s)'
    BY <2>1, <2>2 DEF AgreeInv, Truthful, Agree
  <2> QED BY <2>5, <2>6 DEF AgreeInv
<1>3. CASE (\E s \in Services : Request(s)) \/ (\E g \in Gens : UvStep(g)) \/ UNCHANGED vars
  <2>1. UNCHANGED <<server, thread, sock, port, mapped, running, bound, records, stack>>
    BY <1>3 DEF Request, UvStep, UvServe, UvFail, UvExit, vars, object, services, state,
       control
  <2>2. /\ \A g \in Gens : socks'[g] \in {socks[g], "closed"}
        /\ \A g \in Gens : uv[g].started => uv'[g].started
    <3>1. CASE UNCHANGED vars \/ \E s \in Services : Request(s)
      BY <3>1 DEF Request, vars, gateway
    <3>2. ASSUME NEW g \in Gens, UvStep(g)
          PROVE  /\ \A h \in Gens : socks'[h] \in {socks[h], "closed"}
                 /\ \A h \in Gens : uv[h].started => uv'[h].started
      <4>1. uv \in Gateways /\ socks \in [Gens -> Ports \cup {"closed"}]
        BY Here DEF TypeOK, Gateways
      <4> QED BY <3>2, <4>1 DEF UvStep, UvServe, UvFail, UvExit, Gateways
    <3> QED BY <1>3, <3>1, <3>2
  <2>3. /\ DropPending' = DropPending /\ Interrupted' = Interrupted
        /\ \A s : Reporting(s)' = Reporting(s)
    BY <2>1 DEF DropPending, Interrupted, Reporting, Depth
  <2>4. Steady
    BY <2>1, <2>2, <2>3 DEF Steady, Gone, IsDown
  <2>5. (\A j \in 1..Depth : Status(stack[j]))'
    BY <2>1, <2>4, SteadyFrame DEF AgreeInv, Depth
  <2>6. server = NoGen \/ server \in Gens
    BY Here, ConstantsOK DEF Gens
  <2>7. \A s \in Services : Truthful(s)'
    BY <2>1, <2>2, <2>3, <2>6 DEF AgreeInv, Truthful, Agree
  <2> QED BY <2>5, <2>7 DEF AgreeInv
<1> QED BY <1>1, <1>2, <1>3

LEMMA AgreeStep ==
  ASSUME TypeInv, LockInv, StrayInv, ShapeInv, GoneInv, AgreeInv, [Next]_vars PROVE AgreeInv'
<1>1. CASE ~Idle /\ (Passes \/ Ends \/ Fails)
  BY <1>1, PassAgree, EndAgree, FailAgree
<1>2. CASE ~Idle /\ Depth = 1 /\ StartChanges
  BY <1>2, StartAgree
<1>3. CASE ~Idle /\ StopChanges
  BY <1>3, OnStopAgree, SetDownAgree, AsksAgree, CloseAgree, ForgetAgree, DropAgree
     DEF StopChanges
<1>4. CASE \E s \in Services : ResetService(s)
  BY <1>4, ResetServiceAgree
<1> QED BY <1>1, <1>2, <1>3, <1>4, NextSteps, OtherAgree

\* A service runs, or is recorded as up, only behind a server that has come up; and its
\* instance and its record differ only while a frame is about to report the difference,
\* or a stop() is about to drop the record.
THEOREM AgreeInvariant == Spec => []AgreeInv
<1>1. Init => AgreeInv
  BY DEF Init, AgreeInv, Truthful, Agree, Depth
<1>2. TypeInv /\ LockInv /\ StrayInv /\ ShapeInv /\ GoneInv /\ AgreeInv /\ [Next]_vars => AgreeInv'
  BY AgreeStep
<1> QED BY <1>1, <1>2, TypeInvariant, LockInvariant, StrayInvariant, ShapeInvariant,
        GoneInvariant, PTL DEF Spec

\* Between calls, whatever signals interrupted the calls before and however those ended,
\* StateManager and the service instances agree on which services are up.
THEOREM StatusesAgree == Spec => []StatusAgreement
<1>1. AgreeInv => StatusAgreement
  BY DEF AgreeInv, Truthful, StatusAgreement, Agree, Reporting, DropPending, Idle, Depth
<1> QED BY <1>1, AgreeInvariant, PTL

\* Between calls, a service that says it is up is behind a gateway that has come up, and
\* reports the port that gateway listens on.
THEOREM UpMeansServing == Spec => []UpIsServing
<1>1. TypeInv /\ AgreeInv => UpIsServing
  BY Here DEF AgreeInv, Truthful, UpIsServing, TypeOK
<1> QED BY <1>1, TypeInvariant, AgreeInvariant, PTL
-------------------------------------------------------------------------------
(* What stop() and reset() owe their callers.                                 *)

\* start() has bound a socket, and has yet to create the server.
StartingPcs == {"register", "registering", "server"}
Starting    == \E j \in 1..Depth : stack[j].pc \in StartingPcs

\* No server: then nothing is left of the last one, nor of a start() that failed.
DownIsGone ==
  server = NoGen /\ config \subseteq Known => (Gone /\ (Dropped \/ DropPending)) \/ Starting

\* Calls that have returned.
StoppedIsDown ==
  Idle /\ last.ok /\ last.op \in {"stop", "signal"} => server = NoGen

\* _build_app visits no other service than those of the list, and reset() has still to
\* visit whatever holds old data.
Owes(f) ==
  /\ f.pc \in {"register", "registering"} => f.todo \subseteq config
  /\ f.pc = "reset_next" => \A s \in mapped : data[s] = "old" => s \in f.todo

EndInv ==
  /\ DownIsGone /\ StoppedIsDown /\ ResetDelivers
  /\ \A j \in 1..Depth : Owes(stack[j])
\* A call ends in one of two ways.
LEMMA CallEnds ==
  ASSUME TypeInv, ~Idle, [Next]_vars, Idle'
  PROVE  \/ Ends /\ Depth = 1 /\ last' = [op |-> Top.op, ok |-> TRUE]
         \/ Fails /\ ~last'.ok
<1>1. Depth \in Nat \ {0} /\ TypeOK /\ Depth' = 0
  <2>1. TypeOK'
    BY TypeStep DEF TypeInv
  <2>2. Idle' <=> Depth' = 0
    BY <2>1, EmptySeq DEF TypeOK, Idle, Depth
  <2> QED BY <2>2, Here
<1>2. ~(Passes \/ StartChanges \/ StopChanges \/ \E s \in Services : ResetService(s))
  BY <1>1, PassStays, ChangeStays DEF StaysIn, Moves
<1>3. CASE Ends
  BY <1>1, <1>3 DEF Ends, Pops, Return
<1>4. CASE Fails
  BY <1>1, <1>4, RaiseFields DEF Fails
<1>5. ~(CallStart \/ CallStop \/ CallReset)
  BY DEF CallStart, CallStop, CallReset, Call
<1>6. ~Signal
  BY <1>1, NewSignal
<1>7. ~((\E s \in Services : Request(s)) \/ (\E g \in Gens : UvStep(g)) \/ UNCHANGED vars)
  BY <1>1 DEF Request, UvStep, UvServe, UvFail, UvExit, vars, control, Depth
<1> QED BY <1>2, <1>3, <1>4, <1>5, <1>6, <1>7, NextSteps

\* On an idle main thread, only traffic and the gateway threads leave it idle.
LEMMA StaysIdle ==
  ASSUME TypeInv, Idle, [Next]_vars, Idle'
  PROVE  (\E s \in Services : Request(s)) \/ (\E g \in Gens : UvStep(g)) \/ UNCHANGED vars
<1>1. ~(CallStart \/ CallStop \/ CallReset)
  BY NewCall DEF Depth, Idle
<1>2. ~Signal
  BY NewSignal DEF Depth, Idle, TypeInv
<1> QED BY <1>1, <1>2, NextSteps

LEMMA StoppedStep ==
  ASSUME TypeInv, LockInv, ShapeInv, StoppedIsDown, [Next]_vars PROVE StoppedIsDown'
<1> SUFFICES ASSUME Idle', last'.ok, last'.op \in {"stop", "signal"} PROVE server' = NoGen
  BY DEF StoppedIsDown
<1>1. CASE ~Idle
  <2>1. Ends /\ Depth = 1 /\ last' = [op |-> Top.op, ok |-> TRUE]
    BY <1>1, CallEnds
  <2>2. Top = stack[1] /\ Top.op \in {"stop", "signal"} /\ Top \in Frame
    BY <1>1, <2>1, Here
  <2>3. Top.pc \notin StartPcs \cup ResetPcs
    BY <2>1, <2>2 DEF ShapeInv
  <2>4. Top.pc = "dropping" => server = NoGen
    BY <2>1, <2>2 DEF LockInv, NoServerThere, NoServerPcs
  <2>5. server = NoGen
    BY <2>1, <2>3, <2>4 DEF Ends, StartPcs, ResetPcs
  <2> QED BY <2>1, <2>5, NoTablesGone DEF Ends
<1>2. CASE Idle
  <2>1. UNCHANGED <<server, last>>
    BY <1>2, StaysIdle DEF Request, UvStep, UvServe, UvFail, UvExit, vars, control, object
  <2> QED BY <1>2, <2>1 DEF StoppedIsDown
<1> QED BY <1>1, <1>2

LEMMA ResetDeliversStep ==
  ASSUME TypeInv, ShapeInv, ResetDelivers, \A j \in 1..Depth : Owes(stack[j]), [Next]_vars
  PROVE  ResetDelivers'
<1> SUFFICES ASSUME Idle', last' = [op |-> "reset", ok |-> TRUE], NEW s \in mapped'
             PROVE  data'[s] # "old"
  BY DEF ResetDelivers
<1>1. CASE ~Idle
  <2>1. Ends /\ Depth = 1 /\ last' = [op |-> Top.op, ok |-> TRUE]
    BY <1>1, CallEnds
  <2>2. Top = stack[1] /\ Top.op = "reset" /\ Owes(Top)
    BY <1>1, <2>1, Here
  <2>3. Top.pc \in ResetPcs
    BY <2>1, <2>2 DEF ShapeInv
  <2>4. Top.pc = "reset_next" /\ Top.todo = {}
    BY <2>1, <2>3 DEF Ends, ResetPcs
  <2> QED BY <2>1, <2>2, <2>4, NoTablesGone DEF Ends, Owes
<1>2. CASE Idle
  <2>1. last' = last /\ mapped' = mapped
    BY <1>2, StaysIdle DEF Request, UvStep, UvServe, UvFail, UvExit, vars, control, services
  <2>2. data[s] # "old" /\ data \in [Services -> {"none", "old", "new"}] /\ s \in Services
    BY <1>2, <2>1, Here DEF ResetDelivers, TypeOK
  <2>3. data'[s] \in {data[s], "new"}
    <3>1. ASSUME NEW t \in Services, Request(t) PROVE data'[s] \in {data[s], "new"}
      BY <2>2, <3>1 DEF Request
    <3>2. CASE (\E g \in Gens : UvStep(g)) \/ UNCHANGED vars
      BY <3>2 DEF UvStep, UvServe, UvFail, UvExit, vars, services
    <3> QED BY <1>2, <3>1, <3>2, StaysIdle
  <2> QED BY <2>2, <2>3
<1> QED BY <1>1, <1>2
\* A step that gives the frames below nothing more to do.
Pays ==
  /\ config' = config
  /\ \A s \in mapped' : data'[s] = "old" => s \in mapped /\ data[s] = "old"

LEMMA PaysStack ==
  ASSUME TypeInv, EndInv, ~Idle, Pays, NEW q, Moves(q), Owes(Top)'
  PROVE  (\A j \in 1..Depth : Owes(stack[j]))'
<1>1. /\ Depth' = Depth /\ Depth \in Nat \ {0} /\ Top' = stack'[Depth]
      /\ \A j \in 1..Depth : j # Depth => stack'[j] = stack[j]
  BY Here DEF Moves, Top
<1>2. ASSUME NEW j \in 1..Depth PROVE Owes(stack[j])'
  <2>1. CASE j # Depth
    BY <1>1, <2>1 DEF EndInv, Owes, Pays
  <2>2. CASE j = Depth
    <3>1. stack'[j] = Top'
      BY <1>1, <2>2
    <3> QED BY <3>1 DEF Owes
  <2> QED BY <2>1, <2>2
<1> QED BY <1>1, <1>2

LEMMA NoTablesPays == ASSUME NoTables PROVE Pays
BY NoTablesGone DEF Pays

LEMMA PassOwes ==
  ASSUME TypeInv, EndInv, ~Idle, Passes PROVE (\A j \in 1..Depth : Owes(stack[j]))'
<1>1. PICK q : Moves(q)
  BY DEF Passes, Keeps, Fields
<1>2. Owes(Top) /\ Top' = stack'[Depth]
  BY <1>1, Here DEF EndInv, Moves, Top
<1>3. UNCHANGED <<mapped, data, config>>
  BY NoTablesGone DEF Passes
<1>4. Owes(Top)'
  BY <1>2, <1>3 DEF Passes, Keeps, Fields, Moves, Owes
<1> QED BY <1>1, <1>4, PaysStack, NoTablesPays DEF Passes

LEMMA LeaveOwes ==
  ASSUME TypeInv, EndInv, ~Idle, Ends \/ Fails PROVE (\A j \in 1..Depth : Owes(stack[j]))'
<1>1. /\ Depth \in Nat \ {0} /\ Depth' \in 0..(Depth - 1)
      /\ \A j \in 1..Depth' : stack'[j] = stack[j] \/ stack'[j].pc = "closed"
  BY Here DEF Ends, Pops, Fails, Unwound
<1>2. Pays
  BY NoTablesPays DEF Ends, Fails
<1>3. ASSUME NEW j \in 1..Depth' PROVE Owes(stack[j])'
  BY <1>1, <1>2 DEF EndInv, Owes, Pays
<1> QED BY <1>3

LEMMA ChangePays ==
  ASSUME TypeInv, StartChanges \/ StopChanges \/ \E s \in Services : ResetService(s)
  PROVE  Pays
<1>1. /\ data \in [Services -> {"none", "old", "new"}] /\ mapped \subseteq Services
  BY Here DEF TypeOK
<1>2. ASSUME UNCHANGED <<mapped, data, config>> PROVE Pays
  BY <1>2 DEF Pays
<1>3. CASE Bind \/ Registered \/ AssignServer \/ AssignThread \/ Spawn
  BY <1>2, <1>3 DEF Bind, Registered, AssignServer, AssignThread, Spawn, services, process
<1>4. CASE \E s \in Services : Register(s)
  BY <1>1, <1>4 DEF Register, Pays, process
<1>5. CASE OnStart \/ (\E s \in Services : BindPort(s) \/ OnStop(s))
  BY <1>2, <1>5 DEF OnStart, BindPort, OnStop, process
<1>6. CASE \E p, status, q : Reports(p, status, q)
  BY <1>2, <1>6 DEF Reports, services
<1>7. CASE Asks \/ CloseSocket \/ Drop
  BY <1>2, <1>7 DEF Asks, CloseSocket, Drop, services, process
<1>8. CASE Forget
  BY <1>8 DEF Forget, Pays, process
<1>9. CASE \E s \in Services : ResetService(s)
  BY <1>1, <1>9 DEF ResetService, Pays, process
<1> QED BY <1>3, <1>4, <1>5, <1>6, <1>7, <1>8, <1>9 DEF StartChanges, StopChanges

LEMMA ChangeOwes ==
  ASSUME TypeInv, EndInv, ~Idle,
         StartChanges \/ StopChanges \/ \E s \in Services : ResetService(s)
  PROVE  (\A j \in 1..Depth : Owes(stack[j]))'
<1>1. PICK q : StaysIn(q)
  BY ChangeStays DEF TypeInv
<1>2. TypeOK /\ Owes(Top) /\ Top' = stack'[Depth] /\ config' = config
  BY <1>1, Here, ChangePays DEF EndInv, StaysIn, Moves, Top, Pays
<1>3. Owes(Top)'
  <2>1. CASE Bind
    BY <1>2, <2>1, ChangeFields DEF Fields, Moves, Owes
  <2>2. CASE \E s \in Services : Register(s)
    BY <1>2, <2>2, ChangeFields DEF Register, At, Fields, Moves, Owes
  <2>3. CASE Registered
    BY <1>2, <2>3, ChangeFields DEF Registered, At, Fields, Moves, Owes
  <2>4. CASE AssignServer \/ AssignThread \/ Spawn \/ OnStart \/ CloseSocket \/ Forget \/ Drop
    BY <1>2, <2>4, ChangeFields DEF Keeps, Fields, Moves, Owes
  <2>5. CASE \E s \in Services : BindPort(s) \/ OnStop(s)
    BY <1>2, <2>5, ChangeFields DEF Fields, Moves, Owes
  <2>6. CASE Reports("warm_status", "up", "warm_next") \/ Reports("down_status", "down", "down_next")
    BY <1>2, <2>6 DEF Reports, Fields, Moves, Owes
  <2>7. CASE Asks
    BY <1>2, <2>7 DEF Asks, Keeps, Fields, Moves, Owes
  <2>8. ASSUME NEW s \in Services, ResetService(s) PROVE Owes(Top)'
    <3>1. /\ Top.pc = "reset_next" /\ data' = [data EXCEPT ![s] = "none"] /\ mapped' = mapped
          /\ Fields("reset_next", Top.todo \ {s}, Top.view, Top.cur, Top.target)
      BY <1>2, <2>8, ChangeFields DEF ResetService, At
    <3>2. \A t \in mapped : data'[t] = "old" => t # s /\ data[t] = "old"
      BY <1>2, <3>1 DEF TypeOK
    <3> QED BY <1>2, <3>1, <3>2 DEF Fields, Moves, Owes
  <2> QED BY <2>1, <2>2, <2>3, <2>4, <2>5, <2>6, <2>7, <2>8 DEF StartChanges, StopChanges
<1> QED BY <1>1, <1>3, ChangePays, PaysStack DEF StaysIn

LEMMA OtherOwes ==
  ASSUME TypeInv, EndInv,
         \/ CallStart \/ CallStop \/ CallReset \/ Signal
         \/ (\E s \in Services : Request(s)) \/ (\E g \in Gens : UvStep(g))
         \/ UNCHANGED vars
  PROVE  (\A j \in 1..Depth : Owes(stack[j]))'
<1>1. CASE CallStart \/ CallStop \/ CallReset
  BY <1>1, NewCall DEF NewFrame, Owes
<1>2. CASE Signal
  <2>1. /\ Depth \in Nat /\ Depth' = Depth + 1
        /\ \A j \in 1..Depth : stack'[j] = stack[j]
        /\ stack'[Depth + 1].pc = "check"
        /\ UNCHANGED <<mapped, data, config>>
    BY <1>2, Here, NewSignal DEF NewFrame, services
  <2>2. ASSUME NEW j \in 1..Depth' PROVE Owes(stack[j])'
    <3>1. CASE j = Depth + 1
      BY <2>1, <3>1 DEF Owes
    <3>2. CASE j # Depth + 1
      BY <2>1, <3>2 DEF EndInv, Owes
    <3> QED BY <3>1, <3>2
  <2> QED BY <2>2
<1>3. CASE (\E s \in Services : Request(s)) \/ (\E g \in Gens : UvStep(g)) \/ UNCHANGED vars
  <2>1. UNCHANGED <<mapped, config, stack>>
    BY <1>3 DEF Request, UvStep, UvServe, UvFail, UvExit, vars, services, control, process
  <2>2. \A s \in mapped : data'[s] \in {data[s], "new"}
    <3>1. ASSUME NEW t \in Services, Request(t)
          PROVE  \A s \in mapped : data'[s] \in {data[s], "new"}
      BY <3>1, Here DEF Request, TypeOK
    <3>2. CASE (\E g \in Gens : UvStep(g)) \/ UNCHANGED vars
      BY <3>2 DEF UvStep, UvServe, UvFail, UvExit, vars, services
    <3> QED BY <1>3, <3>1, <3>2
  <2> QED BY <2>1, <2>2 DEF EndInv, Owes, Depth
<1> QED BY <1>1, <1>2, <1>3
\* A step that spares what is gone, and lets no start() go on.
LEMMA SparesDown ==
  ASSUME DownIsGone, Spares, config' = config, Starting => Starting' PROVE DownIsGone'
BY DEF DownIsGone, Spares

LEMMA LeaveDown ==
  ASSUME TypeInv, LockInv, ShapeInv, GoneInv, EndInv, ~Idle, Ends \/ Fails PROVE DownIsGone'
<1>1. Spares /\ config' = config
  BY EndGone, FailGone, NoTablesGone DEF Ends, Fails
<1>2. CASE Ends
  <2>1. /\ Depth' = Depth - 1 /\ stack[Depth].pc \notin StartingPcs
        /\ \A j \in 1..(Depth - 1) : stack'[j] = stack[j]
    BY <1>2, Here DEF Ends, Pops, StartingPcs
  <2>2. Starting => Starting'
    BY <2>1, Here DEF Starting
  <2> QED BY <1>1, <2>2, SparesDown DEF EndInv
<1>3. CASE Fails
  <2>1. Starting => Top.pc = "register" /\ ~(Top.todo \subseteq Known)
    <3>1. ASSUME NEW j \in 1..Depth, stack[j].pc \in StartingPcs PROVE stack[j] = Top
      BY <1>3, <3>1, Here DEF ShapeInv, Fails, StartingPcs, NoServerPcs
    <3> QED BY <1>3, <3>1 DEF Starting, StartingPcs, Fails
  <2>2. Top.pc = "register" => Top.todo \subseteq config
    BY Here DEF EndInv, Owes
  <2>3. Starting => ~(config \subseteq Known)
    BY <2>1, <2>2
  <2> QED BY <1>1, <2>3 DEF EndInv, DownIsGone, Spares
<1> QED BY <1>2, <1>3

LEMMA StayDown ==
  ASSUME TypeInv, LockInv, ShapeInv, GoneInv, EndInv, ~Idle,
         Passes \/ StopChanges \/ \E s \in Services : ResetService(s)
  PROVE  DownIsGone'
<1>1. PICK q : StaysIn(q)
  BY PassStays, ChangeStays DEF TypeInv
<1>2. /\ Depth \in Nat \ {0} /\ Depth' = Depth /\ Top = stack[Depth]
      /\ stack'[Depth].pc = q
      /\ \A j \in 1..Depth : j # Depth => stack'[j] = stack[j]
  BY <1>1, Here DEF StaysIn, Moves
<1>3. CASE Forget
  <2>1. Gone' /\ stack'[Depth].pc = "drop"
    BY <1>3, ForgetGone, ChangeFields, Here DEF Keeps, Fields, Moves
  <2>2. DropPending'
    BY <1>2, <2>1 DEF DropPending
  <2> QED BY <2>1, <2>2 DEF DownIsGone
<1>4. CASE Passes \/ (StopChanges /\ ~Forget) \/ \E s \in Services : ResetService(s)
  <2>1. Spares
    BY <1>4, PassGone, OnStopGone, ReportGone, AsksGone, CloseGone, DropGone, ResetServiceGone
       DEF StopChanges
  <2>2. config' = config
    BY <1>4, NoTablesPays, ChangePays DEF Passes, Pays
  <2>3. Top.pc \in StartingPcs => q \in StartingPcs
    <3>1. CASE Passes
      BY <3>1, <1>2 DEF Passes, Keeps, Fields, Moves, StartingPcs
    <3>2. CASE StopChanges \/ \E s \in Services : ResetService(s)
      BY <3>2 DEF StopChanges, OnStop, Reports, Asks, CloseSocket, Forget, Drop, ResetService,
         At, StartingPcs
    <3> QED BY <1>4, <3>1, <3>2
  <2>4. Starting => Starting'
    BY <1>2, <2>3 DEF Starting
  <2> QED BY <2>1, <2>2, <2>4, SparesDown DEF EndInv
<1> QED BY <1>3, <1>4

LEMMA StartDown ==
  ASSUME TypeInv, LockInv, StrayInv, ShapeInv, GoneInv, EndInv, ~Idle, Depth = 1, StartChanges
  PROVE  DownIsGone'
<1>1. TypeOK /\ Top = stack[1] /\ config' = config
  BY Here, ChangePays DEF Pays
<1>2. PICK q \in Pcs : StaysIn(q)
  BY <1>1, ChangeStays
<1>3. Depth' = 1 /\ stack'[1].pc = q
  BY <1>2 DEF StaysIn, Moves
<1>4. CASE q \in StartingPcs
  BY <1>3, <1>4 DEF DownIsGone, Starting
<1>5. CASE AssignServer
  <2>1. gen # 0
    BY <1>1, <1>5 DEF AssignServer, At, StrayInv, ExitAsked, StartPcs
  <2> QED BY <1>5, <2>1 DEF AssignServer, DownIsGone
<1>6. CASE q \notin StartingPcs /\ ~AssignServer
  <2>1. \/ AssignThread \/ Spawn \/ (\E s \in Services : BindPort(s)) \/ OnStart
        \/ Reports("warm_status", "up", "warm_next")
    BY <1>1, <1>3, <1>6, ChangeFields DEF StartChanges, Fields, Moves, StartingPcs
  <2>2. Top.pc \in {"thread", "spawn", "warm_next", "warm_start", "warm_status"}
    BY <2>1 DEF AssignThread, Spawn, BindPort, OnStart, Reports, At
  <2>3. ~Starting /\ ~DropPending
    BY <1>1, <2>2 DEF Starting, StartingPcs, DropPending
  <2>4. CASE Reports("warm_status", "up", "warm_next")
    <3>1. Spares
      BY <2>4, ReportGone
    <3> QED BY <1>1, <2>3, <3>1, SparesDown DEF EndInv
  <2>5. CASE AssignThread \/ Spawn \/ (\E s \in Services : BindPort(s)) \/ OnStart
    <3>1. UNCHANGED <<server, sock, port, mapped, records, socks>>
      BY <2>5 DEF AssignThread, Spawn, BindPort, OnStart, object, services, state, gateway
    <3>2. (\A s \in Services : ~running[s]) /\ mapped = {} => \A s \in Services : ~running'[s]
      BY <1>1, <2>5 DEF AssignThread, Spawn, BindPort, OnStart, TypeOK, services
    <3>3. (Gone => Gone') /\ (Dropped => Dropped')
      BY <3>1, <3>2 DEF Gone, Dropped
    <3> QED BY <1>1, <2>3, <3>1, <3>3 DEF EndInv, DownIsGone
  <2> QED BY <2>1, <2>4, <2>5
<1> QED BY <1>4, <1>5, <1>6

LEMMA OtherDown ==
  ASSUME TypeInv, EndInv,
         \/ CallStart \/ CallStop \/ CallReset \/ Signal
         \/ (\E s \in Services : Request(s)) \/ (\E g \in Gens : UvStep(g))
         \/ UNCHANGED vars
  PROVE  DownIsGone'
<1>1. /\ UNCHANGED <<server, sock, port, mapped, running, records, config>>
      /\ \A g \in Gens : socks[g] = "closed" => socks'[g] = "closed"
  <2>1. CASE CallStart \/ CallStop \/ CallReset
    BY <2>1, NewCall DEF object, gateway
  <2>2. CASE Signal
    BY <2>2, NewSignal DEF TypeInv, object, services, gateway
  <2>3. CASE (\E s \in Services : Request(s)) \/ UNCHANGED vars
    BY <2>3 DEF Request, vars, object, services, state, gateway, control, process
  <2>4. ASSUME NEW g \in Gens, UvStep(g)
        PROVE  /\ UNCHANGED <<server, sock, port, mapped, running, records, config>>
               /\ \A h \in Gens : socks[h] = "closed" => socks'[h] = "closed"
    BY <2>4, Here DEF UvStep, UvServe, UvFail, UvExit, TypeOK, object, services, state,
       control, process
  <2> QED BY <2>1, <2>2, <2>3, <2>4
<1>2. (Gone => Gone') /\ Dropped' = Dropped
  BY <1>1 DEF Gone, Dropped
<1>3. (DropPending => DropPending') /\ (Starting => Starting')
  <2>1. CASE CallStart \/ CallStop \/ CallReset
    BY <2>1, NewCall DEF DropPending, Starting
  <2>2. CASE Signal
    BY <2>2, NewSignal DEF TypeInv, DropPending, Starting
  <2>3. CASE (\E s \in Services : Request(s)) \/ (\E g \in Gens : UvStep(g)) \/ UNCHANGED vars
    <3>1. stack' = stack
      BY <2>3 DEF Request, UvStep, UvServe, UvFail, UvExit, vars, control
    <3> QED BY <3>1 DEF DropPending, Starting, Depth
  <2> QED BY <2>1, <2>2, <2>3
<1> QED BY <1>1, <1>2, <1>3 DEF EndInv, DownIsGone

LEMMA EndStep ==
  ASSUME TypeInv, LockInv, StrayInv, ShapeInv, GoneInv, EndInv, [Next]_vars PROVE EndInv'
<1>1. StoppedIsDown' /\ ResetDelivers'
  BY StoppedStep, ResetDeliversStep DEF EndInv
<1>2. (\A j \in 1..Depth : Owes(stack[j]))'
  BY PassOwes, LeaveOwes, ChangeOwes, OtherOwes, NextSteps
<1>3. DownIsGone'
  BY LeaveDown, StayDown, StartDown, OtherDown, NextSteps
<1> QED BY <1>1, <1>2, <1>3 DEF EndInv

\* Without a server nothing is left of the last one, once the records are dropped; and
\* calls leave no work of theirs undone.
THEOREM EndInvariant == Spec => []EndInv
<1>1. Init => EndInv
  BY DEF Init, EndInv, DownIsGone, StoppedIsDown, ResetDelivers, Gone, Dropped, Depth, NoServer
<1>2. TypeInv /\ LockInv /\ StrayInv /\ ShapeInv /\ GoneInv /\ EndInv /\ [Next]_vars => EndInv'
  BY EndStep
<1> QED BY <1>1, <1>2, TypeInvariant, LockInvariant, StrayInvariant, ShapeInvariant,
        GoneInvariant, PTL DEF Spec

\* When reset() returns normally, what the services hold came in while it ran, or later.
THEOREM ResetClears == Spec => []ResetDelivers
<1>1. EndInv => ResetDelivers
  BY DEF EndInv
<1> QED BY <1>1, EndInvariant, PTL

\* When stop() returns normally, to its caller or out of the signal handler, and whatever
\* it interrupted or was interrupted by, no socket, port, service or record is left.
THEOREM StopLeavesNothing == Spec => []StopCleans
<1>1. EndInv => StopCleans
  <2> SUFFICES ASSUME EndInv, Idle, last \in [op : {"stop", "signal"}, ok : {TRUE}],
                      config \subseteq Known
               PROVE  /\ server = NoGen /\ sock = NoGen /\ port = "none"
                      /\ \A g \in Gens : socks[g] = "closed"
                      /\ mapped = {}
                      /\ \A s \in Services : records[s] = "absent"
    BY DEF StopCleans
  <2>1. server = NoGen
    BY DEF EndInv, StoppedIsDown
  <2>2. ~DropPending /\ ~Starting
    BY DEF DropPending, Starting, Idle, Depth
  <2>3. Gone /\ Dropped
    BY <2>1, <2>2 DEF EndInv, DownIsGone
  <2> QED BY <2>3 DEF Gone, Dropped
<1> QED BY <1>1, EndInvariant, PTL
-------------------------------------------------------------------------------
(* What calls deliver as long as no signal comes.                             *)

\* The service is up, on the port of the gateway.
Up(s) == records[s] = "up" /\ running[s] /\ bound[s] = port

\* The newest start() holds an open socket, and its gateway has not been asked to exit.
Bound == gen \in Gens /\ sock = gen /\ port \in Ports /\ socks[gen] = port /\ ~uv[gen].exit

\* What the only frame may rely on.
Alone(f) ==
  /\ f.pc \in {"down", "down_next", "down_status", "exit", "join"} => server # NoGen
  /\ f.pc \in StartPcs \ {"bind"} => Bound
  /\ f.pc \in {"register", "registering"} => config \subseteq mapped \cup f.todo
  /\ f.pc = "registering" => f.cur \in mapped
  /\ f.pc \in StartPcs \ {"bind", "register", "registering"} => mapped = config
  /\ f.pc \in StartPcs \ ({"bind"} \cup StartingPcs) => server = gen
  /\ f.pc \in {"warm_next", "warm_start", "warm_status"} => \A s \in mapped \ f.todo : Up(s)

Started == Bound /\ server = gen /\ mapped = config /\ \A s \in mapped : Up(s)

Undisturbed ==
  /\ Depth <= 1
  /\ ~Idle => Alone(Top)
  /\ Idle /\ last = [op |-> "start", ok |-> TRUE] => Started
  /\ Idle /\ last = [op |-> "stop", ok |-> FALSE] => Unjoinable

AloneInv ==
  /\ mapped \subseteq config /\ server <= gen
  /\ \A g \in Gens : g > gen => ~uv[g].exit
  /\ signals = 0 => Undisturbed
LEMMA CountsStep ==
  ASSUME TypeInv, EndInv, AloneInv, [Next]_vars
  PROVE  /\ mapped' \subseteq config' /\ server' <= gen'
         /\ \A g \in Gens : g > gen' => ~uv'[g].exit
<1>1. /\ gen \in Nat /\ server \in Nat /\ uv \in Gateways
      /\ mapped \subseteq config /\ server <= gen
      /\ \A g \in Gens : g > gen => ~uv[g].exit
  BY Here, ConstantsOK DEF AloneInv, TypeOK, Gateways
<1>2. ASSUME UNCHANGED <<mapped, config, server, gen>>, \A g \in Gens : uv'[g].exit => uv[g].exit
      PROVE  /\ mapped' \subseteq config' /\ server' <= gen'
             /\ \A g \in Gens : g > gen' => ~uv'[g].exit
  BY <1>1, <1>2
<1>3. CASE NoTables
  BY <1>2, <1>3, NoTablesGone
<1>4. CASE ~Idle /\ Depth = 1 /\ StartChanges
  <2>1. CASE Bind
    BY <1>1, <2>1 DEF Bind, services, process, Gens
  <2>2. ASSUME NEW s \in Services, Register(s)
        PROVE  mapped' \subseteq config' /\ UNCHANGED <<server, gen, uv>>
    <3>1. Top.pc = "register" /\ Top.todo \subseteq config
      BY <1>4, <2>2, Here DEF Register, At, EndInv, Owes
    <3> QED BY <1>1, <2>2, <3>1 DEF Register, object, gateway, process
  <2>3. CASE AssignServer
    BY <1>1, <2>3 DEF AssignServer, services, gateway, process
  <2>4. CASE AssignThread \/ Spawn
    BY <1>1, <1>2, <2>4 DEF AssignThread, Spawn, Gateways, object, services, process
  <2>5. CASE Registered \/ OnStart \/ \E s \in Services : BindPort(s)
    BY <1>2, <2>5 DEF Registered, OnStart, BindPort, object, services, gateway, process
  <2>6. CASE Reports("warm_status", "up", "warm_next")
    BY <1>2, <2>6 DEF Reports, object, services, gateway
  <2> QED BY <1>1, <1>4, <2>1, <2>2, <2>3, <2>4, <2>5, <2>6 DEF StartChanges
<1>5. CASE StopChanges
  <2>1. CASE Asks
    BY <1>1, <2>1 DEF Asks, object, services, Gateways
  <2>2. CASE Forget
    BY <1>1, <2>2 DEF Forget, gateway, process
  <2>3. CASE CloseSocket \/ Drop \/ \E s \in Services : OnStop(s)
    BY <1>2, <2>3 DEF CloseSocket, Drop, OnStop, object, services, gateway, process
  <2>4. CASE Reports("down_status", "down", "down_next")
    BY <1>2, <2>4 DEF Reports, object, services, gateway
  <2> QED BY <1>5, <2>1, <2>2, <2>3, <2>4 DEF StopChanges
<1>6. CASE (\E s \in Services : ResetService(s) \/ Request(s)) \/ UNCHANGED vars
  BY <1>2, <1>6 DEF ResetService, Request, vars, object, services, gateway, process, control
<1>7. CASE CallStart \/ CallStop \/ CallReset \/ Signal
  BY <1>2, <1>7, NewCall, NewSignal DEF TypeInv, object, services, gateway
<1>8. ASSUME NEW g \in Gens, UvStep(g)
      PROVE  /\ UNCHANGED <<mapped, config, server, gen>>
             /\ \A h \in Gens : uv'[h].exit => uv[h].exit
  BY <1>1, <1>8 DEF UvStep, UvServe, UvFail, UvExit, Gateways, object, services, control, process
<1> QED BY <1>2, <1>3, <1>4, <1>5, <1>6, <1>7, <1>8, NextSteps DEF Passes, Ends, Fails

\* No signal has come, and none comes now.
LEMMA StillUndisturbed ==
  ASSUME TypeInv, AloneInv, [Next]_vars, signals' = 0
  PROVE  Undisturbed /\ ~Signal
<1>1. signals \in Nat
  BY ConstantsOK DEF TypeInv, TypeOK
<1>2. ~Signal
  BY <1>1 DEF Signal
<1>3. signals' = signals
  <2>1. CASE ~Idle /\ (Passes \/ Ends \/ Fails)
    BY <2>1, NoTablesGone DEF Passes, Ends, Fails
  <2>2. CASE StartChanges \/ StopChanges \/ \E s \in Services : ResetService(s) \/ Request(s)
    BY <2>2 DEF StartChanges, StopChanges, Bind, Register, Registered, AssignServer,
       AssignThread, Spawn, BindPort, OnStart, Reports, OnStop, Asks, CloseSocket, Forget, Drop,
       ResetService, Request, control, process
  <2>3. CASE CallStart \/ CallStop \/ CallReset
    BY <2>3, NewCall
  <2>4. CASE (\E g \in Gens : UvStep(g)) \/ UNCHANGED vars
    BY <2>4 DEF UvStep, UvServe, UvFail, UvExit, vars, control, process
  <2> QED BY <1>2, <2>1, <2>2, <2>3, <2>4, NextSteps
<1> QED BY <1>2, <1>3 DEF AloneInv

LEMMA BoundKept ==
  ASSUME Bound, UNCHANGED <<gen, sock, port>>, socks'[gen] = socks[gen],
         uv'[gen].exit = uv[gen].exit
  PROVE  Bound'
BY DEF Bound

LEMMA NoTablesBound == ASSUME NoTables PROVE Bound' = Bound /\ \A s : Up(s)' = Up(s)
BY DEF NoTables, tables, object, services, gateway, Bound, Up

\* A gateway thread that was not asked to exit keeps its socket.
LEMMA UvBound ==
  ASSUME TypeInv, NEW g \in Gens, UvStep(g)
  PROVE  /\ Bound => Bound'
         /\ UNCHANGED <<object, services, state, gen, control>>
<1>1. uv \in Gateways /\ socks \in [Gens -> Ports \cup {"closed"}]
  BY Here DEF TypeOK, Gateways
<1>2. UNCHANGED <<object, services, state, gen, control>>
  BY DEF UvStep, UvServe, UvFail, UvExit
<1>3. /\ \A h \in Gens : uv'[h].exit = uv[h].exit
      /\ \A h \in Gens : ~uv[h].exit => socks'[h] = socks[h]
  BY <1>1 DEF UvStep, UvServe, UvFail, UvExit, Gateways
<1> QED BY <1>2, <1>3 DEF Bound, object
\* A start() that is alone.
LEMMA StartAlone ==
  ASSUME TypeInv, LockInv, StrayInv, ShapeInv, GoneInv, AgreeInv, EndInv, AloneInv, Undisturbed,
         ~Idle, Depth = 1, StartChanges
  PROVE  Alone(Top)'
<1> USE DEF StartPcs, StartingPcs
<1>1. /\ TypeOK /\ Top = stack[1] /\ Alone(Top) /\ Relies(Top) /\ Status(Top) /\ Owes(Top)
      /\ mapped \subseteq Services /\ mapped \subseteq config /\ gen \in 0..MaxStarts
      /\ uv \in Gateways
  BY Here DEF Undisturbed, GoneInv, AgreeInv, EndInv, AloneInv, TypeOK, Gateways
<1>2. CASE Bind
  <2>1. /\ Moves("register") /\ Top'.todo = config /\ config' = config /\ Top'.pc = "register"
    BY <1>1, <1>2, ChangeFields, OneFrame DEF Bind, Fields, Moves, process
  <2>2. gen' = gen + 1 /\ gen' \in Gens /\ sock' = gen'
    <3>1. gen < MaxStarts
      BY <1>1, <1>2 DEF Bind, At, TypeInv, StartLeft
    <3> QED BY <1>1, <1>2, <3>1, ConstantsOK DEF Bind, Gens
  <2>3. port' \in Ports /\ socks'[gen'] = port'
    BY <1>2, <2>2 DEF Bind
  <2>4. ~uv'[gen'].exit
    BY <1>1, <1>2, <2>2 DEF Bind, AloneInv
  <2>5. Bound'
    BY <2>2, <2>3, <2>4 DEF Bound
  <2> QED BY <2>1, <2>5 DEF Alone
<1>3. ASSUME NEW s \in Services, Register(s) PROVE Alone(Top)'
  <2>1. /\ Top.pc = "register" /\ mapped' = mapped \cup {s} /\ UNCHANGED <<object, gateway, config>>
        /\ Top'.pc = "registering" /\ Top'.todo = Top.todo /\ Top'.cur = s
    BY <1>1, <1>3, ChangeFields, OneFrame DEF Register, At, Fields, Moves, process
  <2>2. Bound'
    BY <1>1, <2>1, BoundKept DEF Alone, object, gateway
  <2> QED BY <1>1, <2>1, <2>2 DEF Alone
<1>4. CASE Registered
  <2>1. /\ Top.pc = "registering" /\ UNCHANGED <<object, services, gateway, config>>
        /\ Top'.pc = "register" /\ Top'.todo = Top.todo \ {Top.cur}
    BY <1>1, <1>4, ChangeFields, OneFrame DEF Registered, At, Fields, Moves, process
  <2>2. Bound'
    BY <1>1, <2>1, BoundKept DEF Alone, object, gateway
  <2> QED BY <1>1, <2>1, <2>2 DEF Alone, services
<1>5. CASE AssignServer
  <2>1. /\ Top.pc = "server" /\ UNCHANGED <<sock, port, services, gateway, config>>
        /\ Top'.pc = "thread" /\ server' = gen /\ gen' = gen
    BY <1>1, <1>5, ChangeFields, OneFrame DEF AssignServer, At, Keeps, Fields, Moves, process, gateway
  <2>2. Bound'
    BY <1>1, <2>1, BoundKept DEF Alone, gateway
  <2> QED BY <1>1, <2>1, <2>2 DEF Alone, services
<1>6. CASE AssignThread \/ Spawn
  <2>1. /\ Top.pc \in {"thread", "spawn"} /\ Top'.pc \in {"spawn", "poll"}
        /\ UNCHANGED <<server, sock, port, services, socks, gen, config>>
        /\ uv'[gen].exit = uv[gen].exit
    BY <1>1, <1>6, ChangeFields, OneFrame DEF AssignThread, Spawn, At, Keeps, Fields, Moves,
       process, object, Gateways
  <2>2. Bound'
    BY <1>1, <2>1, BoundKept DEF Alone
  <2> QED BY <1>1, <2>1, <2>2 DEF Alone, services
<1>7. ASSUME NEW s \in Services, BindPort(s) PROVE Alone(Top)'
  <2>1. /\ Top.pc = "warm_next" /\ s \in Top.todo /\ bound' = [bound EXCEPT ![s] = port]
        /\ UNCHANGED <<object, mapped, running, records, gateway, config>>
        /\ Top'.pc = "warm_start" /\ Top'.todo = Top.todo
    BY <1>1, <1>7, ChangeFields, OneFrame DEF BindPort, At, Fields, Moves, process, state
  <2>2. Bound'
    BY <1>1, <2>1, BoundKept DEF Alone, object, gateway
  <2>3. \A t \in mapped' \ Top'.todo : Up(t)'
    BY <1>1, <2>1 DEF Alone, Up, object
  <2> QED BY <1>1, <2>1, <2>2, <2>3 DEF Alone, object, gateway
<1>8. CASE OnStart
  <2>1. /\ Top.pc = "warm_start" /\ running' = [running EXCEPT ![Top.cur] = Top.cur \in mapped]
        /\ UNCHANGED <<object, mapped, bound, records, gateway, config>>
        /\ Top'.pc = "warm_status" /\ Top'.todo = Top.todo
    BY <1>1, <1>8, ChangeFields, OneFrame DEF OnStart, At, Keeps, Fields, Moves, process, state
  <2>2. Bound'
    BY <1>1, <2>1, BoundKept DEF Alone, object, gateway
  <2>3. \A t \in mapped : running'[t] <=> IF t = Top.cur THEN TRUE ELSE running[t]
    BY <1>1, <2>1 DEF TypeOK
  <2>4. \A t \in mapped' \ Top'.todo : Up(t)'
    BY <1>1, <2>1, <2>3 DEF Alone, Up, object
  <2> QED BY <1>1, <2>1, <2>2, <2>4 DEF Alone, object, gateway
<1>9. CASE Reports("warm_status", "up", "warm_next")
  <2>1. /\ Top.pc = "warm_status" /\ records' = [records EXCEPT ![Top.cur] = "up"]
        /\ UNCHANGED <<object, services, gateway, config>>
        /\ Top'.pc = "warm_next" /\ Top'.todo = Top.todo \ {Top.cur}
    BY <1>1, <1>9, OneFrame DEF Reports, Fields, Moves
  <2>2. Bound'
    BY <1>1, <2>1, BoundKept DEF Alone, object, gateway
  <2>3. ~Gone /\ ~Interrupted /\ Top.cur \in Services
    BY <1>1, <2>1 DEF Alone, Bound, Gone, Gens, Interrupted, Relies, CurPcs
  <2>4. running[Top.cur] /\ bound[Top.cur] = port
    BY <1>1, <2>1, <2>3 DEF Status
  <2>5. \A t \in Services : records'[t] = IF t = Top.cur THEN "up" ELSE records[t]
    BY <1>1, <2>1 DEF TypeOK
  <2>6. \A t \in mapped' \ Top'.todo : Up(t)'
    BY <1>1, <2>1, <2>4, <2>5 DEF Alone, Up, object, services
  <2> QED BY <1>1, <2>1, <2>2, <2>6 DEF Alone, object, services, gateway
<1> QED BY <1>2, <1>3, <1>4, <1>5, <1>6, <1>7, <1>8, <1>9 DEF StartChanges

LEMMA PassAlone ==
  ASSUME TypeInv, EndInv, AloneInv, Undisturbed, ~Idle, Depth = 1, Passes PROVE Alone(Top)'
<1>1. /\ Top = stack[1] /\ Alone(Top)
      /\ mapped \subseteq config
      /\ UNCHANGED <<server, gen, mapped, config>> /\ Bound' = Bound /\ \A s : Up(s)' = Up(s)
  BY Here, NoTablesGone, NoTablesBound DEF Undisturbed, AloneInv, Passes
<1>2. PICK q \in Pcs : StaysIn(q)
  BY PassStays
<1>3. Top' = stack'[1] /\ Depth' = 1
  BY <1>2 DEF StaysIn, Moves, Top
<1> QED BY <1>1, <1>3 DEF Passes, Keeps, Fields, Moves, Alone, StartPcs, StartingPcs

\* stop() or reset() alone.
LEMMA StopAlone ==
  ASSUME TypeInv, AloneInv, Undisturbed, ~Idle, Depth = 1,
         StopChanges \/ \E s \in Services : ResetService(s)
  PROVE  Alone(Top)'
<1>1. TypeOK /\ Top = stack[1] /\ Alone(Top)
  BY Here DEF Undisturbed
<1>2. ASSUME NEW q \in {"down_next", "down_status", "join"}, server # NoGen, server' = server,
             Moves(q)
      PROVE  Alone(Top)'
  BY <1>2, OneFrame DEF Moves, Alone, StartPcs
<1>3. ASSUME NEW q \in {"sock", "closed", "drop", "dropping", "reset_next"}, Moves(q)
      PROVE  Alone(Top)'
  BY <1>3, OneFrame DEF Moves, Alone, StartPcs
<1>4. CASE \E s \in Services : OnStop(s)
  BY <1>1, <1>2, <1>4, ChangeFields DEF OnStop, At, Fields, object, Alone
<1>5. CASE Reports("down_status", "down", "down_next")
  BY <1>1, <1>2, <1>5 DEF Reports, Fields, object, Alone
<1>6. CASE Asks
  BY <1>2, <1>3, <1>6 DEF Asks, Keeps, Fields, object
<1>7. CASE CloseSocket \/ Forget \/ Drop
  BY <1>1, <1>3, <1>7, ChangeFields DEF Keeps, Fields
<1>8. CASE \E s \in Services : ResetService(s)
  BY <1>1, <1>3, <1>8, ChangeFields DEF Fields
<1> QED BY <1>4, <1>5, <1>6, <1>7, <1>8 DEF StopChanges

LEMMA OtherAlone ==
  ASSUME TypeInv, Undisturbed,
         \/ CallStart \/ CallStop \/ CallReset
         \/ (\E s \in Services : Request(s)) \/ (\E g \in Gens : UvStep(g))
         \/ UNCHANGED vars,
         ~Idle'
  PROVE  Alone(Top)'
<1>1. CASE CallStart \/ CallStop \/ CallReset
  <2>1. Top'.pc \in {"bind", "check", "reset"}
    BY <1>1, NewCall DEF NewFrame, Top
  <2> QED BY <2>1 DEF Alone, StartPcs
<1>2. CASE (\E s \in Services : Request(s)) \/ (\E g \in Gens : UvStep(g)) \/ UNCHANGED vars
  <2>1. UNCHANGED <<stack, server, mapped, running, bound, records, gen, config, port>>
    BY <1>2 DEF Request, UvStep, UvServe, UvFail, UvExit, vars, object, services, state, gateway,
       control, process
  <2>2. Bound => Bound'
    <3>1. CASE (\E s \in Services : Request(s)) \/ UNCHANGED vars
      BY <3>1 DEF Request, vars, object, gateway, Bound
    <3>2. CASE \E g \in Gens : UvStep(g)
      BY <3>2, UvBound
    <3> QED BY <1>2, <3>1, <3>2
  <2>3. ~Idle /\ Top' = Top /\ \A s : Up(s)' = Up(s)
    BY <2>1 DEF Idle, Top, Depth, Up
  <2> QED BY <2>1, <2>2, <2>3 DEF Undisturbed, Alone
<1> QED BY <1>1, <1>2

\* Without a signal, no second frame comes.
LEMMA OneDeep ==
  ASSUME TypeInv, Undisturbed, [Next]_vars, ~Signal
  PROVE  /\ Depth' <= 1 /\ Depth' \in Nat
         /\ ~Idle => Depth = 1
         /\ Idle' <=> Depth' = 0
<1>1. /\ Depth \in Nat /\ Depth <= 1 /\ Depth' \in Nat
      /\ ~Idle => Depth = 1
      /\ Idle' <=> Depth' = 0
  <2>1. TypeOK' /\ stack' \in Seq(Frame)
    BY TypeStep DEF TypeInv, TypeOK
  <2>2. (Idle' <=> Depth' = 0) /\ Depth' \in Nat
    BY <2>1, EmptySeq DEF Idle, Depth
  <2> QED BY <2>2, Here DEF Undisturbed
<1>2. CASE ~Idle /\ (Passes \/ StartChanges \/ StopChanges \/ \E s \in Services : ResetService(s))
  BY <1>1, <1>2, PassStays, ChangeStays, Here DEF StaysIn, Moves
<1>3. CASE ~Idle /\ (Ends \/ Fails)
  BY <1>1, <1>3 DEF Ends, Pops, Fails, Unwound
<1>4. CASE CallStart \/ CallStop \/ CallReset
  BY <1>1, <1>4, NewCall
<1>5. CASE (\E s \in Services : Request(s)) \/ (\E g \in Gens : UvStep(g)) \/ UNCHANGED vars
  BY <1>1, <1>5 DEF Request, UvStep, UvServe, UvFail, UvExit, vars, control, Depth
<1> QED BY <1>1, <1>2, <1>3, <1>4, <1>5, NextSteps

LEMMA AloneTop ==
  ASSUME TypeInv, LockInv, StrayInv, ShapeInv, GoneInv, AgreeInv, EndInv, AloneInv, Undisturbed,
         [Next]_vars, ~Signal, ~Idle'
  PROVE  Alone(Top)'
<1>1. /\ Depth' # 0 /\ Depth' \in Nat
      /\ ~Idle => Depth = 1
  BY OneDeep
<1>2. ~(~Idle /\ (Ends \/ Fails))
  BY <1>1 DEF Ends, Pops, Fails, Unwound
<1> QED BY <1>1, <1>2, StartAlone, PassAlone, StopAlone, OtherAlone, NextSteps

\* A start() that returns, and what callers may do after it without a further call.
LEMMA StartedStep ==
  ASSUME TypeInv, ShapeInv, Undisturbed, [Next]_vars,
         Idle', last' = [op |-> "start", ok |-> TRUE]
  PROVE  Started'
<1>1. CASE ~Idle
  <2>1. Ends /\ Depth = 1 /\ Top.op = "start"
    BY <1>1, CallEnds
  <2>2. Top = stack[1] /\ Top.pc \in StartPcs
    BY <1>1, <2>1, Here DEF ShapeInv
  <2>3. Top.pc = "warm_next" /\ Top.todo = {}
    BY <2>1, <2>2 DEF Ends, StartPcs
  <2>4. Started
    BY <1>1, <2>3 DEF Undisturbed, Alone, Started, StartPcs, StartingPcs
  <2> QED BY <2>1, <2>4, NoTablesGone, NoTablesBound DEF Ends, Started
<1>2. CASE Idle
  <2>1. (\E s \in Services : Request(s)) \/ (\E g \in Gens : UvStep(g)) \/ UNCHANGED vars
    BY <1>2, StaysIdle
  <2>2. UNCHANGED <<last, server, mapped, running, bound, records, gen, config, port>>
    BY <2>1 DEF Request, UvStep, UvServe, UvFail, UvExit, vars, object, services, state, gateway,
       control, process
  <2>3. Bound => Bound'
    <3>1. CASE (\E s \in Services : Request(s)) \/ UNCHANGED vars
      BY <3>1 DEF Request, vars, object, gateway, Bound
    <3>2. CASE \E g \in Gens : UvStep(g)
      BY <3>2, UvBound
    <3> QED BY <2>1, <3>1, <3>2
  <2>4. Started
    BY <1>2, <2>2 DEF Undisturbed
  <2> QED BY <2>2, <2>3, <2>4 DEF Started, Up
<1> QED BY <1>1, <1>2

\* A stop() that is alone comes to one exception at most: the thread it joins was
\* never started.
LEMMA StopFailsAt ==
  ASSUME TypeInv, LockInv, ShapeInv, GoneInv, Undisturbed, ~Idle, Depth = 1, Fails,
         Top.op = "stop"
  PROVE  Unjoinable
<1>1. Top = stack[1] /\ Top \in Frame /\ Alone(Top) /\ Relies(Top)
  BY Here DEF Undisturbed, GoneInv
<1>2. Top.pc \in StopPcs
  BY <1>1 DEF ShapeInv, Frame
<1>3. \/ Top.pc = "down_status" /\ records[Top.cur] = "absent"
      \/ Top.pc = "down_next" /\ mapped # Top.view
      \/ Top.pc = "exit" /\ server = NoGen
      \/ Top.pc = "join" /\ uv[Top.target].phase = "unstarted"
  BY <1>2 DEF Fails, StopPcs
<1>4. server # NoGen /\ ~Gone
  BY <1>1, <1>3 DEF Alone, Gone
<1>5. Top.pc # "exit"
  BY <1>3, <1>4
<1>6. Top.pc # "down_next"
  BY <1>1, <1>3, <1>4 DEF Relies, LoopPcs
<1>7. Top.pc # "down_status"
  <2>1. ~Registering(Top.cur)
    BY <1>2, NothingPending DEF StopPcs, Fails
  <2> QED BY <1>1, <1>3, <1>4, <2>1 DEF Relies, CurPcs, GoneInv
<1>8. Top.target = thread /\ thread \in Gens
  BY <1>1, <1>3, <1>4, <1>5, <1>6, <1>7 DEF Relies
<1> QED BY <1>3, <1>5, <1>6, <1>7, <1>8 DEF Unjoinable, Gens, NoGen

\* A stop() that raises, and what callers may do after it without a further call.
LEMMA StopCompletesStep ==
  ASSUME TypeInv, LockInv, ShapeInv, GoneInv, Undisturbed, [Next]_vars,
         Idle', last' = [op |-> "stop", ok |-> FALSE]
  PROVE  Unjoinable'
<1>1. CASE ~Idle
  <2>1. Fails /\ Depth' = 0 /\ Depth = 1 /\ TypeOK
    <3>1. Depth' = 0
      BY <1>1 DEF Idle, Depth
    <3> QED BY <1>1, <3>1, CallEnds, Here DEF Undisturbed
  <2>2. Top.op = "stop"
    BY <1>1, <2>1, RaiseFields, Here DEF Fails
  <2>3. Unjoinable
    BY <1>1, <2>1, <2>2, StopFailsAt
  <2> QED BY <2>1, <2>3 DEF Fails, NoTables, tables, object, gateway, Unjoinable
<1>2. CASE Idle
  <2>1. (\E s \in Services : Request(s)) \/ (\E g \in Gens : UvStep(g)) \/ UNCHANGED vars
    BY <1>2, StaysIdle
  <2>2. thread' = thread /\ last' = last
    BY <2>1 DEF Request, UvStep, UvServe, UvFail, UvExit, vars, object, control
  <2>3. Unjoinable
    BY <1>2, <2>2 DEF Undisturbed
  <2>4. uv'[thread] = uv[thread]
    <3>1. CASE (\E s \in Services : Request(s)) \/ UNCHANGED vars
      BY <3>1 DEF Request, vars, gateway
    <3>2. CASE \E g \in Gens : UvStep(g)
      <4>1. PICK g \in Gens : UvStep(g)
        BY <3>2
      <4>2. uv \in Gateways /\ thread \in Gens /\ uv[thread].phase = "unstarted"
        BY <2>3, Here, ConstantsOK DEF TypeOK, Gateways, Unjoinable, NoGen, Gens
      <4>3. g # thread
        BY <4>1, <4>2 DEF UvStep, UvServe, UvFail, UvExit
      <4> QED BY <4>1, <4>2, <4>3 DEF UvStep, UvServe, UvFail, UvExit, Gateways
    <3> QED BY <2>1, <3>1, <3>2
  <2> QED BY <2>2, <2>3, <2>4 DEF Unjoinable
<1> QED BY <1>1, <1>2

LEMMA AloneStep ==
  ASSUME TypeInv, LockInv, StrayInv, ShapeInv, GoneInv, AgreeInv, EndInv, AloneInv, [Next]_vars
  PROVE  AloneInv'
<1>1. ASSUME signals' = 0 PROVE Undisturbed'
  <2>1. Undisturbed /\ ~Signal
    BY <1>1, StillUndisturbed
  <2>2. Depth' <= 1
    BY <2>1, OneDeep
  <2>3. ~Idle' => Alone(Top)'
    BY <2>1, AloneTop
  <2>4. Idle' /\ last' = [op |-> "start", ok |-> TRUE] => Started'
    BY <2>1, StartedStep
  <2>5. Idle' /\ last' = [op |-> "stop", ok |-> FALSE] => Unjoinable'
    BY <2>1, StopCompletesStep
  <2> QED BY <2>2, <2>3, <2>4, <2>5 DEF Undisturbed
<1> QED BY <1>1, CountsStep DEF AloneInv

\* As long as no signal comes, start() and stop() run alone, and find what they need.
THEOREM AloneInvariant == Spec => []AloneInv
<1>1. Init => AloneInv
  <2> SUFFICES ASSUME Init PROVE AloneInv
    OBVIOUS
  <2>1. Depth = 0 /\ Idle
    BY DEF Init, Depth, Idle
  <2>2. Undisturbed
    BY <2>1 DEF Init, Undisturbed, NoServer
  <2>3. \A g \in Gens : ~uv[g].exit
    BY DEF Init, NoServer
  <2> QED BY <2>2, <2>3 DEF Init, AloneInv
<1>2. TypeInv /\ LockInv /\ StrayInv /\ ShapeInv /\ GoneInv /\ AgreeInv /\ EndInv /\ AloneInv
        /\ [Next]_vars => AloneInv'
  BY AloneStep
<1> QED BY <1>1, <1>2, TypeInvariant, LockInvariant, StrayInvariant, ShapeInvariant,
        GoneInvariant, AgreeInvariant, EndInvariant, PTL DEF Spec

\* When a start() no signal interrupted returns normally, whatever calls came before it,
\* every service of the list is mapped, recorded as up, running and bound to the port
\* its gateway listens on.
THEOREM StartSetsUp == Spec => []StartDelivers
<1>1. AloneInv => StartDelivers
  BY DEF AloneInv, Undisturbed, StartDelivers, Started, Bound, Up
<1> QED BY <1>1, AloneInvariant, PTL

\* Unless a signal comes in between, stop() raises nothing but what join() raises for a
\* thread start() could not start, whatever calls came before it; and when it returns,
\* nothing of the run is left, if the server knew its services.
THEOREM StopTakesDown == Spec => []StopDelivers
<1>1. AloneInv => StopCompletes
  BY DEF AloneInv, Undisturbed, StopCompletes
<1>2. StopCompletes /\ StopCleans => StopDelivers
  BY DEF StopDelivers
<1> QED BY <1>1, <1>2, AloneInvariant, StopLeavesNothing, PTL
=====================================================================================
