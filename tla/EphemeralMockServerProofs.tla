----------------------- MODULE EphemeralMockServerProofs -----------------------
(* Theorems about EphemeralMockServer, for every value of its constants. *)
EXTENDS EphemeralMockServer, SequenceTheorems, TLAPS

USE DEF NoGen, NoSvc

-------------------------------------------------------------------------------
(* The stack.                                                                 *)

LEMMA TopFrame ==
  ASSUME TypeOK, ~Idle
  PROVE  Depth \in Nat \ {0} /\ Top \in Frame
BY DEF TypeOK, Idle, Depth, Top

LEMMA NewFrameType ==
  ASSUME NEW op \in Ops, NEW pc \in StartPcs \cup StopPcs \cup ResetPcs
  PROVE  NewFrame(op, pc) \in Frame
BY ConstantsOK DEF NewFrame, Frame

\* The top frame is replaced.
LEMMA ReplaceTop ==
  ASSUME TypeOK, ~Idle, NEW f \in Frame, Become(f)
  PROVE  /\ stack' \in Seq(Frame)
         /\ Depth' = Depth
         /\ stack'[Depth] = f
         /\ \A j \in 1..Depth : j # Depth => stack'[j] = stack[j]
         /\ last' = last
BY DEF TypeOK, Idle, Depth, Become

LEMMA Prefix ==
  ASSUME NEW S, NEW s \in Seq(S), NEW d \in 0..Len(s)
  PROVE  /\ SubSeq(s, 1, d) \in Seq(S)
         /\ Len(SubSeq(s, 1, d)) = d
         /\ \A j \in 1..d : SubSeq(s, 1, d)[j] = s[j]
<1>1. \A j \in 1..d : s[j] \in S
  BY ElementOfSeq, LenProperties
<1>2. d \in Int /\ (1 <= d => d - 1 + 1 = d) /\ (~(1 <= d) => d = 0)
  BY LenProperties
<1> QED BY <1>1, <1>2, SubSeqProperties

LEMMA PrefixThen ==
  ASSUME NEW S, NEW s \in Seq(S), NEW d \in 1..Len(s), NEW e \in S
  PROVE  LET t == [SubSeq(s, 1, d) EXCEPT ![d] = e]
         IN  /\ t \in Seq(S)
             /\ Len(t) = d
             /\ \A j \in 1..d : j # d => t[j] = s[j]
             /\ t[d] = e
<1> DEFINE p == SubSeq(s, 1, d)
<1>1. p \in Seq(S) /\ Len(p) = d /\ \A j \in 1..d : p[j] = s[j]
  BY Prefix, LenProperties
<1>2. d \in 1..Len(p)
  BY <1>1
<1> HIDE DEF p
<1>3. /\ [p EXCEPT ![d] = e] \in Seq(S)
      /\ Len([p EXCEPT ![d] = e]) = Len(p)
      /\ \A j \in 1..Len(p) : [p EXCEPT ![d] = e][j] = IF j = d THEN e ELSE p[j]
  BY <1>1, <1>2, ExceptSeq
<1>4. /\ [p EXCEPT ![d] = e] \in Seq(S)
      /\ Len([p EXCEPT ![d] = e]) = d
      /\ \A j \in 1..d : j # d => [p EXCEPT ![d] = e][j] = s[j]
      /\ [p EXCEPT ![d] = e][d] = e
  BY <1>1, <1>2, <1>3
<1> QED BY <1>4 DEF p

\* The top frame is popped.
LEMMA PopTop ==
  ASSUME TypeOK, ~Idle, Return
  PROVE  /\ stack' \in Seq(Frame)
         /\ Depth' = Depth - 1
         /\ \A j \in 1..(Depth - 1) : stack'[j] = stack[j]
         /\ last' \in [op : Ops \cup {"none"}, ok : BOOLEAN]
<1>1. stack \in Seq(Frame) /\ Depth = Len(stack) /\ Depth \in Nat \ {0}
  BY TopFrame DEF TypeOK, Depth
<1>2. stack' = SubSeq(stack, 1, Depth - 1)
  BY DEF Return
<1>3. Depth - 1 \in 0..Len(stack)
  BY <1>1
<1>4. /\ stack' \in Seq(Frame)
      /\ Len(stack') = Depth - 1
      /\ \A j \in 1..(Depth - 1) : stack'[j] = stack[j]
  BY <1>1, <1>2, <1>3, Prefix
<1>5. last' \in [op : Ops \cup {"none"}, ok : BOOLEAN]
  BY TopFrame DEF Return, TypeOK, Frame
<1> QED BY <1>4, <1>5 DEF Depth

\* An exception leaves the frames below the one that catches it as they were.
LEMMA Unwinds ==
  ASSUME TypeOK, ~Idle, Raise
  PROVE  /\ stack' \in Seq(Frame)
         /\ Depth' \in 0..(Depth - 1)
         /\ \A j \in 1..Depth' : j # Depth' => stack'[j] = stack[j]
         /\ Depth' # 0 => /\ stack'[Depth'].pc = "closed"
                          /\ stack[Depth'].pc \in {"close", "closed"}
         /\ lock' \in Nat
         /\ lock' = 0 \/ (lock' = lock /\ lock <= Depth')
         /\ last' \in [op : Ops \cup {"none"}, ok : BOOLEAN]
<1>1. CASE stack' = <<>> /\ last' = [op |-> stack[1].op, ok |-> FALSE] /\ lock' = 0
  <2>1. stack[1] \in Frame
    BY TopFrame, ElementOfSeq DEF TypeOK, Depth
  <2>2. Depth' = 0
    BY <1>1 DEF Depth
  <2> QED BY <1>1, <2>1, <2>2, TopFrame DEF Frame
<1>2. ASSUME NEW d \in Catchers,
             stack' = [SubSeq(stack, 1, d) EXCEPT ![d].pc = "closed"],
             lock' = IF lock > d THEN 0 ELSE lock,
             last' = last
      PROVE  /\ stack' \in Seq(Frame)
             /\ Depth' = d
             /\ \A j \in 1..d : j # d => stack'[j] = stack[j]
             /\ stack'[d].pc = "closed"
             /\ stack[d].pc \in {"close", "closed"}
             /\ d \in 1..(Depth - 1)
  <2>1. d \in 1..(Depth - 1) /\ stack[d].pc \in {"close", "closed"}
    BY DEF Catchers
  <2>2. stack \in Seq(Frame) /\ Len(stack) \in Nat /\ Depth = Len(stack)
    BY DEF TypeOK, Depth
  <2> DEFINE f == [stack[d] EXCEPT !.pc = "closed"]
  <2>3. f \in Frame /\ f.pc = "closed"
    <3>1. stack[d] \in Frame
      BY <2>1, <2>2, ElementOfSeq
    <3> QED BY <3>1 DEF Frame, StopPcs
  <2>4. stack' = [SubSeq(stack, 1, d) EXCEPT ![d] = f]
    <3>1. SubSeq(stack, 1, d)[d] = stack[d]
      BY <2>1, <2>2, Prefix
    <3> QED BY <3>1, <1>2
  <2>5. d \in 1..Len(stack)
    BY <2>1, <2>2
  <2> HIDE DEF f
  <2>6. /\ stack' \in Seq(Frame)
        /\ Len(stack') = d
        /\ \A j \in 1..d : j # d => stack'[j] = stack[j]
        /\ stack'[d] = f
    BY <2>2, <2>3, <2>4, <2>5, PrefixThen
  <2> QED BY <2>1, <2>3, <2>6 DEF Depth
<1>3. CASE \E d \in Catchers :
             /\ stack' = [SubSeq(stack, 1, d) EXCEPT ![d].pc = "closed"]
             /\ lock' = IF lock > d THEN 0 ELSE lock
             /\ last' = last
  <2>1. PICK d \in Catchers :
             /\ stack' = [SubSeq(stack, 1, d) EXCEPT ![d].pc = "closed"]
             /\ lock' = IF lock > d THEN 0 ELSE lock
             /\ last' = last
    BY <1>3
  <2>2. /\ stack' \in Seq(Frame)
        /\ Depth' = d
        /\ \A j \in 1..d : j # d => stack'[j] = stack[j]
        /\ stack'[d].pc = "closed"
        /\ stack[d].pc \in {"close", "closed"}
        /\ d \in 1..(Depth - 1)
    BY <1>2, <2>1
  <2>3. lock \in Nat /\ Depth \in Nat /\ last \in [op : Ops \cup {"none"}, ok : BOOLEAN]
    BY DEF TypeOK, Depth
  <2> QED BY <2>1, <2>2, <2>3
<1> QED BY <1>1, <1>3 DEF Raise

-------------------------------------------------------------------------------
(* What each step does to the stack.                                          *)

Pcs == StartPcs \cup StopPcs \cup ResetPcs

Moves(pc) ==
  /\ stack' \in Seq(Frame)
  /\ Depth' = Depth
  /\ stack'[Depth].pc = pc
  /\ \A j \in 1..Depth : j # Depth => stack'[j] = stack[j]
  /\ last' = last

Pops ==
  /\ stack' \in Seq(Frame)
  /\ Depth' = Depth - 1
  /\ \A j \in 1..(Depth - 1) : stack'[j] = stack[j]
  /\ last' \in [op : Ops \cup {"none"}, ok : BOOLEAN]

Unwound ==
  /\ stack' \in Seq(Frame)
  /\ Depth' \in 0..(Depth - 1)
  /\ \A j \in 1..Depth' : j # Depth' => stack'[j] = stack[j]
  /\ Depth' # 0 => /\ stack'[Depth'].pc = "closed"
                   /\ stack[Depth'].pc \in {"close", "closed"}
  /\ lock' \in Nat
  /\ lock' = 0 \/ (lock' = lock /\ lock <= Depth')
  /\ last' \in [op : Ops \cup {"none"}, ok : BOOLEAN]

LEMMA RaiseUnwinds == ASSUME TypeOK, ~Idle, Raise PROVE Unwound
BY Unwinds DEF Unwound

LEMMA ReturnPops == ASSUME TypeOK, ~Idle, Return PROVE Pops
BY PopTop DEF Pops

LEMMA BecomeMoves == ASSUME TypeOK, ~Idle, NEW f \in Frame, Become(f) PROVE Moves(f.pc)
BY ReplaceTop DEF Moves

LEMMA GotoMoves == ASSUME TypeOK, ~Idle, NEW pc \in Pcs, Goto(pc) PROVE Moves(pc)
<1> DEFINE f == [Top EXCEPT !.pc = pc]
<1>1. f \in Frame /\ f.pc = pc
  BY TopFrame DEF Frame, Pcs
<1>2. Become(f)
  BY DEF Goto
<1> HIDE DEF f
<1> QED BY <1>1, <1>2, BecomeMoves

LEMMA LoopMoves == ASSUME TypeOK, ~Idle, NEW pc \in Pcs, BeginLoop(pc) PROVE Moves(pc)
<1> DEFINE f == [Top EXCEPT !.pc = pc, !.todo = mapped, !.view = mapped]
<1>1. f \in Frame /\ f.pc = pc
  BY TopFrame DEF Frame, Pcs, TypeOK
<1>2. Become(f)
  BY DEF BeginLoop
<1> HIDE DEF f
<1> QED BY <1>1, <1>2, BecomeMoves

LEMMA BindMoves == ASSUME TypeOK, Bind PROVE Moves("register")
<1> DEFINE f == [Top EXCEPT !.pc = "register", !.todo = config]
<1>1. f \in Frame /\ f.pc = "register"
  BY TopFrame, ConstantsOK DEF Bind, At, Frame, StartPcs, StopPcs, ResetPcs, TypeOK
<1>2. ~Idle /\ Become(f)
  BY DEF Bind, At
<1> HIDE DEF f
<1> QED BY <1>1, <1>2, BecomeMoves

LEMMA RegisterMoves == ASSUME TypeOK, NEW s \in Services, Register(s) PROVE Moves("registering")
<1> DEFINE f == [Top EXCEPT !.pc = "registering", !.cur = s]
<1>1. f \in Frame /\ f.pc = "registering"
  BY TopFrame, ConstantsOK DEF Register, At, Frame, StartPcs, StopPcs, ResetPcs,
     TypeOK
<1>2. ~Idle /\ Become(f)
  BY DEF Register, At
<1> HIDE DEF f
<1> QED BY <1>1, <1>2, BecomeMoves

LEMMA RegisteredMoves == ASSUME TypeOK, Registered PROVE Moves("register")
<1> DEFINE f == [Top EXCEPT !.pc = "register", !.todo = @ \ {Top.cur}]
<1>1. f \in Frame /\ f.pc = "register"
  BY TopFrame, ConstantsOK DEF Registered, At, Frame, StartPcs, StopPcs, ResetPcs,
     TypeOK
<1>2. ~Idle /\ Become(f)
  BY DEF Registered, At
<1> HIDE DEF f
<1> QED BY <1>1, <1>2, BecomeMoves

LEMMA BindPortMoves == ASSUME TypeOK, NEW s \in Services, BindPort(s) PROVE Moves("warm_start")
<1> DEFINE f == [Top EXCEPT !.pc = "warm_start", !.cur = s]
<1>1. f \in Frame /\ f.pc = "warm_start"
  BY TopFrame, ConstantsOK DEF BindPort, At, Frame, StartPcs, StopPcs, ResetPcs,
     TypeOK
<1>2. ~Idle /\ Become(f)
  BY DEF BindPort, At
<1> HIDE DEF f
<1> QED BY <1>1, <1>2, BecomeMoves

LEMMA OnStopMoves == ASSUME TypeOK, NEW s \in Services, OnStop(s) PROVE Moves("down_status")
<1> DEFINE f == [Top EXCEPT !.pc = "down_status", !.cur = s]
<1>1. f \in Frame /\ f.pc = "down_status"
  BY TopFrame, ConstantsOK DEF OnStop, At, Frame, StartPcs, StopPcs, ResetPcs,
     TypeOK
<1>2. ~Idle /\ Become(f)
  BY DEF OnStop, At
<1> HIDE DEF f
<1> QED BY <1>1, <1>2, BecomeMoves

LEMMA CallCloseMoves == ASSUME TypeOK, CallClose PROVE Moves("close")
<1> DEFINE f == [Top EXCEPT !.pc = "close", !.target = sock]
<1>1. f \in Frame /\ f.pc = "close"
  BY TopFrame, ConstantsOK DEF CallClose, At, Frame, StartPcs, StopPcs, ResetPcs,
     TypeOK
<1>2. ~Idle /\ Become(f)
  BY DEF CallClose, At
<1> HIDE DEF f
<1> QED BY <1>1, <1>2, BecomeMoves

LEMMA ResetServiceMoves == ASSUME TypeOK, NEW s \in Services, ResetService(s) PROVE Moves("reset_next")
<1> DEFINE f == [Top EXCEPT !.todo = @ \ {s}]
<1>1. f \in Frame /\ f.pc = "reset_next"
  BY TopFrame, ConstantsOK DEF ResetService, At, Frame, StartPcs, StopPcs,
     ResetPcs, TypeOK
<1>2. ~Idle /\ Become(f)
  BY DEF ResetService, At
<1> HIDE DEF f
<1> QED BY <1>1, <1>2, BecomeMoves

\* A poll finds the server started, finds it not started yet, or raises.
LEMMA PollShape ==
  ASSUME TypeOK, Poll
  PROVE  \/ Unwound /\ records' = records
         \/ Moves("install") /\ UNCHANGED state
         \/ Moves("poll") /\ UNCHANGED state
<1>1. ~Idle /\ Top.pc = "poll"
  BY DEF Poll, At
<1>2. CASE Raise /\ UNCHANGED records
  BY <1>1, <1>2, RaiseUnwinds
<1>3. CASE Goto("install") /\ UNCHANGED state
  BY <1>1, <1>3, GotoMoves DEF Pcs, StartPcs
<1>4. CASE Top.polls < PollCount /\ Become([Top EXCEPT !.polls = @ + 1]) /\ UNCHANGED state
  <2> DEFINE f == [Top EXCEPT !.polls = @ + 1]
  <2>1. f \in Frame /\ f.pc = "poll"
    BY <1>1, <1>4, TopFrame, ConstantsOK DEF Frame
  <2>2. Become(f)
    BY <1>4
  <2> HIDE DEF f
  <2> QED BY <1>1, <1>4, <2>1, <2>2, BecomeMoves
<1> QED BY <1>2, <1>3, <1>4 DEF Poll

LEMMA SetStatusShape ==
  ASSUME TypeOK, ~Idle, NEW status, NEW next \in Pcs, SetStatus(status, next)
  PROVE  \/ Unwound /\ records' = records
         \/ Moves(next) /\ records' = [records EXCEPT ![Top.cur] = status] /\ lock' = lock
<1>1. CASE Raise /\ UNCHANGED records
  BY <1>1, RaiseUnwinds
<1>2. CASE /\ records' = [records EXCEPT ![Top.cur] = status]
           /\ Become([Top EXCEPT !.pc = next, !.todo = @ \ {Top.cur}])
           /\ UNCHANGED lock
  <2> DEFINE f == [Top EXCEPT !.pc = next, !.todo = @ \ {Top.cur}]
  <2>1. f \in Frame /\ f.pc = next
    BY TopFrame DEF Frame, Pcs
  <2>2. Become(f)
    BY <1>2
  <2> HIDE DEF f
  <2> QED BY <1>2, <2>1, <2>2, BecomeMoves
<1> QED BY <1>1, <1>2 DEF SetStatus

LEMMA AskExitShape ==
  ASSUME TypeOK, AskExit
  PROVE  \/ Unwound /\ uv' = uv
         \/ /\ Moves("sock") \/ Moves("join")
            /\ server # NoGen
            /\ uv' = [uv EXCEPT ![server].exit = TRUE]
            /\ lock' = lock
<1>1. ~Idle
  BY DEF AskExit, At
<1>2. CASE server = NoGen
  BY <1>1, <1>2, RaiseUnwinds DEF AskExit
<1>3. CASE server # NoGen /\ thread = NoGen
  BY <1>1, <1>3, GotoMoves DEF AskExit, Pcs, StopPcs
<1>4. CASE server # NoGen /\ thread # NoGen
  <2> DEFINE f == [Top EXCEPT !.pc = "join", !.target = thread]
  <2>1. f \in Frame /\ f.pc = "join"
    BY TopFrame, <1>1 DEF Frame, StopPcs, TypeOK
  <2>2. Become(f) /\ uv' = [uv EXCEPT ![server].exit = TRUE] /\ lock' = lock
    BY <1>4 DEF AskExit
  <2> HIDE DEF f
  <2> QED BY <1>1, <1>4, <2>1, <2>2, BecomeMoves
<1> QED BY <1>2, <1>3, <1>4

Gateways == [Gens -> [phase   : {"none", "unstarted", "booting", "serving", "dead"},
                      started : BOOLEAN,
                      exit    : BOOLEAN]]

LEMMA GatewayExit ==
  ASSUME NEW u \in Gateways, NEW g
  PROVE  [u EXCEPT ![g].exit = TRUE] \in Gateways
BY DEF Gateways

\* Whatever start a step updates, and whether or not it is in range.
LEMMA GatewayUpdate ==
  ASSUME NEW u \in Gateways, NEW g,
         NEW ph \in {"none", "unstarted", "booting", "serving", "dead"}
  PROVE  /\ [u EXCEPT ![g].phase = ph] \in Gateways
         /\ [u EXCEPT ![g].phase = ph, ![g].started = TRUE] \in Gateways
BY DEF Gateways

-------------------------------------------------------------------------------
(* Types.                                                                     *)

\* One step of start().
LEMMA StartTypes == ASSUME TypeInv, StartStep PROVE TypeOK'
<1> USE DEF TypeInv
<1>1. CASE AlreadyRunning
  BY <1>1, RaiseUnwinds, ConstantsOK DEF AlreadyRunning, At, TypeOK, object,
     services, state, gateway, process, Unwound
<1>2. CASE Bind
  <2>1. Moves("register")
    BY <1>2, BindMoves
  <2>2. gen < MaxStarts
    BY <1>2, TopFrame DEF Bind, At, StartLeft, Depth, Top, Idle
  <2>3. gen' \in 0..MaxStarts /\ sock' \in 0..MaxStarts
    BY <1>2, <2>2, ConstantsOK DEF Bind, TypeOK
  <2>4. PICK p \in Ports :
          /\ port' = p
          /\ socks' = [g \in Gens |-> IF g = gen + 1 THEN p
                                      ELSE IF g = sock THEN "closed" ELSE socks[g]]
    BY <1>2 DEF Bind
  <2>5. socks' \in [Gens -> Ports \cup {"closed"}] /\ port' \in Ports \cup {"none"}
    BY <2>4 DEF TypeOK
  <2> QED BY <1>2, <2>1, <2>3, <2>5 DEF Bind, Moves, TypeOK, object, services,
     state, gateway, process
<1>3. CASE BindFails
  BY <1>3, RaiseUnwinds, ConstantsOK DEF BindFails, At, TypeOK, object, services,
     state, gateway, process, Unwound
<1>4. ASSUME NEW s \in Services, Register(s) PROVE TypeOK'
  <2>1. /\ Moves("registering")
        /\ lock' \in Nat
    BY <1>4, RegisterMoves, TopFrame DEF Register, At
  <2>2. mapped' \subseteq Services /\ running' \in [Services -> BOOLEAN]
    BY <1>4 DEF Register, TypeOK
  <2>3. /\ bound' \in [Services -> Ports \cup {"none"}]
        /\ data' \in [Services -> {"none", "old", "new"}]
    BY <1>4 DEF Register, TypeOK
  <2> QED BY <1>4, <2>1, <2>2, <2>3 DEF Register, Moves, TypeOK, object, services,
     state, gateway, process
<1>5. CASE Registered
  BY <1>5, RegisteredMoves, TopFrame, ConstantsOK DEF Registered, At, TypeOK,
     object, services, state, gateway, process, Moves
<1>6. CASE RejectService
  BY <1>6, RaiseUnwinds, ConstantsOK DEF RejectService, At, TypeOK, object,
     services, state, gateway, process, Unwound
<1>7. CASE CreateServer
  BY <1>7, GotoMoves, ConstantsOK DEF CreateServer, At, TypeOK, object, services,
     state, gateway, process, Moves, Pcs, StartPcs, StopPcs, ResetPcs
<1>8. CASE AssignServer
  BY <1>8, GotoMoves, ConstantsOK DEF AssignServer, At, TypeOK, object, services,
     state, gateway, process, Moves, Pcs, StartPcs, StopPcs, ResetPcs
<1>9. CASE AssignThread
  <2>1. Moves("spawn")
    BY <1>9, GotoMoves DEF AssignThread, At, Pcs, StartPcs
  <2>2. uv' \in Gateways
    BY <1>9, GatewayUpdate DEF AssignThread, Gateways, TypeOK
  <2> QED BY <1>9, <2>1, <2>2 DEF AssignThread, Moves, Gateways, TypeOK, object,
     services, state, gateway, process
<1>10. CASE Spawn
  <2>1. Moves("poll")
    BY <1>10, GotoMoves DEF Spawn, At, Pcs, StartPcs
  <2>2. uv' \in Gateways
    BY <1>10, GatewayUpdate DEF Spawn, Gateways, TypeOK
  <2> QED BY <1>10, <2>1, <2>2 DEF Spawn, Moves, Gateways, TypeOK, object,
     services, state, gateway, process
<1>11. CASE SpawnRefused
  BY <1>11, RaiseUnwinds, ConstantsOK DEF SpawnRefused, At, TypeOK, object,
     services, state, gateway, process, Unwound
<1>12. CASE Poll
  BY <1>12, PollShape, ConstantsOK DEF Poll, At, TypeOK, object, services, state,
     gateway, process, Unwound, Moves
<1>13. CASE InstallHandlers
  BY <1>13, GotoMoves, ConstantsOK DEF InstallHandlers, At, TypeOK, object,
     services, state, gateway, process, Moves, Pcs, StartPcs, StopPcs, ResetPcs
<1>14. CASE Warm
  BY <1>14, LoopMoves, ConstantsOK DEF Warm, At, TypeOK, object, services, state,
     gateway, process, Moves, Pcs, StartPcs, StopPcs, ResetPcs
<1>15. ASSUME NEW s \in Services, BindPort(s) PROVE TypeOK'
  BY <1>15, BindPortMoves, ConstantsOK DEF BindPort, At, TypeOK, object, services,
     state, gateway, process, Moves
<1>16. CASE OnStart
  <2>1. Moves("warm_status")
    BY <1>16, GotoMoves DEF OnStart, At, Pcs, StartPcs
  <2>2. running' \in [Services -> BOOLEAN]
    <3>1. \A b \in BOOLEAN : [running EXCEPT ![Top.cur] = b] \in [Services -> BOOLEAN]
      BY DEF TypeOK
    <3>2. (Top.cur \in mapped) \in BOOLEAN
      OBVIOUS
    <3>3. running' = [running EXCEPT ![Top.cur] = Top.cur \in mapped]
      BY <1>16 DEF OnStart
    <3> QED BY <3>1, <3>2, <3>3, Zenon
  <2> QED BY <1>16, <2>1, <2>2 DEF OnStart, Moves, TypeOK, object, services,
     state, gateway, process
<1>17. CASE SetUp
  <2>1. \/ Unwound /\ records' = records
        \/ /\ Moves("warm_next")
           /\ records' = [records EXCEPT ![Top.cur] = "up"]
           /\ lock' = lock
    BY <1>17, SetStatusShape DEF SetUp, At, Pcs, StartPcs, StopPcs
  <2>2. records' \in [Services -> {"absent", "down", "up"}]
    BY <2>1 DEF TypeOK
  <2> QED BY <1>17, <2>1, <2>2 DEF SetUp, SetStatus, Moves, Unwound, TypeOK,
     object, services, state, gateway, process
<1>18. CASE StartReturns
  BY <1>18, ReturnPops, ConstantsOK DEF StartReturns, At, TypeOK, object,
     services, state, gateway, process, Pops
<1> QED BY <1>1, <1>2, <1>3, <1>4, <1>5, <1>6, <1>7, <1>8, <1>9, <1>10,
  <1>11, <1>12, <1>13, <1>14, <1>15, <1>16, <1>17, <1>18 DEF StartStep

\* One step of stop().
LEMMA StopTypes == ASSUME TypeInv, StopStep PROVE TypeOK'
<1> USE DEF TypeInv
<1>1. CASE StopCheck
  BY <1>1, ReturnPops, GotoMoves, ConstantsOK DEF StopCheck, At, TypeOK, object,
     services, state, gateway, process, Moves, Pops, Pcs, StartPcs, StopPcs,
     ResetPcs
<1>2. CASE Down
  BY <1>2, LoopMoves, ConstantsOK DEF Down, At, TypeOK, object, services, state,
     gateway, process, Moves, Pcs, StartPcs, StopPcs, ResetPcs
<1>3. ASSUME NEW s \in Services, OnStop(s) PROVE TypeOK'
  BY <1>3, OnStopMoves, ConstantsOK DEF OnStop, At, TypeOK, object, services,
     state, gateway, process, Moves
<1>4. CASE SetDown
  <2>1. \/ Unwound /\ records' = records
        \/ /\ Moves("down_next")
           /\ records' = [records EXCEPT ![Top.cur] = "down"]
           /\ lock' = lock
    BY <1>4, SetStatusShape DEF SetDown, At, Pcs, StartPcs, StopPcs
  <2>2. records' \in [Services -> {"absent", "down", "up"}]
    BY <2>1 DEF TypeOK
  <2> QED BY <1>4, <2>1, <2>2 DEF SetDown, SetStatus, Moves, Unwound, TypeOK,
     object, services, state, gateway, process
<1>5. CASE AllDown
  BY <1>5, GotoMoves, ConstantsOK DEF AllDown, At, TypeOK, object, services,
     state, gateway, process, Moves, Pcs, StartPcs, StopPcs, ResetPcs
<1>6. CASE AskExit
  <2>1. \/ Unwound /\ uv' = uv
        \/ /\ Moves("sock") \/ Moves("join")
           /\ uv' = [uv EXCEPT ![server].exit = TRUE]
           /\ lock' = lock
    BY <1>6, AskExitShape
  <2>2. uv' \in Gateways
    <3>1. uv \in Gateways
      BY DEF Gateways, TypeOK
    <3> QED BY <2>1, <3>1, GatewayExit
  <2> QED BY <1>6, <2>1, <2>2 DEF AskExit, Moves, Unwound, Gateways, TypeOK,
     object, services, state, gateway, process
<1>7. CASE Join
  <2>1. UNCHANGED <<object, services, records, gateway, process>>
    BY <1>7 DEF Join
  <2>2. CASE Raise
    BY <1>7, <2>1, <2>2, RaiseUnwinds DEF Join, At, TypeOK, object, services,
       gateway, process, Unwound
  <2>3. CASE Goto("sock") /\ UNCHANGED lock
    BY <1>7, <2>1, <2>3, GotoMoves DEF Join, At, TypeOK, object, services,
       gateway, process, Moves, Pcs, StopPcs
  <2> QED BY <1>7, <2>2, <2>3 DEF Join
<1>8. CASE CallClose
  BY <1>8, CallCloseMoves, ConstantsOK DEF CallClose, At, TypeOK, object,
     services, state, gateway, process, Moves
<1>9. CASE CloseSocket
  <2>1. Moves("closed")
    BY <1>9, GotoMoves DEF CloseSocket, At, Pcs, StopPcs
  <2>2. socks' \in [Gens -> Ports \cup {"closed"}]
    BY <1>9 DEF CloseSocket, TypeOK
  <2> QED BY <1>9, <2>1, <2>2 DEF CloseSocket, TypeOK, object, services, state,
     process, Moves
<1>10. CASE Forget
  BY <1>10, GotoMoves, ConstantsOK DEF Forget, At, TypeOK, object, services,
     state, gateway, process, Moves, Pcs, StartPcs, StopPcs, ResetPcs
<1>11. CASE Drop
  BY <1>11, GotoMoves, TopFrame, ConstantsOK DEF Drop, At, TypeOK, object,
     services, state, gateway, process, Moves, Pcs, StartPcs, StopPcs, ResetPcs
<1>12. CASE StopReturns
  BY <1>12, ReturnPops, ConstantsOK DEF StopReturns, At, TypeOK, object, services,
     state, gateway, process, Pops
<1> QED BY <1>1, <1>2, <1>3, <1>4, <1>5, <1>6, <1>7, <1>8, <1>9, <1>10,
  <1>11, <1>12 DEF StopStep

\* One step of reset(), or a loop that an emptied map breaks.
LEMMA ResetTypes == ASSUME TypeInv, ResetStep \/ LoopBroken PROVE TypeOK'
<1> USE DEF TypeInv
<1>1. CASE Reset
  BY <1>1, LoopMoves, ConstantsOK DEF Reset, At, TypeOK, object, services, state,
     gateway, process, Moves, Pcs, StartPcs, StopPcs, ResetPcs
<1>2. ASSUME NEW s \in Services, ResetService(s) PROVE TypeOK'
  BY <1>2, ResetServiceMoves, ConstantsOK DEF ResetService, At, TypeOK, object,
     services, state, gateway, process, Moves
<1>3. CASE ResetReturns
  BY <1>3, ReturnPops, ConstantsOK DEF ResetReturns, At, TypeOK, object, services,
     state, gateway, process, Pops
<1>4. CASE LoopBroken
  BY <1>4, RaiseUnwinds, ConstantsOK DEF LoopBroken, At, TypeOK, object, services,
     state, gateway, process, Unwound
<1> QED BY <1>1, <1>2, <1>3, <1>4 DEF ResetStep

\* A call, a signal, a request or a step of a gateway thread.
LEMMA OtherTypes ==
  ASSUME TypeInv,
         \/ CallStart \/ CallStop \/ CallReset \/ Signal
         \/ \E s \in Services : Request(s)
         \/ \E g \in Gens : UvStep(g)
  PROVE  TypeOK'
<1> USE DEF TypeInv
<1>1. ASSUME NEW op \in Ops, NEW pc \in Pcs, stack' = <<NewFrame(op, pc)>>
      PROVE  stack' \in Seq(Frame)
  BY <1>1, NewFrameType DEF Pcs
<1>2. CASE CallStart
  BY <1>1, <1>2 DEF CallStart, Call, Ops, Pcs, StartPcs, TypeOK, object, services,
     state, gateway, process
<1>3. CASE CallStop
  BY <1>1, <1>3 DEF CallStop, Call, Ops, Pcs, StopPcs, TypeOK, object, services,
     state, gateway, process
<1>4. CASE CallReset
  <2>1. data' \in [Services -> {"none", "old", "new"}]
    BY <1>4 DEF CallReset, TypeOK
  <2> QED BY <1>1, <1>4, <2>1 DEF CallReset, Ops, Pcs, ResetPcs, TypeOK, object,
        state, gateway, process
<1>5. CASE Signal
  <2>1. NewFrame("signal", "check") \in Frame
    BY NewFrameType DEF Ops, StopPcs
  <2>2. stack' \in Seq(Frame)
    BY <1>5, <2>1, AppendProperties DEF Signal, TypeOK
  <2>3. signals' \in 0..MaxSignals
    BY <1>5, ConstantsOK DEF Signal, TypeOK
  <2> QED BY <1>5, <2>2, <2>3 DEF Signal, TypeOK, object, services, state, gateway
<1>6. ASSUME NEW s \in Services, Request(s) PROVE TypeOK'
  BY <1>6 DEF Request, TypeOK, object, state, gateway, control, process
<1>7. ASSUME NEW g \in Gens, UvStep(g) PROVE TypeOK'
  <2>1. uv \in Gateways
    BY DEF TypeOK, Gateways
  <2>2. uv' \in Gateways
    <3>1. CASE UvServe(g)
      <4> DEFINE ph == IF uv[g].exit THEN "dead" ELSE "serving"
      <4>1. ph \in {"none", "unstarted", "booting", "serving", "dead"}
        OBVIOUS
      <4>2. uv' = [uv EXCEPT ![g].phase = ph, ![g].started = TRUE]
        BY <3>1 DEF UvServe
      <4> HIDE DEF ph
      <4> QED BY <2>1, <4>1, <4>2, GatewayUpdate
    <3>2. CASE UvFail(g) \/ UvExit(g)
      <4> DEFINE ph == "dead"
      <4>1. ph \in {"none", "unstarted", "booting", "serving", "dead"}
        OBVIOUS
      <4>2. uv' = [uv EXCEPT ![g].phase = ph]
        BY <3>2 DEF UvFail, UvExit
      <4> HIDE DEF ph
      <4> QED BY <2>1, <4>1, <4>2, GatewayUpdate
    <3> QED BY <1>7, <3>1, <3>2 DEF UvStep
  <2>3. socks' \in [Gens -> Ports \cup {"closed"}]
    BY <1>7 DEF UvStep, UvServe, UvFail, UvExit, TypeOK
  <2>4. UNCHANGED <<object, services, state, gen, control>>
    BY <1>7 DEF UvStep, UvServe, UvFail, UvExit
  <2> QED BY <2>2, <2>3, <2>4 DEF TypeOK, Gateways, object, services, state,
        control, process
<1> QED BY <1>2, <1>3, <1>4, <1>5, <1>6, <1>7

-------------------------------------------------------------------------------
(* The control flow, with what it does to the server, the gateways and the    *)
(* lock.                                                                       *)

Walk(p, q) == Top.pc = p /\ Moves(q)
Same       == UNCHANGED <<server, gen, uv>>

Running == {"poll", "install", "warm", "warm_next", "warm_start", "warm_status"}
Downing == {"down", "down_next", "down_status", "exit"}

StartFlow ==
  \/ Unwound /\ Top.pc \in StartPcs \ {"registering"} /\ Same
  \/ Pops /\ Top.pc = "warm_next" /\ Same /\ lock' = lock
  \/ Walk("bind", "register") /\ server = NoGen /\ gen' = gen + 1
     /\ UNCHANGED <<server, uv, lock>>
  \/ Walk("register", "registering") /\ Same /\ lock' = Depth
  \/ Walk("registering", "register") /\ Same /\ lock' = 0
  \/ Walk("register", "server") /\ Same /\ lock' = lock
  \/ Walk("server", "thread") /\ server' = gen /\ UNCHANGED <<gen, uv, lock>>
  \/ Walk("thread", "spawn") /\ uv' = [uv EXCEPT ![gen].phase = "unstarted"]
     /\ UNCHANGED <<server, gen, lock>>
  \/ Walk("spawn", "poll") /\ uv' = [uv EXCEPT ![gen].phase = "booting"]
     /\ UNCHANGED <<server, gen, lock>>
  \/ (\E p, q \in Running : Walk(p, q)) /\ Same /\ lock' = lock

StopFlow ==
  \/ Unwound /\ Top.pc \in {"down_status", "exit", "join"} /\ Same
  \/ Pops /\ Top.pc = "check" /\ server = NoGen /\ Same /\ lock' = lock
  \/ Pops /\ Top.pc = "dropping" /\ Same /\ lock' = 0
  \/ Walk("check", "down") /\ server # NoGen /\ Same /\ lock' = lock
  \/ (\E p, q \in Downing : Walk(p, q)) /\ Same /\ lock' = lock
  \/ (Walk("exit", "join") \/ Walk("exit", "sock")) /\ server # NoGen
     /\ uv' = [uv EXCEPT ![server].exit = TRUE] /\ UNCHANGED <<server, gen, lock>>
  \/ (Walk("join", "sock") \/ Walk("sock", "close") \/ Walk("close", "closed"))
     /\ Same /\ lock' = lock
  \/ (Walk("sock", "drop") \/ Walk("closed", "drop")) /\ server' = NoGen
     /\ UNCHANGED <<gen, uv, lock>>
  \/ Walk("drop", "dropping") /\ Same /\ lock' = Depth

ResetFlow ==
  \/ Unwound /\ Top.pc \in {"warm_next", "down_next", "reset_next"} /\ Same
  \/ Pops /\ Top.pc = "reset_next" /\ Same /\ lock' = lock
  \/ (\E p, q \in ResetPcs : Walk(p, q)) /\ Same /\ lock' = lock

LEMMA StartFlows == ASSUME TypeOK, StartStep PROVE ~Idle /\ StartFlow
<1>1. CASE AlreadyRunning
  BY <1>1, RaiseUnwinds DEF AlreadyRunning, At, Same, object, gateway, state,
     StartFlow, Walk, StartPcs, ResetPcs
<1>2. CASE Bind
  BY <1>2, BindMoves DEF Bind, At, Same, object, gateway, state, StartFlow, Walk
<1>3. CASE BindFails
  BY <1>3, RaiseUnwinds DEF BindFails, At, Same, object, gateway, state,
     StartFlow, Walk, StartPcs, ResetPcs
<1>4. ASSUME NEW s \in Services, Register(s) PROVE ~Idle /\ StartFlow
  BY <1>4, RegisterMoves DEF Register, At, Same, object, gateway, state,
     StartFlow, Walk, StartPcs, ResetPcs
<1>5. CASE Registered
  BY <1>5, RegisteredMoves DEF Registered, At, Same, object, gateway, state,
     StartFlow, Walk
<1>6. CASE RejectService
  BY <1>6, RaiseUnwinds DEF RejectService, At, Same, object, gateway, state,
     StartFlow, Walk, StartPcs, ResetPcs
<1>7. CASE CreateServer
  BY <1>7, GotoMoves DEF CreateServer, At, Same, object, gateway, state,
     StartFlow, Walk, Pcs, StartPcs, StopPcs, ResetPcs
<1>8. CASE AssignServer
  BY <1>8, GotoMoves DEF AssignServer, At, Same, object, gateway, state,
     StartFlow, Walk, Pcs, StartPcs, StopPcs, ResetPcs
<1>9. CASE AssignThread
  BY <1>9, GotoMoves DEF AssignThread, At, Same, object, gateway, state,
     StartFlow, Walk, Pcs, StartPcs, StopPcs, ResetPcs
<1>10. CASE Spawn
  BY <1>10, GotoMoves DEF Spawn, At, Same, object, gateway, state, StartFlow,
     Walk, Pcs, StartPcs, StopPcs, ResetPcs
<1>11. CASE SpawnRefused
  BY <1>11, RaiseUnwinds DEF SpawnRefused, At, Same, object, gateway, state,
     StartFlow, Walk, StartPcs, ResetPcs
<1>12. CASE Poll
  <2>1. ~Idle /\ Top.pc = "poll" /\ Same
    BY <1>12 DEF Poll, At, Same, object, gateway
  <2>2. CASE Unwound
    BY <2>1, <2>2 DEF StartFlow, StartPcs
  <2>3. CASE (Moves("install") \/ Moves("poll")) /\ lock' = lock
    <3>1. "poll" \in Running /\ "install" \in Running
      BY DEF Running
    <3> QED BY <2>1, <2>3, <3>1 DEF StartFlow, Walk
  <2> QED BY <1>12, <2>1, <2>2, <2>3, PollShape DEF state
<1>13. CASE InstallHandlers
  BY <1>13, GotoMoves DEF InstallHandlers, At, Same, object, gateway, state,
     StartFlow, Walk, Pcs, StartPcs, StopPcs, ResetPcs, Running
<1>14. CASE Warm
  BY <1>14, LoopMoves DEF Warm, At, Same, object, gateway, state, StartFlow,
     Walk, Pcs, StartPcs, StopPcs, ResetPcs, Running
<1>15. ASSUME NEW s \in Services, BindPort(s) PROVE ~Idle /\ StartFlow
  BY <1>15, BindPortMoves DEF BindPort, At, Same, object, gateway, state,
     StartFlow, Walk, StartPcs, ResetPcs, Running
<1>16. CASE OnStart
  BY <1>16, GotoMoves DEF OnStart, At, Same, object, gateway, state, StartFlow,
     Walk, Pcs, StartPcs, StopPcs, ResetPcs, Running
<1>17. CASE SetUp
  BY <1>17, SetStatusShape DEF SetUp, At, Same, object, gateway, state,
     StartFlow, Walk, Pcs, StartPcs, StopPcs, ResetPcs, SetStatus, Running
<1>18. CASE StartReturns
  BY <1>18, ReturnPops DEF StartReturns, At, Same, object, gateway, state,
     StartFlow, Walk
<1> QED BY <1>1, <1>2, <1>3, <1>4, <1>5, <1>6, <1>7, <1>8, <1>9, <1>10,
  <1>11, <1>12, <1>13, <1>14, <1>15, <1>16, <1>17, <1>18 DEF StartStep

LEMMA StopFlows == ASSUME TypeOK, StopStep PROVE ~Idle /\ StopFlow
<1>1. CASE StopCheck
  BY <1>1, ReturnPops, GotoMoves DEF StopCheck, At, Same, object, gateway,
     state, StopFlow, Walk, Pcs, StartPcs, StopPcs, ResetPcs
<1>2. CASE Down
  BY <1>2, LoopMoves DEF Down, At, Same, object, gateway, state, StopFlow,
     Walk, Pcs, StartPcs, StopPcs, ResetPcs, Downing
<1>3. ASSUME NEW s \in Services, OnStop(s) PROVE ~Idle /\ StopFlow
  BY <1>3, OnStopMoves DEF OnStop, At, Same, object, gateway, state, StopFlow,
     Walk, StartPcs, ResetPcs, Downing
<1>4. CASE SetDown
  BY <1>4, SetStatusShape DEF SetDown, At, Same, object, gateway, state,
     StopFlow, Walk, Pcs, StartPcs, StopPcs, ResetPcs, SetStatus, Downing
<1>5. CASE AllDown
  BY <1>5, GotoMoves DEF AllDown, At, Same, object, gateway, state, StopFlow,
     Walk, Pcs, StartPcs, StopPcs, ResetPcs, Downing
<1>6. CASE AskExit
  BY <1>6, AskExitShape DEF AskExit, At, Same, object, gateway, state,
     StopFlow, Walk
<1>7. CASE Join
  BY <1>7, RaiseUnwinds, GotoMoves DEF Join, At, Same, object, gateway, state,
     StopFlow, Walk, Pcs, StartPcs, StopPcs, ResetPcs
<1>8. CASE CallClose
  BY <1>8, CallCloseMoves DEF CallClose, At, Same, object, gateway, state,
     StopFlow, Walk
<1>9. CASE CloseSocket
  BY <1>9, GotoMoves DEF CloseSocket, At, Same, object, gateway, state,
     StopFlow, Walk, Pcs, StartPcs, StopPcs, ResetPcs
<1>10. CASE Forget
  BY <1>10, GotoMoves DEF Forget, At, Same, object, gateway, state, StopFlow,
     Walk, Pcs, StartPcs, StopPcs, ResetPcs
<1>11. CASE Drop
  BY <1>11, GotoMoves DEF Drop, At, Same, object, gateway, state, StopFlow,
     Walk, Pcs, StartPcs, StopPcs, ResetPcs
<1>12. CASE StopReturns
  BY <1>12, ReturnPops DEF StopReturns, At, Same, object, gateway, state,
     StopFlow, Walk
<1> QED BY <1>1, <1>2, <1>3, <1>4, <1>5, <1>6, <1>7, <1>8, <1>9, <1>10,
  <1>11, <1>12 DEF StopStep

LEMMA ResetFlows == ASSUME TypeOK, ResetStep \/ LoopBroken PROVE ~Idle /\ ResetFlow
<1>1. CASE Reset
  BY <1>1, LoopMoves DEF Reset, At, Same, object, gateway, state, ResetFlow,
     Walk, Pcs, StartPcs, StopPcs, ResetPcs
<1>2. ASSUME NEW s \in Services, ResetService(s) PROVE ~Idle /\ ResetFlow
  BY <1>2, ResetServiceMoves DEF ResetService, At, Same, object, gateway,
     state, ResetFlow, Walk, StartPcs, ResetPcs
<1>3. CASE ResetReturns
  BY <1>3, ReturnPops DEF ResetReturns, At, Same, object, gateway, state,
     ResetFlow, Walk, StartPcs, ResetPcs
<1>4. CASE LoopBroken
  BY <1>4, RaiseUnwinds DEF LoopBroken, At, Same, object, gateway, state,
     ResetFlow, Walk, StartPcs, ResetPcs
<1> QED BY <1>1, <1>2, <1>3, <1>4 DEF ResetStep

-------------------------------------------------------------------------------
(* Type correctness.                                                          *)

LEMMA UnwoundBottom ==
  ASSUME TypeInv, ~Idle, Unwound, gen' = gen
  PROVE  (StartAtBottom /\ StartLeft)'
<1>1. Depth \in Nat /\ Depth' \in 0..(Depth - 1)
  BY TopFrame DEF TypeInv, Unwound
<1>2. ASSUME NEW j \in 1..Depth', stack'[j].pc \in StartPcs
      PROVE  stack[j].pc = stack'[j].pc /\ j \in 1..Depth
  BY <1>1, <1>2 DEF Unwound, StartPcs
<1> QED BY <1>1, <1>2 DEF TypeInv, StartAtBottom, StartLeft, StartPcs

LEMMA PopsBottom ==
  ASSUME TypeInv, ~Idle, Pops, gen' = gen
  PROVE  (StartAtBottom /\ StartLeft)'
BY TopFrame DEF TypeInv, Pops, StartAtBottom, StartLeft

LEMMA WalkBottom ==
  ASSUME TypeInv, ~Idle, NEW p, NEW q, Walk(p, q), q # "bind",
         q \in StartPcs => p \in StartPcs,
         gen' = gen \/ p = "bind"
  PROVE  (StartAtBottom /\ StartLeft)'
<1>1. Depth \in Nat \ {0} /\ Top = stack[Depth] /\ Top.pc = p /\ Depth' = Depth
  BY TopFrame DEF TypeInv, Walk, Moves, Top
<1>2. ASSUME p \in StartPcs PROVE Depth = 1
  BY <1>1, <1>2 DEF TypeInv, StartAtBottom
<1>3. ASSUME NEW j \in 1..Depth', stack'[j].pc \in StartPcs
      PROVE  j = 1
  BY <1>1, <1>2, <1>3 DEF TypeInv, StartAtBottom, Walk, Moves
<1>4. ASSUME NEW j \in 1..Depth', stack'[j].pc = "bind"
      PROVE  gen' < MaxStarts
  <2>1. j # Depth /\ stack[j].pc = "bind"
    BY <1>1, <1>4 DEF Walk, Moves
  <2>2. p # "bind"
    BY <1>1, <1>2, <2>1 DEF StartPcs
  <2> QED BY <1>1, <1>4, <2>1, <2>2 DEF TypeInv, StartLeft
<1> QED BY <1>3, <1>4 DEF StartAtBottom, StartLeft

LEMMA Bottom == ASSUME TypeInv, [Next]_vars PROVE (StartAtBottom /\ StartLeft)'
<1>1. CASE StartStep
  <2>1. ~Idle /\ StartFlow
    BY <1>1, StartFlows DEF TypeInv
  <2> QED BY <2>1, UnwoundBottom, PopsBottom, WalkBottom
          DEF StartFlow, Same, StartPcs, Running
<1>2. CASE StopStep
  <2>1. ~Idle /\ StopFlow
    BY <1>2, StopFlows DEF TypeInv
  <2> QED BY <2>1, UnwoundBottom, PopsBottom, WalkBottom
          DEF StopFlow, Same, StartPcs, Downing
<1>3. CASE ResetStep \/ LoopBroken
  <2>1. ~Idle /\ ResetFlow
    BY <1>3, ResetFlows DEF TypeInv
  <2> QED BY <2>1, UnwoundBottom, PopsBottom, WalkBottom
          DEF ResetFlow, Same, StartPcs, ResetPcs
<1>4. CASE CallStart \/ CallStop \/ CallReset
  <2>1. PICK op \in Ops, pc \in {"bind", "check", "reset"} :
          stack' = <<NewFrame(op, pc)>>
    BY <1>4 DEF CallStart, CallStop, CallReset, Call, Ops
  <2>2. Depth' = 1 /\ stack'[1].pc = pc
    BY <2>1 DEF Depth, NewFrame
  <2>3. gen' = gen /\ (pc = "bind" => gen < MaxStarts)
    BY <1>4, <2>1, <2>2 DEF CallStart, CallStop, CallReset, Call, NewFrame, gateway
  <2> QED BY <2>2, <2>3 DEF StartAtBottom, StartLeft
<1>5. CASE Signal
  <2>1. /\ Depth' = Depth + 1
        /\ \A j \in 1..Depth : stack'[j] = stack[j]
        /\ stack'[Depth + 1].pc = "check"
    BY <1>5 DEF Signal, TypeInv, TypeOK, Depth, NewFrame
  <2>2. Depth \in Nat /\ gen' = gen
    BY <1>5 DEF TypeInv, TypeOK, Depth, Signal, gateway
  <2> QED BY <2>1, <2>2 DEF TypeInv, StartAtBottom, StartLeft, StartPcs
<1>6. CASE UNCHANGED vars \/ (\E s \in Services : Request(s)) \/ (\E g \in Gens : UvStep(g))
  <2>1. stack' = stack /\ gen' = gen
    BY <1>6 DEF vars, Request, UvStep, UvServe, UvFail, UvExit, control, gateway
  <2> QED BY <2>1 DEF TypeInv, StartAtBottom, StartLeft, Depth
<1> QED BY <1>1, <1>2, <1>3, <1>4, <1>5, <1>6 DEF Next, MainStep

\* Every variable stays in its type, start() only ever runs at the bottom of the
\* stack, and it never binds more sockets than the bound allows.
LEMMA TypeStep == ASSUME TypeInv, [Next]_vars PROVE TypeInv'
<1>1. TypeOK'
  <2>1. CASE MainStep
    BY <2>1, StartTypes, StopTypes, ResetTypes DEF MainStep
  <2>2. CASE \/ CallStart \/ CallStop \/ CallReset \/ Signal
             \/ \E s \in Services : Request(s)
             \/ \E g \in Gens : UvStep(g)
    BY <2>2, OtherTypes
  <2>3. CASE UNCHANGED vars
    BY <2>3 DEF TypeInv, TypeOK, vars, object, services, state, gateway, control,
       process
  <2> QED BY <2>1, <2>2, <2>3 DEF Next
<1> QED BY <1>1, Bottom DEF TypeInv

LEMMA TypeInit == ASSUME Init PROVE TypeInv
<1>1. stack \in Seq(Frame) /\ Depth = 0
  BY DEF Init, Depth
<1>2. uv \in [Gens -> [phase   : {"none", "unstarted", "booting", "serving", "dead"},
                       started : BOOLEAN,
                       exit    : BOOLEAN]]
  BY DEF Init, NoServer
<1>3. /\ running \in [Services -> BOOLEAN]
      /\ bound \in [Services -> Ports \cup {"none"}]
      /\ data \in [Services -> {"none", "old", "new"}]
      /\ records \in [Services -> {"absent", "down", "up"}]
      /\ socks \in [Gens -> Ports \cup {"closed"}]
  BY DEF Init
<1>4. last \in [op : Ops \cup {"none"}, ok : BOOLEAN]
  BY DEF Init
<1>5. /\ server \in 0..MaxStarts /\ thread \in 0..MaxStarts /\ sock \in 0..MaxStarts
      /\ port \in Ports \cup {"none"} /\ mapped \subseteq Services /\ lock \in Nat
      /\ gen \in 0..MaxStarts /\ config \in Configs
      /\ signals \in 0..MaxSignals
  BY ConstantsOK DEF Init
<1>6. handlers \in BOOLEAN
  BY Zenon DEF Init
<1>7. TypeOK
  BY <1>1, <1>2, <1>3, <1>4, <1>5, <1>6 DEF TypeOK
<1> QED BY <1>1, <1>7 DEF TypeInv, StartAtBottom, StartLeft

\* TypeOK is inductive together with what it needs: only a call from outside is
\* in start(), and start() binds a socket only while one is left.
THEOREM TypeInvariant == Spec => []TypeInv
<1>1. Init => TypeInv
  BY TypeInit
<1>2. TypeInv /\ [Next]_vars => TypeInv'
  BY TypeStep
<1> QED BY <1>1, <1>2, PTL DEF Spec

\* In every run every field, frame, socket and gateway thread keeps its type.
THEOREM TypeCorrect == Spec => []TypeOK
<1>1. TypeInv => TypeOK
  BY DEF TypeInv
<1> QED BY <1>1, TypeInvariant, PTL

-------------------------------------------------------------------------------
(* The lock.                                                                  *)

\* Only the holder of the lock, or a handler that has not looked at _server yet,
\* can be running while it is held.
LEMMA LockFree ==
  ASSUME TypeInv, LockInv, ~Idle
  PROVE  /\ Top.pc \notin {"check", "registering", "dropping"} => lock = 0
         /\ server # NoGen => lock = 0
         /\ lock # 0 => lock \in 1..Depth
<1>1. Depth \in Nat \ {0} /\ Top = stack[Depth] /\ lock \in Nat
  BY TopFrame DEF TypeInv, TypeOK, Top
<1>2. ASSUME lock # 0 PROVE lock \in 1..Depth /\ server = NoGen
  BY <1>1, <1>2 DEF LockInv, LockHeld, NoServerThere, NoServerPcs
<1>3. ASSUME lock # 0 PROVE Top.pc \in {"check", "registering", "dropping"}
  BY <1>1, <1>2, <1>3 DEF LockInv, LockHeld
<1> QED BY <1>2, <1>3

LEMMA UnwoundLock ==
  ASSUME TypeInv, LockInv, ~Idle, Unwound, server' = server, lock = 0
  PROVE  LockInv'
<1>1. Depth \in Nat /\ Depth' \in 0..(Depth - 1) /\ lock' = 0
  BY TopFrame DEF TypeInv, Unwound
<1>2. ASSUME NEW j \in 1..Depth', stack'[j].pc \in NoServerPcs
      PROVE  stack[j].pc \in NoServerPcs /\ j \in 1..Depth
  BY <1>1, <1>2 DEF Unwound, NoServerPcs
<1> QED BY <1>1, <1>2 DEF LockInv, NoServerThere, LockHeld

LEMMA PopsLock ==
  ASSUME TypeInv, LockInv, ~Idle, Pops, server' = server,
         lock' = 0 \/ (lock' = lock /\ Top.pc \notin {"registering", "dropping"})
  PROVE  LockInv'
<1>1. Depth \in Nat \ {0} /\ Top = stack[Depth] /\ Depth' = Depth - 1
  BY TopFrame DEF TypeInv, Pops, Top
<1>2. NoServerThere'
  BY <1>1 DEF Pops, LockInv, NoServerThere
<1>3. CASE lock' = 0
  BY <1>2, <1>3 DEF LockInv, LockHeld
<1>4. CASE lock' # 0
  <2>1. lock' = lock /\ lock \in 1..Depth /\ lock # Depth
    BY <1>1, <1>4, LockFree DEF LockInv, LockHeld
  <2>2. LockHeld'
    BY <1>1, <1>4, <2>1 DEF Pops, LockInv, LockHeld
  <2> QED BY <1>2, <2>2 DEF LockInv
<1> QED BY <1>3, <1>4

LEMMA WalkLock ==
  ASSUME TypeInv, LockInv, ~Idle, NEW p, NEW q, Walk(p, q),
         q \in NoServerPcs => server' = NoGen,
         server' \in {server, NoGen} \/ p = "server",
         \/ lock' = 0
         \/ lock' = Depth /\ q \in {"registering", "dropping"}
  PROVE  LockInv'
<1>1. /\ Depth \in Nat \ {0} /\ Depth' = Depth
      /\ Top = stack[Depth] /\ Top.pc = p /\ stack'[Depth].pc = q
      /\ \A j \in 1..Depth : j # Depth => stack'[j] = stack[j]
  BY TopFrame DEF TypeInv, Walk, Moves, Top
<1>2. ASSUME NEW j \in 1..Depth, stack'[j].pc \in NoServerPcs
      PROVE  server' = NoGen
  <2>1. CASE j = Depth
    BY <1>1, <1>2, <2>1
  <2>2. CASE j # Depth
    <3>1. p # "server"
      BY <1>1, <2>2 DEF TypeInv, StartAtBottom, StartPcs
    <3>2. server = NoGen
      BY <1>1, <1>2, <2>2 DEF LockInv, NoServerThere
    <3> QED BY <3>1, <3>2
  <2> QED BY <2>1, <2>2
<1>3. LockHeld'
  BY <1>1 DEF LockHeld
<1> QED BY <1>1, <1>2, <1>3 DEF LockInv, NoServerThere

LEMMA LockStep == ASSUME TypeInv, LockInv, [Next]_vars PROVE LockInv'
<1>1. CASE StartStep
  <2>1. ~Idle /\ StartFlow
    BY <1>1, StartFlows DEF TypeInv
  <2>2. Top.pc = "register" => server = NoGen
    BY <2>1, TopFrame DEF TypeInv, LockInv, NoServerThere, NoServerPcs, Top
  <2>3. Top.pc = "registering" => server = NoGen
    BY <2>1, TopFrame DEF TypeInv, LockInv, NoServerThere, NoServerPcs, Top
  <2> QED BY <2>1, <2>2, <2>3, LockFree, UnwoundLock, PopsLock, WalkLock
          DEF StartFlow, Same, StartPcs, Running, NoServerPcs, Walk
<1>2. CASE StopStep
  <2>1. ~Idle /\ StopFlow
    BY <1>2, StopFlows DEF TypeInv
  <2>2. Top.pc = "drop" => server = NoGen
    BY <2>1, TopFrame DEF TypeInv, LockInv, NoServerThere, NoServerPcs, Top
  <2> QED BY <2>1, <2>2, LockFree, UnwoundLock, PopsLock, WalkLock
          DEF StopFlow, Same, Downing, NoServerPcs, Walk
<1>3. CASE ResetStep \/ LoopBroken
  <2>1. ~Idle /\ ResetFlow
    BY <1>3, ResetFlows DEF TypeInv
  <2> QED BY <2>1, LockFree, UnwoundLock, PopsLock, WalkLock
          DEF ResetFlow, Same, ResetPcs, NoServerPcs, Walk
<1>4. CASE CallStart \/ CallStop \/ CallReset
  <2>1. PICK op \in Ops, pc \in {"bind", "check", "reset"} :
          stack' = <<NewFrame(op, pc)>>
    BY <1>4 DEF CallStart, CallStop, CallReset, Call, Ops
  <2>2. Depth' = 1 /\ stack'[1].pc = pc
    BY <2>1 DEF Depth, NewFrame
  <2>3. lock' = lock /\ Depth = 0
    BY <1>4 DEF CallStart, CallStop, CallReset, Call, state, Idle, Depth
  <2>4. lock = 0
    BY <2>3 DEF TypeInv, TypeOK, LockInv, LockHeld
  <2> QED BY <2>2, <2>3, <2>4 DEF LockInv, NoServerThere, NoServerPcs, LockHeld
<1>5. CASE Signal
  <2>1. /\ Depth' = Depth + 1
        /\ \A j \in 1..Depth : stack'[j] = stack[j]
        /\ stack'[Depth + 1].pc = "check"
    BY <1>5 DEF Signal, TypeInv, TypeOK, Depth, NewFrame
  <2>2. Depth \in Nat /\ server' = server /\ lock' = lock /\ lock \in Nat
    BY <1>5 DEF TypeInv, TypeOK, Depth, Signal, object, state
  <2>3. NoServerThere'
    BY <2>1, <2>2 DEF LockInv, NoServerThere, NoServerPcs
  <2>4. LockHeld'
    BY <2>1, <2>2 DEF LockInv, LockHeld
  <2> QED BY <2>3, <2>4 DEF LockInv
<1>6. CASE UNCHANGED vars \/ (\E s \in Services : Request(s)) \/ (\E g \in Gens : UvStep(g))
  <2>1. stack' = stack /\ server' = server /\ lock' = lock
    BY <1>6 DEF vars, Request, UvStep, UvServe, UvFail, UvExit, control, object,
       state
  <2> QED BY <2>1 DEF LockInv, NoServerThere, LockHeld, Depth
<1> QED BY <1>1, <1>2, <1>3, <1>4, <1>5, <1>6 DEF Next, MainStep

\* Whoever interrupts the holder of StateManager._lock is at the check of stop(),
\* where it finds `_server` None.
THEOREM LockInvariant == Spec => []LockInv
<1>1. Init => LockInv
  BY DEF Init, LockInv, NoServerThere, LockHeld, Depth
<1>2. TypeInv /\ LockInv /\ [Next]_vars => LockInv'
  BY LockStep
<1> QED BY <1>1, <1>2, TypeInvariant, PTL DEF Spec

\* However signals nest, the frame that holds StateManager._lock is never below
\* one that would wait for it.
THEOREM NeverSelfDeadlocked == Spec => []NoSelfDeadlock
<1>1. LockInv => NoSelfDeadlock
  BY DEF LockInv, LockHeld, NoSelfDeadlock, LockPcs
<1> QED BY <1>1, LockInvariant, PTL

-------------------------------------------------------------------------------
(* Threads that outlive their server.                                         *)

Stopping == {"join", "sock", "close", "closed"}

LEMMA UnwoundStray ==
  ASSUME TypeInv, StrayInv, ~Idle, Unwound, Same
  PROVE  StrayInv'
<1>1. Depth \in Nat /\ Depth' \in 0..(Depth - 1)
  BY TopFrame DEF TypeInv, Unwound
<1>2. ASSUME NEW j \in 1..Depth'
      PROVE  /\ j \in 1..Depth
             /\ stack'[j].pc \in Stopping => stack[j].pc \in Stopping
             /\ stack'[j].pc \in StartPcs => stack[j].pc = stack'[j].pc
  BY <1>1 DEF Unwound, Stopping, StartPcs
<1>3. NoStrayThread'
  BY DEF StrayInv, NoStrayThread, Same
<1>4. ExitAsked'
  BY <1>2 DEF StrayInv, ExitAsked, Same, Stopping, StartPcs
<1> QED BY <1>3, <1>4 DEF StrayInv

LEMMA PopsStray ==
  ASSUME TypeInv, StrayInv, ~Idle, Pops, Same
  PROVE  StrayInv'
<1>1. Depth \in Nat \ {0} /\ Depth' = Depth - 1
  BY TopFrame DEF TypeInv, Pops
<1> QED BY <1>1 DEF Pops, StrayInv, NoStrayThread, ExitAsked, Same

LEMMA WalkStray ==
  ASSUME TypeInv, StrayInv, ~Idle, NEW p, NEW q, Walk(p, q), Same,
         q \in Stopping => p \in Stopping,
         q \in StartPcs \ {"bind"} => p \in StartPcs \ {"bind"},
         q \notin {"thread", "spawn"}
  PROVE  StrayInv'
<1>1. /\ Depth \in Nat \ {0} /\ Depth' = Depth
      /\ stack[Depth].pc = p /\ stack'[Depth].pc = q
      /\ \A j \in 1..Depth : j # Depth => stack'[j] = stack[j]
  BY TopFrame DEF TypeInv, Walk, Moves, Top
<1>2. NoStrayThread'
  BY DEF StrayInv, NoStrayThread, Same
<1>3. ASSUME NEW j \in 1..Depth
      PROVE  /\ stack'[j].pc \in Stopping => stack[j].pc \in Stopping
             /\ stack'[j].pc \in StartPcs \ {"bind"} => stack[j].pc \in StartPcs \ {"bind"}
             /\ stack'[j].pc \in {"thread", "spawn"} => stack[j].pc = stack'[j].pc
  BY <1>1
<1>4. ExitAsked'
  BY <1>1, <1>3 DEF StrayInv, ExitAsked, Same, Stopping
<1> QED BY <1>2, <1>4 DEF StrayInv

\* The steps of start() that touch the server or a gateway run with no frame
\* below them.
LEMMA StartStray == ASSUME TypeInv, LockInv, StrayInv, StartStep PROVE StrayInv'
<1>1. ~Idle /\ StartFlow
  BY StartFlows DEF TypeInv
<1>2. /\ Depth \in Nat \ {0} /\ Top = stack[Depth]
      /\ gen \in 0..MaxStarts /\ server \in 0..MaxStarts
      /\ uv \in Gateways
  BY <1>1, TopFrame DEF TypeInv, TypeOK, Top, Gateways
<1>3. ASSUME NEW p \in StartPcs, NEW q, Walk(p, q)
      PROVE  /\ Depth = 1 /\ Depth' = 1 /\ stack[1].pc = p /\ stack'[1].pc = q
             /\ p # "bind" => gen # 0
             /\ p \in {"thread", "spawn"} => server = gen \/ uv[gen].exit
             /\ p = "server" => server = NoGen
  <2>1. Depth = 1 /\ stack[1].pc = p
    BY <1>2, <1>3 DEF TypeInv, StartAtBottom, Walk
  <2>2. Depth' = 1 /\ stack'[1].pc = q
    BY <1>3, <2>1 DEF Walk, Moves
  <2>3. /\ p # "bind" => gen # 0
        /\ p \in {"thread", "spawn"} => server = gen \/ uv[gen].exit
    BY <1>3, <2>1 DEF StrayInv, ExitAsked
  <2>4. p = "server" => server = NoGen
    BY <1>3, <2>1 DEF LockInv, NoServerThere, NoServerPcs
  <2> QED BY <2>1, <2>2, <2>3, <2>4
<1>4. CASE Walk("bind", "register") /\ gen' = gen + 1 /\ UNCHANGED <<server, uv>>
  BY <1>2, <1>3, <1>4 DEF StrayInv, NoStrayThread, ExitAsked, StartPcs
<1>5. CASE Walk("server", "thread") /\ server' = gen /\ UNCHANGED <<gen, uv>>
  <2>1. /\ Depth' = 1 /\ stack'[1].pc = "thread"
        /\ gen # 0 /\ server = NoGen
    BY <1>3, <1>5 DEF StartPcs
  <2>2. NoStrayThread'
    BY <1>5, <2>1 DEF StrayInv, NoStrayThread, Gens
  <2>3. ExitAsked'
    BY <1>5, <2>1 DEF ExitAsked
  <2> QED BY <2>2, <2>3 DEF StrayInv
<1>6. CASE Walk("thread", "spawn") /\ uv' = [uv EXCEPT ![gen].phase = "unstarted"]
           /\ UNCHANGED <<server, gen>>
  <2>1. \A g \in Gens : /\ uv'[g].exit = uv[g].exit
                        /\ uv'[g].phase \in {uv[g].phase, "unstarted"}
    BY <1>2, <1>6 DEF Gateways
  <2>2. NoStrayThread'
    BY <1>6, <2>1 DEF StrayInv, NoStrayThread
  <2>3. gen \in Gens
    BY <1>2, <1>3, <1>6 DEF StartPcs, Gens
  <2>4. ExitAsked'
    BY <1>2, <1>3, <1>6, <2>1, <2>3 DEF ExitAsked, StartPcs
  <2> QED BY <2>2, <2>4 DEF StrayInv
<1>7. CASE Walk("spawn", "poll") /\ uv' = [uv EXCEPT ![gen].phase = "booting"]
           /\ UNCHANGED <<server, gen>>
  <2>1. \A g \in Gens : /\ uv'[g].exit = uv[g].exit
                        /\ g # gen => uv'[g].phase = uv[g].phase
    BY <1>2, <1>7 DEF Gateways
  <2>2. server = gen \/ uv[gen].exit
    BY <1>3, <1>7 DEF StartPcs
  <2>3. NoStrayThread'
    BY <1>7, <2>1, <2>2 DEF StrayInv, NoStrayThread
  <2>4. ExitAsked'
    BY <1>3, <1>7 DEF ExitAsked, StartPcs
  <2> QED BY <2>3, <2>4 DEF StrayInv
<1>8. CASE (Walk("register", "registering") \/ Walk("registering", "register")
            \/ Walk("register", "server") \/ \E p, q \in Running : Walk(p, q)) /\ Same
  BY <1>1, <1>8, WalkStray DEF Running, StartPcs, Stopping
<1> QED BY <1>1, <1>4, <1>5, <1>6, <1>7, <1>8, UnwoundStray, PopsStray DEF StartFlow

\* stop() forgets the server only after it has asked it to exit.
LEMMA StopStray == ASSUME TypeInv, StrayInv, StopStep PROVE StrayInv'
<1>1. ~Idle /\ StopFlow
  BY StopFlows DEF TypeInv
<1>2. /\ Depth \in Nat \ {0} /\ Top = stack[Depth]
      /\ gen \in 0..MaxStarts /\ server \in 0..MaxStarts
      /\ uv \in Gateways
  BY <1>1, TopFrame DEF TypeInv, TypeOK, Top, Gateways
<1>3. ASSUME NEW p, NEW q, Walk(p, q)
      PROVE  /\ Depth' = Depth /\ stack[Depth].pc = p /\ stack'[Depth].pc = q
             /\ \A j \in 1..Depth : j # Depth => stack'[j] = stack[j]
  BY <1>2, <1>3 DEF Walk, Moves
<1>4. CASE (Walk("exit", "join") \/ Walk("exit", "sock")) /\ server # NoGen
           /\ uv' = [uv EXCEPT ![server].exit = TRUE] /\ UNCHANGED <<server, gen>>
  <2>1. server \in Gens
    BY <1>2, <1>4 DEF Gens
  <2>2. /\ uv'[server].exit
        /\ \A g \in Gens : /\ uv'[g].phase = uv[g].phase
                           /\ uv[g].exit => uv'[g].exit
    BY <1>2, <1>4, <2>1 DEF Gateways
  <2>3. NoStrayThread'
    BY <1>4, <2>2 DEF StrayInv, NoStrayThread
  <2>4. \A j \in 1..Depth : /\ stack'[j].pc \in StartPcs => stack'[j] = stack[j]
    BY <1>3, <1>4 DEF StartPcs
  <2>5. \A j \in 1..Depth : stack'[j].pc \in StartPcs \ {"bind"} => gen # 0
    BY <2>4 DEF StrayInv, ExitAsked
  <2>6. \A j \in 1..Depth : stack'[j].pc \in {"thread", "spawn"}
                              => server = gen \/ uv'[gen].exit
    <3>1. ASSUME NEW j \in 1..Depth, stack'[j].pc \in {"thread", "spawn"}
          PROVE  gen \in Gens /\ (server = gen \/ uv[gen].exit)
      BY <1>2, <2>4, <3>1 DEF StrayInv, ExitAsked, StartPcs, Gens
    <3> QED BY <2>2, <3>1
  <2>7. ExitAsked'
    BY <1>3, <1>4, <2>2, <2>5, <2>6 DEF ExitAsked
  <2> QED BY <2>3, <2>7 DEF StrayInv
<1>5. CASE (Walk("sock", "drop") \/ Walk("closed", "drop")) /\ server' = NoGen
           /\ UNCHANGED <<gen, uv>>
  <2>1. server = NoGen \/ uv[server].exit
    BY <1>2, <1>3, <1>5 DEF StrayInv, ExitAsked
  <2>2. NoStrayThread'
    BY <1>5, <2>1 DEF StrayInv, NoStrayThread
  <2>3. ExitAsked'
    BY <1>2, <1>3, <1>5, <2>1 DEF StrayInv, ExitAsked, StartPcs
  <2> QED BY <2>2, <2>3 DEF StrayInv
<1>6. CASE (\/ Walk("check", "down") \/ (\E p, q \in Downing : Walk(p, q))
            \/ Walk("join", "sock") \/ Walk("sock", "close") \/ Walk("close", "closed")
            \/ Walk("drop", "dropping")) /\ Same
  BY <1>1, <1>6, WalkStray DEF Downing, StartPcs, Stopping
<1> QED BY <1>1, <1>4, <1>5, <1>6, UnwoundStray, PopsStray DEF StopFlow

LEMMA StrayStep == ASSUME TypeInv, LockInv, StrayInv, [Next]_vars PROVE StrayInv'
<1>1. CASE StartStep
  BY <1>1, StartStray
<1>2. CASE StopStep
  BY <1>2, StopStray
<1>3. CASE ResetStep \/ LoopBroken
  <2>1. ~Idle /\ ResetFlow
    BY <1>3, ResetFlows DEF TypeInv
  <2> QED BY <2>1, UnwoundStray, PopsStray, WalkStray DEF ResetFlow, ResetPcs,
     StartPcs,
          Stopping
<1>4. CASE CallStart \/ CallStop \/ CallReset
  <2>1. PICK op \in Ops, pc \in {"bind", "check", "reset"} :
          stack' = <<NewFrame(op, pc)>>
    BY <1>4 DEF CallStart, CallStop, CallReset, Call, Ops
  <2>2. Depth' = 1 /\ stack'[1].pc = pc
    BY <2>1 DEF Depth, NewFrame
  <2>3. UNCHANGED <<server, gen, uv>>
    BY <1>4 DEF CallStart, CallStop, CallReset, Call, object, gateway
  <2> QED BY <2>2, <2>3 DEF StrayInv, NoStrayThread, ExitAsked, StartPcs
<1>5. CASE Signal
  <2>1. /\ Depth' = Depth + 1
        /\ \A j \in 1..Depth : stack'[j] = stack[j]
        /\ stack'[Depth + 1].pc = "check"
    BY <1>5 DEF Signal, TypeInv, TypeOK, Depth, NewFrame
  <2>2. Depth \in Nat /\ UNCHANGED <<server, gen, uv>>
    BY <1>5 DEF TypeInv, TypeOK, Depth, Signal, object, gateway
  <2> QED BY <2>1, <2>2 DEF StrayInv, NoStrayThread, ExitAsked, StartPcs
<1>6. ASSUME NEW g \in Gens, UvStep(g) PROVE StrayInv'
  <2>1. /\ \A h \in Gens : uv'[h].exit = uv[h].exit
        /\ \A h \in Gens : uv'[h].phase \in {"booting", "serving"}
                             => uv[h].phase \in {"booting", "serving"}
    <3>1. uv \in Gateways
      BY DEF TypeInv, TypeOK, Gateways
    <3> QED BY <1>6, <3>1 DEF UvStep, UvServe, UvFail, UvExit, Gateways
  <2>2. UNCHANGED <<server, gen, stack>>
    BY <1>6 DEF UvStep, UvServe, UvFail, UvExit, object, control
  <2>3. gen \in 0..MaxStarts /\ server \in 0..MaxStarts
    BY DEF TypeInv, TypeOK
  <2>4. NoStrayThread'
    BY <2>1, <2>2 DEF StrayInv, NoStrayThread
  <2>5. ExitAsked'
    BY <2>1, <2>2, <2>3 DEF StrayInv, ExitAsked, Depth, Gens, StartPcs
  <2> QED BY <2>4, <2>5 DEF StrayInv
<1>7. CASE UNCHANGED vars \/ \E s \in Services : Request(s)
  <2>1. UNCHANGED <<server, gen, uv, stack>>
    BY <1>7 DEF vars, Request, control, object, gateway
  <2> QED BY <2>1 DEF StrayInv, NoStrayThread, ExitAsked, Depth
<1> QED BY <1>1, <1>2, <1>3, <1>4, <1>5, <1>6, <1>7 DEF Next, MainStep

\* Whatever interleaving of calls and signals, and whether or not joins time out,
\* a gateway thread the server has lost sight of has been asked to exit.
THEOREM StrayInvariant == Spec => []StrayInv
<1>1. Init => StrayInv
  BY DEF Init, StrayInv, NoStrayThread, ExitAsked, Depth, NoServer
<1>2. TypeInv /\ LockInv /\ StrayInv /\ [Next]_vars => StrayInv'
  BY StrayStep
<1> QED BY <1>1, <1>2, TypeInvariant, LockInvariant, PTL DEF Spec

\* No gateway thread is left serving for ever behind the server's back.
THEOREM NoThreadLeftServing == Spec => []NoStrayThread
<1>1. StrayInv => NoStrayThread
  BY DEF StrayInv
<1> QED BY <1>1, StrayInvariant, PTL
===============================================================================
