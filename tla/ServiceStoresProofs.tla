-------------------------- MODULE ServiceStoresProofs --------------------------
(***************************************************************************)
(* Theorems about ServiceStores.  Every step either adds one operation,    *)
(* changes one, or leaves the operations alone (the lemmas on shapes); an  *)
(* operation that is finished never changes again.  What a reset() has     *)
(* passed holds nothing of what was finished when it began, because only   *)
(* operations that are just finishing enter a store.                       *)
(***************************************************************************)
EXTENDS ServiceStores, TLAPS

\* A request addresses what its kind of request can address.
Targets ==
  \A i \in DOMAIN ops : /\ ops[i].kind = "call" => ops[i].on \in Routes
                        /\ ops[i].kind = "publish" => ops[i].on \in Topics
                        /\ ops[i].kind = "put" => ops[i].on \in Objects
TypeInv == TypeOK /\ Targets

-------------------------------------------------------------------------------
(* Shapes of the steps.                                                    *)

\* ops grows by one operation.
Grown(op) == /\ ops' \in Seq(Op) /\ Len(ops') = Len(ops) + 1 /\ Len(ops') <= MaxOps
             /\ \A j \in DOMAIN ops : j \in DOMAIN ops' /\ ops'[j] = ops[j]
             /\ DOMAIN ops' = DOMAIN ops \cup {Len(ops) + 1}
             /\ ops'[Len(ops) + 1] = op
             /\ Len(ops) + 1 \notin DOMAIN ops

\* One operation changes.
Changed(i, op) == /\ ops' \in Seq(Op) /\ Len(ops') = Len(ops)
                  /\ DOMAIN ops' = DOMAIN ops
                  /\ \A j \in DOMAIN ops : j # i => ops'[j] = ops[j]
                  /\ ops'[i] = op

LEMMA NewGrows ==
  ASSUME TypeOK, NEW op \in Op, New(op)
  PROVE  Grown(op)
<1>1. ops \in Seq(Op) /\ Len(ops) \in Nat
  BY DEF TypeOK
<1>2. ops' = Append(ops, op) /\ Len(ops) + 1 <= MaxOps
  BY <1>1, StoresOK DEF New
<1> QED BY <1>1, <1>2 DEF Grown

LEMMA ExceptChanges ==
  ASSUME TypeOK, NEW i \in DOMAIN ops, NEW op \in Op, ops' = [ops EXCEPT ![i] = op]
  PROVE  Changed(i, op)
<1>1. ops \in Seq(Op)
  BY DEF TypeOK
<1> QED BY <1>1 DEF Changed

LEMMA OpType == ASSUME TypeOK, NEW i \in DOMAIN ops PROVE ops[i] \in Op
BY DEF TypeOK

LEMMA IdsAreNat == ASSUME TypeOK PROVE /\ DOMAIN ops = 1..Len(ops) /\ Len(ops) \in Nat
                                       /\ DOMAIN ops \subseteq Ids /\ Nil \notin DOMAIN ops
BY StoresOK DEF TypeOK, Ids, Nil

Kinds == {"call", "publish", "put"}

LEMMA NewOpType ==
  ASSUME NEW kind \in Kinds \cup {"add", "consume"},
         NEW x \in Routes \cup Topics \cup Objects
  PROVE  NewOp(kind, x) \in Op
<1>1. <<>> \in Seq(Ids)
  OBVIOUS
<1> QED BY <1>1 DEF NewOp, Op, Kinds, Nil

LEMMA ArriveShape ==
  ASSUME TypeOK, NEW kind \in Kinds, NEW x \in Routes \cup Topics \cup Objects,
         Arrive(kind, x)
  PROVE  Grown(NewOp(kind, x)) /\ UNCHANGED <<stores, busy, caller, cleared>>
BY NewOpType, NewGrows DEF Arrive

LEMMA BodyShape ==
  ASSUME TypeOK, NEW i \in Ids, Body(i)
  PROVE  /\ i \in DOMAIN ops /\ ops[i].pc = "body"
         /\ \E whole \in BOOLEAN :
              \E pc \in {"ready", "failed"} :
                /\ pc = "ready" => ops[i].kind # "put" \/ whole
                /\ Changed(i, [ops[i] EXCEPT !.whole = whole, !.pc = pc])
         /\ UNCHANGED <<stores, busy, caller, cleared>>
<1>1. i \in DOMAIN ops /\ ops[i].pc = "body" /\ ops[i] \in Op
  BY OpType DEF Body
<1>2. PICK whole \in BOOLEAN :
        ops' = [ops EXCEPT ![i].whole = whole,
                           ![i].pc = IF ops[i].kind = "put" /\ ~whole
                                     THEN "failed" ELSE "ready"]
  BY DEF Body
<1> DEFINE pc == IF ops[i].kind = "put" /\ ~whole THEN "failed" ELSE "ready"
           op == [ops[i] EXCEPT !.whole = whole, !.pc = pc]
<1>3. pc \in {"ready", "failed"} /\ (pc = "ready" => ops[i].kind # "put" \/ whole)
  OBVIOUS
<1>4. op \in Op
  BY <1>1, <1>3 DEF Op
<1>5. ops' = [ops EXCEPT ![i] = op]
  BY <1>1, <1>2 DEF TypeOK
<1> HIDE DEF op
<1>6. Changed(i, op)
  BY <1>1, <1>4, <1>5, ExceptChanges
<1>7. UNCHANGED <<stores, busy, caller, cleared>>
  BY DEF Body
<1> QED BY <1>1, <1>3, <1>6, <1>7 DEF op

LEMMA RecordShape ==
  ASSUME TypeOK, NEW i \in Ids, Record(i)
  PROVE  /\ At(i, "call", "ready") /\ busy = Nil /\ busy' = i
         /\ Changed(i, [ops[i] EXCEPT !.pc = "recorded"])
         /\ log' \in Seq(DOMAIN ops) /\ Len(log') = Len(log) + 1
         /\ DOMAIN log' = DOMAIN log \cup {Len(log) + 1}
         /\ \A j \in DOMAIN log : log'[j] = log[j]
         /\ log'[Len(log) + 1] = i
         /\ UNCHANGED <<endpoints, topics, objects, caller, cleared>>
<1>1. At(i, "call", "ready") /\ i \in DOMAIN ops /\ ops[i] \in Op
  BY OpType DEF Record, At
<1> DEFINE op == [ops[i] EXCEPT !.pc = "recorded"]
<1>2. op \in Op /\ ops' = [ops EXCEPT ![i] = op]
  BY <1>1 DEF Op, Record
<1> HIDE DEF op
<1>3. Changed(i, op)
  BY <1>1, <1>2, ExceptChanges
<1>4. log \in Seq(DOMAIN ops) /\ log' = Append(log, i)
  BY DEF TypeOK, Record
<1>5. /\ log' \in Seq(DOMAIN ops) /\ Len(log') = Len(log) + 1
      /\ DOMAIN log' = DOMAIN log \cup {Len(log) + 1}
      /\ \A j \in DOMAIN log : log'[j] = log[j]
      /\ log'[Len(log) + 1] = i
  BY <1>1, <1>4
<1> QED BY <1>1, <1>3, <1>5 DEF op, Record

LEMMA AnswerShape ==
  ASSUME TypeInv, NEW i \in Ids, Answer(i)
  PROVE  /\ At(i, "call", "recorded") /\ busy' = Nil /\ ops[i].on \in Routes
         /\ Changed(i, [ops[i] EXCEPT !.pc = "done", !.answer = endpoints[ops[i].on]])
         /\ UNCHANGED <<stores, caller, cleared>>
<1>1. At(i, "call", "recorded") /\ i \in DOMAIN ops /\ ops[i] \in Op
  BY OpType DEF Answer, At, TypeInv
<1>2. ops[i].on \in Routes
  BY <1>1 DEF TypeInv, Targets, At
<1>3. endpoints[ops[i].on] \in Nat
  <2>1. endpoints[ops[i].on] \in {Nil} \cup DOMAIN ops
    BY <1>2 DEF TypeInv, TypeOK
  <2>2. DOMAIN ops \subseteq Nat
    BY IdsAreNat DEF TypeInv
  <2> QED BY <2>1, <2>2 DEF Nil
<1> DEFINE op == [ops[i] EXCEPT !.pc = "done", !.answer = endpoints[ops[i].on]]
<1>4. op \in Op
  BY <1>1, <1>3 DEF Op
<1>5. ops' = [ops EXCEPT ![i] = op]
  BY <1>1 DEF Answer, TypeInv, TypeOK
<1> HIDE DEF op
<1>6. Changed(i, op)
  BY <1>1, <1>4, <1>5, ExceptChanges DEF TypeInv
<1> QED BY <1>1, <1>2, <1>6 DEF op, Answer

\* A topic grows at its end.
Published(t, i) ==
  /\ topics' = [topics EXCEPT ![t] = Append(@, i)]
  /\ topics[t] \in Seq(DOMAIN ops) /\ topics'[t] = Append(topics[t], i)
  /\ \A u \in Topics : u # t => topics'[u] = topics[u]

LEMMA PublishShape ==
  ASSUME TypeInv, NEW i \in Ids, Publish(i)
  PROVE  /\ At(i, "publish", "ready") /\ ops[i].on \in Topics
         /\ Changed(i, [ops[i] EXCEPT !.pc = "done", !.answer = Len(topics[ops[i].on]) + 1])
         /\ Published(ops[i].on, i)
         /\ UNCHANGED <<endpoints, log, objects, busy, caller, cleared>>
<1>1. At(i, "publish", "ready") /\ i \in DOMAIN ops /\ ops[i] \in Op
  BY OpType DEF Publish, At, TypeInv
<1>2. ops[i].on \in Topics
  BY <1>1 DEF TypeInv, Targets, At
<1>3. topics[ops[i].on] \in Seq(DOMAIN ops) /\ Len(topics[ops[i].on]) \in Nat
  BY <1>2 DEF TypeInv, TypeOK
<1> DEFINE n == Len(topics[ops[i].on]) + 1
           op == [ops[i] EXCEPT !.pc = "done", !.answer = n]
<1>4. n \in Nat
  BY <1>3
<1>5. ops' = [ops EXCEPT ![i] = op]
  BY <1>1 DEF Publish, TypeInv, TypeOK
<1> HIDE DEF n
<1>8. op \in Op
  BY <1>1, <1>4 DEF Op
<1> HIDE DEF op
<1>6. Changed(i, op)
  BY <1>1, <1>5, <1>8, ExceptChanges DEF TypeInv
<1>7. Published(ops[i].on, i)
  BY <1>2, <1>3 DEF Publish, Published, TypeInv, TypeOK
<1> QED BY <1>1, <1>2, <1>6, <1>7 DEF op, n, Publish

LEMMA PutShape ==
  ASSUME TypeInv, NEW i \in Ids, PutObject(i)
  PROVE  /\ At(i, "put", "ready") /\ ops[i].on \in Objects
         /\ Changed(i, [ops[i] EXCEPT !.pc = "done"])
         /\ objects' = [objects EXCEPT ![ops[i].on] = i]
         /\ UNCHANGED <<endpoints, log, topics, busy, caller, cleared>>
<1>1. At(i, "put", "ready") /\ i \in DOMAIN ops /\ ops[i] \in Op
  BY OpType DEF PutObject, At, TypeInv
<1>2. ops[i].on \in Objects
  BY <1>1 DEF TypeInv, Targets, At
<1> DEFINE op == [ops[i] EXCEPT !.pc = "done"]
<1>3. op \in Op /\ ops' = [ops EXCEPT ![i] = op]
  BY <1>1 DEF Op, PutObject
<1> HIDE DEF op
<1>4. Changed(i, op)
  BY <1>1, <1>3, ExceptChanges DEF TypeInv
<1> QED BY <1>1, <1>2, <1>4 DEF op, PutObject

LEMMA AddShape ==
  ASSUME TypeOK, NEW r \in Routes, AddEndpoint(r)
  PROVE  /\ Grown([NewOp("add", r) EXCEPT !.pc = "done"])
         /\ endpoints' = [endpoints EXCEPT ![r] = Len(ops) + 1]
         /\ UNCHANGED <<log, topics, objects, busy, caller, cleared>>
<1> DEFINE op == [NewOp("add", r) EXCEPT !.pc = "done"]
<1>0. NewOp("add", r) \in Op
  BY NewOpType
<1>1. op \in Op
  BY <1>0 DEF Op
<1> HIDE DEF op
<1>2. New(op)
  BY DEF op, AddEndpoint
<1>3. Grown(op)
  BY <1>1, <1>2, NewGrows
<1> QED BY <1>3 DEF op, AddEndpoint

\* A slice with any limit is a beginning of the sequence.
LEMMA SliceIsPrefix ==
  ASSUME NEW S, NEW s \in Seq(S), NEW limit \in Int
  PROVE  \E n \in 0..Len(s) : /\ Slice(s, limit) = SubSeq(s, 1, n)
                              /\ Slice(s, limit) \in Seq(S) /\ Len(Slice(s, limit)) = n
<1> DEFINE m == IF limit >= 0 THEN limit ELSE Len(s) + limit
           k == IF m > Len(s) THEN Len(s) ELSE m
           n == IF k < 0 THEN 0 ELSE k
<1>1. Len(s) \in Nat /\ k \in Int /\ k <= Len(s) /\ n \in 0..Len(s)
  OBVIOUS
<1>2. Slice(s, limit) = SubSeq(s, 1, k)
  BY DEF Slice
<1> HIDE DEF k, m
<1>3. SubSeq(s, 1, k) = SubSeq(s, 1, n)
  BY <1>1
<1>4. SubSeq(s, 1, n) \in Seq(S) /\ Len(SubSeq(s, 1, n)) = n
  BY <1>1
<1> QED BY <1>1, <1>2, <1>3, <1>4

LEMMA ConsumeShape ==
  ASSUME TypeOK, NEW t \in Topics, NEW limit \in Limits, Consume(t, limit)
  PROVE  /\ \E n \in 0..Len(topics[t]) :
              /\ Len(SubSeq(topics[t], 1, n)) = n
              /\ Grown([NewOp("consume", t) EXCEPT !.pc = "done",
                                                   !.page = SubSeq(topics[t], 1, n)])
         /\ UNCHANGED <<stores, busy, caller, cleared>>
<1>1. topics[t] \in Seq(DOMAIN ops) /\ limit \in Int
  BY StoresOK DEF TypeOK
<1>2. PICK n \in 0..Len(topics[t]) :
        /\ Slice(topics[t], limit) = SubSeq(topics[t], 1, n)
        /\ Slice(topics[t], limit) \in Seq(DOMAIN ops) /\ Len(Slice(topics[t], limit)) = n
  BY <1>1, SliceIsPrefix
<1> DEFINE page == SubSeq(topics[t], 1, n)
           op == [NewOp("consume", t) EXCEPT !.pc = "done", !.page = page]
<1>3. page \in Seq(DOMAIN ops) /\ Len(page) = n
  BY <1>2
<1>4. page \in Seq(Ids)
  <2> HIDE DEF page
  <2> QED BY <1>3, IdsAreNat
<1>5. NewOp("consume", t) \in Op
  BY NewOpType
<1> HIDE DEF page
<1>6. op \in Op
  BY <1>4, <1>5 DEF Op
<1>7. New(op)
  BY <1>2 DEF Consume, page
<1> HIDE DEF op
<1>8. Grown(op)
  BY <1>6, <1>7, NewGrows
<1>9. UNCHANGED <<stores, busy, caller, cleared>>
  BY DEF Consume
<1> QED BY <1>3, <1>8, <1>9 DEF op, page

\* A step of reset() wipes one store.
LEMMA WipeShape ==
  ASSUME TypeOK, NEW c \in Callers, ResetStep(c)
  PROVE  /\ resetting[c] \in 1..4
         /\ UNCHANGED <<ops, busy, resets>>
         /\ \/ resetting[c] = 1 /\ Wipe("endpoints")
            \/ resetting[c] = 2 /\ Wipe("log")
            \/ resetting[c] = 3 /\ Wipe("topics")
            \/ resetting[c] = 4 /\ Wipe("objects")
         /\ \/ /\ resetting[c] < 4
               /\ resetting' = [resetting EXCEPT ![c] = @ + 1]
               /\ UNCHANGED <<before, wiped>>
            \/ /\ resetting[c] = 4
               /\ resetting' = [resetting EXCEPT ![c] = 0]
               /\ before' = [before EXCEPT ![c] = {}]
               /\ wiped' = wiped \cup before[c]
<1>1. /\ Len(ResetOrder) = 4
      /\ ResetOrder[1] = "endpoints" /\ ResetOrder[2] = "log"
      /\ ResetOrder[3] = "topics" /\ ResetOrder[4] = "objects"
  BY DEF ResetOrder
<1>2. resetting[c] \in 1..4
  BY <1>1 DEF TypeOK, ResetStep
<1>3. resetting[c] = 1 \/ resetting[c] = 2 \/ resetting[c] = 3 \/ resetting[c] = 4
  BY <1>2
<1>4. Wipe(ResetOrder[resetting[c]])
  BY DEF ResetStep
<1>5. \/ resetting[c] = 1 /\ Wipe("endpoints")
      \/ resetting[c] = 2 /\ Wipe("log")
      \/ resetting[c] = 3 /\ Wipe("topics")
      \/ resetting[c] = 4 /\ Wipe("objects")
  BY <1>1, <1>3, <1>4
<1>6. UNCHANGED <<ops, busy, resets>>
  BY DEF ResetStep
<1>7. \/ /\ resetting[c] < 4
         /\ resetting' = [resetting EXCEPT ![c] = @ + 1]
         /\ UNCHANGED <<before, wiped>>
      \/ /\ resetting[c] = 4
         /\ resetting' = [resetting EXCEPT ![c] = 0]
         /\ before' = [before EXCEPT ![c] = {}]
         /\ wiped' = wiped \cup before[c]
  BY <1>1, <1>2 DEF ResetStep
<1> QED BY <1>2, <1>5, <1>6, <1>7

-------------------------------------------------------------------------------
(* Types.                                                                  *)

\* The stores hold members of D.
Holds(D) == /\ endpoints \in [Routes -> {Nil} \cup D]
            /\ log \in Seq(D)
            /\ topics \in [Topics -> Seq(D)]
            /\ objects \in [Objects -> {Nil} \cup D]
Remembers(D) == /\ before \in [Callers -> SUBSET D] /\ wiped \subseteq D
                /\ resetting \in [Callers -> 0..Len(ResetOrder)]
                /\ resets \in 0..MaxResets

LEMMA HoldsMore == ASSUME NEW D, NEW E, D \subseteq E, Holds(D) PROVE Holds(E)
<1>1. Seq(D) \subseteq Seq(E)
  OBVIOUS
<1>2. endpoints \in [Routes -> {Nil} \cup E] /\ objects \in [Objects -> {Nil} \cup E]
  BY DEF Holds
<1>3. log \in Seq(E) /\ topics \in [Topics -> Seq(E)]
  BY <1>1, Zenon DEF Holds
<1> QED BY <1>2, <1>3 DEF Holds

LEMMA RemembersMore == ASSUME NEW D, NEW E, D \subseteq E, Remembers(D)
                       PROVE  Remembers(E)
BY DEF Remembers

HeldType == Holds(DOMAIN ops) /\ Remembers(DOMAIN ops) /\ cleared \subseteq DOMAIN ops
OpsType  == ops \in Seq(Op) /\ Len(ops) <= MaxOps
BusyType == busy # Nil => At(busy, "call", "recorded")

LEMMA TypeParts == TypeOK <=> OpsType /\ HeldType /\ BusyType
BY DEF TypeOK, OpsType, HeldType, BusyType, Holds, Remembers
LEMMA TypePartsNext == OpsType' /\ HeldType' /\ BusyType' => TypeOK'
BY DEF TypeOK, OpsType, HeldType, BusyType, Holds, Remembers

LEMMA HeldKeeps ==
  ASSUME HeldType, UNCHANGED <<stores, caller, cleared>>, DOMAIN ops \subseteq DOMAIN ops'
  PROVE  HeldType'
<1>1. Holds(DOMAIN ops') /\ Remembers(DOMAIN ops') /\ cleared \subseteq DOMAIN ops'
  BY HoldsMore, RemembersMore DEF HeldType
<1> QED BY <1>1 DEF HeldType, Holds, Remembers, stores, caller

LEMMA GrownTypes ==
  ASSUME TypeInv, NEW op, Grown(op), busy' = busy,
         /\ op.kind = "call" => op.on \in Routes
         /\ op.kind = "publish" => op.on \in Topics
         /\ op.kind = "put" => op.on \in Objects
  PROVE  OpsType' /\ BusyType' /\ Targets' /\ DOMAIN ops \subseteq DOMAIN ops'
<1>1. OpsType'
  BY DEF Grown, OpsType
<1>2. BusyType'
  BY TypeParts DEF Grown, BusyType, TypeInv, At
<1>3. Targets'
  BY DEF Grown, Targets, TypeInv
<1> QED BY <1>1, <1>2, <1>3 DEF Grown

LEMMA ChangedTypes ==
  ASSUME TypeInv, NEW i \in DOMAIN ops, NEW op, Changed(i, op),
         op.kind = ops[i].kind, op.on = ops[i].on,
         \/ busy' = busy /\ ops[i].pc # "recorded"
         \/ busy' = Nil
         \/ busy' = i /\ op.kind = "call" /\ op.pc = "recorded"
  PROVE  OpsType' /\ BusyType' /\ Targets' /\ DOMAIN ops = DOMAIN ops'
<1>1. OpsType'
  BY TypeParts DEF Changed, OpsType, TypeInv
<1>2. BusyType'
  BY TypeParts DEF Changed, BusyType, TypeInv, At
<1>3. Targets'
  BY DEF Changed, Targets, TypeInv
<1> QED BY <1>1, <1>2, <1>3 DEF Changed

\* Nothing but one store is wiped, or nothing at all.
LEMMA WipeTypes ==
  ASSUME TypeOK, NEW store \in {"endpoints", "log", "topics", "objects"}, Wipe(store)
  PROVE  /\ endpoints' \in [Routes -> {Nil} \cup DOMAIN ops]
         /\ log' \in Seq(DOMAIN ops) /\ topics' \in [Topics -> Seq(DOMAIN ops)]
         /\ objects' \in [Objects -> {Nil} \cup DOMAIN ops]
         /\ cleared' \subseteq DOMAIN ops
<1>1. CASE store = "endpoints"
  BY <1>1 DEF Wipe, TypeOK
<1>2. CASE store = "log"
  <2>1. ClearLog
    BY <1>2 DEF Wipe
  <2> QED BY <2>1 DEF ClearLog, TypeOK
<1>3. CASE store = "topics"
  <2>1. /\ topics' = [t \in Topics |-> <<>>] /\ UNCHANGED <<endpoints, log, objects>>
        /\ cleared' = cleared \cup {i \in Finished : ops[i].kind \in {"publish", "consume"}}
    BY <1>3 DEF Wipe
  <2>2. <<>> \in Seq(DOMAIN ops)
    OBVIOUS
  <2> QED BY <2>1, <2>2 DEF Finished, TypeOK
<1>4. CASE store = "objects"
  BY <1>4 DEF Wipe, TypeOK
<1> QED BY <1>1, <1>2, <1>3, <1>4

LEMMA TypeInit == Init => TypeInv
<1> SUFFICES ASSUME Init PROVE TypeInv
  OBVIOUS
<1>1. <<>> \in Seq(Op) /\ <<>> \in Seq(DOMAIN ops) /\ DOMAIN ops = {} /\ Len(ops) = 0
  BY DEF Init
<1>2. 0 \in 0..Len(ResetOrder)
  BY DEF ResetOrder
<1> QED BY <1>1, <1>2, StoresOK DEF Init, TypeInv, TypeOK, Targets, At, Nil

LEMMA HandlerTypes == ASSUME TypeInv, NEW i \in Ids, Handler(i) PROVE TypeInv'
<1> USE DEF TypeInv
<1>0. OpsType /\ HeldType /\ BusyType
  BY TypeParts
<1>1. CASE Body(i)
  <2>1. PICK whole \in BOOLEAN, pc \in {"ready", "failed"} :
          Changed(i, [ops[i] EXCEPT !.whole = whole, !.pc = pc])
    BY <1>1, BodyShape
  <2> DEFINE op == [ops[i] EXCEPT !.whole = whole, !.pc = pc]
  <2>2. i \in DOMAIN ops /\ ops[i].pc = "body" /\ UNCHANGED <<stores, busy, caller, cleared>>
    BY <1>1, BodyShape
  <2>3. op.kind = ops[i].kind /\ op.on = ops[i].on
    BY <2>2, OpType DEF Op
  <2> HIDE DEF op
  <2>4. OpsType' /\ BusyType' /\ Targets' /\ DOMAIN ops = DOMAIN ops'
    BY <2>1, <2>2, <2>3, ChangedTypes DEF op
  <2>5. HeldType'
    BY <1>0, <2>2, <2>4, HeldKeeps
  <2> QED BY <2>4, <2>5, TypePartsNext
<1>2. CASE Record(i)
  <2> DEFINE op == [ops[i] EXCEPT !.pc = "recorded"]
  <2>1. /\ At(i, "call", "ready") /\ busy' = i /\ Changed(i, op)
        /\ log' \in Seq(DOMAIN ops) /\ UNCHANGED <<endpoints, topics, objects, caller, cleared>>
    BY <1>2, RecordShape
  <2>2. i \in DOMAIN ops /\ op.kind = "call" /\ op.on = ops[i].on /\ op.pc = "recorded"
    BY <2>1, OpType DEF Op, At
  <2> HIDE DEF op
  <2>3. ops[i].kind = "call"
    BY <2>1 DEF At
  <2>4. OpsType' /\ BusyType' /\ Targets' /\ DOMAIN ops = DOMAIN ops'
    BY <2>1, <2>2, <2>3, ChangedTypes
  <2>5. HeldType'
    BY <1>0, <2>1, <2>4 DEF HeldType, Holds, Remembers, caller
  <2> QED BY <2>4, <2>5, TypePartsNext
<1>3. CASE Answer(i)
  <2> DEFINE op == [ops[i] EXCEPT !.pc = "done", !.answer = endpoints[ops[i].on]]
  <2>1. /\ At(i, "call", "recorded") /\ busy' = Nil /\ Changed(i, op)
        /\ UNCHANGED <<stores, caller, cleared>>
    BY <1>3, AnswerShape
  <2>2. i \in DOMAIN ops /\ op.kind = ops[i].kind /\ op.on = ops[i].on
    BY <2>1, OpType DEF Op, At
  <2> HIDE DEF op
  <2>3. OpsType' /\ BusyType' /\ Targets' /\ DOMAIN ops = DOMAIN ops'
    BY <2>1, <2>2, ChangedTypes
  <2>4. HeldType'
    BY <1>0, <2>1, <2>3, HeldKeeps
  <2> QED BY <2>3, <2>4, TypePartsNext
<1>4. CASE Publish(i)
  <2> DEFINE t == ops[i].on
             op == [ops[i] EXCEPT !.pc = "done", !.answer = Len(topics[t]) + 1]
  <2>1. /\ At(i, "publish", "ready") /\ t \in Topics /\ Changed(i, op) /\ Published(t, i)
        /\ UNCHANGED <<endpoints, log, objects, busy, caller, cleared>>
    BY <1>4, PublishShape
  <2>2. i \in DOMAIN ops /\ op.kind = ops[i].kind /\ op.on = ops[i].on
        /\ ops[i].pc # "recorded"
    BY <2>1, OpType DEF Op, At
  <2> HIDE DEF op, t
  <2>3. OpsType' /\ BusyType' /\ Targets' /\ DOMAIN ops = DOMAIN ops'
    BY <2>1, <2>2, ChangedTypes
  <2>4. topics' \in [Topics -> Seq(DOMAIN ops)]
    <3>1. Append(topics[t], i) \in Seq(DOMAIN ops)
      BY <2>1, <2>2 DEF Published
    <3>2. topics \in [Topics -> Seq(DOMAIN ops)]
      BY DEF TypeOK
    <3> QED BY <2>1, <3>1, <3>2 DEF Published
  <2>5. HeldType'
    BY <1>0, <2>1, <2>3, <2>4 DEF HeldType, Holds, Remembers, caller
  <2> QED BY <2>3, <2>5, TypePartsNext
<1>5. CASE PutObject(i)
  <2> DEFINE op == [ops[i] EXCEPT !.pc = "done"]
  <2>1. /\ At(i, "put", "ready") /\ Changed(i, op) /\ ops[i].on \in Objects
        /\ objects' = [objects EXCEPT ![ops[i].on] = i]
        /\ UNCHANGED <<endpoints, log, topics, busy, caller, cleared>>
    BY <1>5, PutShape
  <2>2. i \in DOMAIN ops /\ op.kind = ops[i].kind /\ op.on = ops[i].on
        /\ ops[i].pc # "recorded"
    BY <2>1, OpType DEF Op, At
  <2> HIDE DEF op
  <2>3. OpsType' /\ BusyType' /\ Targets' /\ DOMAIN ops = DOMAIN ops'
    BY <2>1, <2>2, ChangedTypes
  <2>4. objects' \in [Objects -> {Nil} \cup DOMAIN ops]
    BY <2>1, <2>2 DEF TypeOK
  <2>5. HeldType'
    BY <1>0, <2>1, <2>3, <2>4 DEF HeldType, Holds, Remembers, caller
  <2> QED BY <2>3, <2>5, TypePartsNext
<1> QED BY <1>1, <1>2, <1>3, <1>4, <1>5 DEF Handler

LEMMA ArriveTypes ==
  ASSUME TypeInv, NEW kind \in Kinds, NEW x \in Routes \cup Topics \cup Objects,
         Arrive(kind, x),
         /\ kind = "call" => x \in Routes
         /\ kind = "publish" => x \in Topics
         /\ kind = "put" => x \in Objects
  PROVE  TypeInv'
<1> USE DEF TypeInv
<1> DEFINE op == NewOp(kind, x)
<1>1. Grown(op) /\ UNCHANGED <<stores, busy, caller, cleared>>
  BY ArriveShape
<1>2. op.kind = kind /\ op.on = x
  BY DEF NewOp
<1> HIDE DEF op
<1>3. OpsType' /\ BusyType' /\ Targets' /\ DOMAIN ops \subseteq DOMAIN ops'
  BY <1>1, <1>2, GrownTypes
<1>4. HeldType'
  BY <1>1, <1>3, TypeParts, HeldKeeps
<1> QED BY <1>3, <1>4, TypePartsNext

LEMMA AddTypes == ASSUME TypeInv, NEW r \in Routes, AddEndpoint(r) PROVE TypeInv'
<1> USE DEF TypeInv
<1> DEFINE op == [NewOp("add", r) EXCEPT !.pc = "done"]
<1>1. /\ Grown(op) /\ endpoints' = [endpoints EXCEPT ![r] = Len(ops) + 1]
      /\ UNCHANGED <<log, topics, objects, busy, caller, cleared>>
  BY AddShape
<1>2. op.kind = "add"
  BY DEF NewOp
<1> HIDE DEF op
<1>3. OpsType' /\ BusyType' /\ Targets' /\ DOMAIN ops \subseteq DOMAIN ops'
  BY <1>1, <1>2, GrownTypes
<1>4. /\ Holds(DOMAIN ops') /\ Remembers(DOMAIN ops') /\ cleared \subseteq DOMAIN ops'
  BY <1>3, TypeParts, HoldsMore, RemembersMore DEF HeldType
<1>5. Len(ops) + 1 \in DOMAIN ops'
  BY <1>1 DEF Grown
<1>6. HeldType'
  BY <1>1, <1>4, <1>5 DEF HeldType, Holds, Remembers, caller
<1> QED BY <1>3, <1>6, TypePartsNext

LEMMA ConsumeTypes ==
  ASSUME TypeInv, NEW t \in Topics, NEW limit \in Limits, Consume(t, limit)
  PROVE  TypeInv'
<1> USE DEF TypeInv
<1>1. PICK n \in 0..Len(topics[t]) :
        Grown([NewOp("consume", t) EXCEPT !.pc = "done", !.page = SubSeq(topics[t], 1, n)])
  BY ConsumeShape
<1> DEFINE page == SubSeq(topics[t], 1, n)
           op == [NewOp("consume", t) EXCEPT !.pc = "done", !.page = page]
<1>2. UNCHANGED <<stores, busy, caller, cleared>>
  BY ConsumeShape
<1> HIDE DEF page
<1>3. op.kind = "consume"
  BY DEF NewOp
<1>4. Grown(op)
  BY <1>1 DEF page
<1> HIDE DEF op
<1>5. OpsType' /\ BusyType' /\ Targets' /\ DOMAIN ops \subseteq DOMAIN ops'
  BY <1>2, <1>3, <1>4, GrownTypes
<1>6. HeldType'
  BY <1>2, <1>5, TypeParts, HeldKeeps
<1> QED BY <1>5, <1>6, TypePartsNext

\* Steps that leave the operations alone.
LEMMA OthersTypes ==
  ASSUME TypeInv, UNCHANGED <<ops, busy>>,
         \/ \E r \in Routes : RemoveEndpoint(r)
         \/ \E o \in Objects : DeleteObject(o)
         \/ ClearCalls
         \/ \E c \in Callers : CallReset(c) \/ ResetStep(c)
         \/ UNCHANGED vars
  PROVE  TypeInv'
<1> USE DEF TypeInv
<1>0. OpsType /\ HeldType /\ BusyType /\ DOMAIN ops' = DOMAIN ops
  BY TypeParts
<1>1. OpsType' /\ BusyType' /\ Targets'
  BY <1>0 DEF OpsType, BusyType, At, Targets
<1>2. ASSUME NEW r \in Routes, RemoveEndpoint(r) PROVE HeldType'
  BY <1>0, <1>2 DEF RemoveEndpoint, HeldType, Holds, Remembers, caller
<1>3. ASSUME NEW o \in Objects, DeleteObject(o) PROVE HeldType'
  BY <1>0, <1>3 DEF DeleteObject, HeldType, Holds, Remembers, caller
<1>4. CASE ClearCalls
  <2>1. /\ log' = <<>> /\ cleared' = cleared \cup {log[j] : j \in DOMAIN log}
        /\ UNCHANGED <<endpoints, topics, objects, ops, busy, caller>>
    BY <1>4 DEF ClearCalls, ClearLog
  <2>2. log' \in Seq(DOMAIN ops) /\ cleared' \subseteq DOMAIN ops
    BY <2>1 DEF TypeOK
  <2>3. HeldType'
    BY <1>0, <2>1, <2>2 DEF HeldType, Holds, Remembers, caller
  <2> QED BY <1>1, <2>3, TypePartsNext
<1>5. ASSUME NEW c \in Callers, CallReset(c) PROVE HeldType'
  <2>1. Finished \subseteq DOMAIN ops
    BY DEF Finished
  <2>2. 1 \in 0..Len(ResetOrder)
    BY DEF ResetOrder
  <2>3. /\ before' \in [Callers -> SUBSET DOMAIN ops]
        /\ resetting' \in [Callers -> 0..Len(ResetOrder)]
    BY <1>5, <2>1, <2>2 DEF CallReset, TypeOK
  <2>4. resets' \in 0..MaxResets
    BY <1>5, StoresOK DEF CallReset, TypeOK
  <2> QED BY <1>0, <1>5, <2>3, <2>4 DEF CallReset, HeldType, Holds, Remembers, stores
<1>6. ASSUME NEW c \in Callers, ResetStep(c) PROVE HeldType'
  <2>1. \E store \in {"endpoints", "log", "topics", "objects"} : Wipe(store)
    BY <1>6, WipeShape
  <2>2. /\ endpoints' \in [Routes -> {Nil} \cup DOMAIN ops]
        /\ log' \in Seq(DOMAIN ops) /\ topics' \in [Topics -> Seq(DOMAIN ops)]
        /\ objects' \in [Objects -> {Nil} \cup DOMAIN ops]
        /\ cleared' \subseteq DOMAIN ops
    BY <2>1, WipeTypes
  <2>3. Len(ResetOrder) = 4
    BY DEF ResetOrder
  <2>4. resetting' \in [Callers -> 0..Len(ResetOrder)]
    BY <1>6, <2>3, WipeShape DEF TypeOK
  <2>5. before' \in [Callers -> SUBSET DOMAIN ops] /\ wiped' \subseteq DOMAIN ops
    BY <1>6, WipeShape DEF TypeOK
  <2>6. resets' \in 0..MaxResets
    BY <1>6, WipeShape DEF TypeOK
  <2> QED BY <1>0, <2>2, <2>4, <2>5, <2>6 DEF HeldType, Holds, Remembers
<1>7. CASE UNCHANGED vars
  <2>1. HeldType'
    BY <1>0, <1>7, HeldKeeps DEF vars
  <2> QED BY <1>1, <2>1, TypePartsNext
<1>8. CASE HeldType'
  BY <1>1, <1>8, TypePartsNext
<1> QED BY <1>2, <1>3, <1>4, <1>5, <1>6, <1>7, <1>8

LEMMA TypeStep == TypeInv /\ [Next]_vars => TypeInv'
<1> SUFFICES ASSUME TypeInv, [Next]_vars PROVE TypeInv'
  OBVIOUS
<1>1. CASE ArriveAny
  BY <1>1, ArriveTypes DEF ArriveAny, Kinds
<1>2. ASSUME NEW i \in Ids, Handler(i) PROVE TypeInv'
  BY <1>2, HandlerTypes
<1>3. ASSUME NEW r \in Routes, AddEndpoint(r) PROVE TypeInv'
  BY <1>3, AddTypes
<1>4. ASSUME NEW t \in Topics, NEW limit \in Limits, Consume(t, limit) PROVE TypeInv'
  BY <1>4, ConsumeTypes
<1>5. ASSUME NEW r \in Routes, RemoveEndpoint(r) PROVE TypeInv'
  BY <1>5, OthersTypes DEF RemoveEndpoint
<1>6. ASSUME NEW o \in Objects, DeleteObject(o) PROVE TypeInv'
  BY <1>6, OthersTypes DEF DeleteObject
<1>7. CASE ClearCalls
  BY <1>7, OthersTypes DEF ClearCalls
<1>8. ASSUME NEW c \in Callers, CallReset(c) \/ ResetStep(c) PROVE TypeInv'
  BY <1>8, OthersTypes DEF CallReset, ResetStep
<1>9. CASE UNCHANGED vars
  BY <1>9, OthersTypes DEF vars
<1> QED BY <1>1, <1>2, <1>3, <1>4, <1>5, <1>6, <1>7, <1>8, <1>9 DEF Next

\* Types, and what requests address, are kept by every step.
THEOREM TypeInvariant == Spec => []TypeInv
<1> QED BY TypeInit, TypeStep, PTL DEF Spec

\* The stores hold requests and registrations that exist, and the event loop is
\* held only by a handler between its record and its answer.
THEOREM TypeCorrect == Spec => []TypeOK
<1>1. TypeInv => TypeOK
  BY DEF TypeInv
<1> QED BY <1>1, TypeInvariant, PTL

-------------------------------------------------------------------------------
(* reset() forgets.                                                        *)

\* No store holds a member of S.
EndpointsFree(S) == \A r \in Routes : endpoints[r] \notin S
LogFree(S)       == \A j \in DOMAIN log : log[j] \notin S
TopicsFree(S)    == \A t \in Topics : \A j \in DOMAIN topics[t] : topics[t][j] \notin S
ObjectsFree(S)   == \A o \in Objects : objects[o] \notin S

\* What is finished stays so, unchanged.
FinishedStays == \A i \in Finished : i \in Finished' /\ ops'[i] = ops[i]

\* Whatever a step adds to a store was not finished before the step.
NothingOldEnters ==
  /\ \A r \in Routes : endpoints'[r] \in {endpoints[r], Nil} \/ endpoints'[r] \notin Finished
  /\ \A j \in DOMAIN log' : (j \in DOMAIN log /\ log'[j] = log[j]) \/ log'[j] \notin Finished
  /\ \A t \in Topics : \A j \in DOMAIN topics'[t] :
       \/ j \in DOMAIN topics[t] /\ topics'[t][j] = topics[t][j]
       \/ topics'[t][j] \notin Finished
  /\ \A o \in Objects : objects'[o] \in {objects[o], Nil} \/ objects'[o] \notin Finished

LEMMA GrownStays == ASSUME NEW op, Grown(op) PROVE FinishedStays
BY DEF Grown, FinishedStays, Finished

LEMMA ChangedStays ==
  ASSUME NEW i \in DOMAIN ops, NEW op, Changed(i, op), ops[i].pc # "done"
  PROVE  FinishedStays
BY DEF Changed, FinishedStays, Finished

LEMMA SameStores == UNCHANGED stores => NothingOldEnters
BY DEF NothingOldEnters, stores

LEMMA HandlerEnters ==
  ASSUME TypeInv, NEW i \in Ids, Handler(i)
  PROVE  FinishedStays /\ NothingOldEnters
<1> USE DEF TypeInv
<1>1. CASE Body(i)
  BY <1>1, BodyShape, ChangedStays, SameStores
<1>2. CASE Record(i)
  <2>1. /\ i \in DOMAIN ops /\ ops[i].pc = "ready"
        /\ Changed(i, [ops[i] EXCEPT !.pc = "recorded"])
    BY <1>2, RecordShape DEF At
  <2>2. FinishedStays /\ i \notin Finished
    BY <2>1, ChangedStays DEF Finished
  <2>3. /\ DOMAIN log' = DOMAIN log \cup {Len(log) + 1}
        /\ \A j \in DOMAIN log : log'[j] = log[j]
        /\ log'[Len(log) + 1] = i
        /\ UNCHANGED <<endpoints, topics, objects>>
    BY <1>2, RecordShape
  <2> QED BY <2>2, <2>3 DEF NothingOldEnters
<1>3. CASE Answer(i)
  BY <1>3, AnswerShape, ChangedStays, SameStores DEF At
<1>4. CASE Publish(i)
  <2> DEFINE t == ops[i].on
  <2>1. /\ i \in DOMAIN ops /\ ops[i].pc = "ready" /\ t \in Topics
        /\ Changed(i, [ops[i] EXCEPT !.pc = "done", !.answer = Len(topics[t]) + 1])
        /\ Published(t, i) /\ UNCHANGED <<endpoints, log, objects>>
    BY <1>4, PublishShape DEF At
  <2>2. FinishedStays /\ i \notin Finished
    BY <2>1, ChangedStays DEF Finished
  <2> HIDE DEF t
  <2>3. \A j \in DOMAIN topics'[t] : \/ j \in DOMAIN topics[t] /\ topics'[t][j] = topics[t][j]
                                     \/ topics'[t][j] = i
    BY <2>1 DEF Published
  <2> QED BY <2>1, <2>2, <2>3 DEF NothingOldEnters, Published
<1>5. CASE PutObject(i)
  <2>1. /\ i \in DOMAIN ops /\ ops[i].pc = "ready"
        /\ Changed(i, [ops[i] EXCEPT !.pc = "done"])
        /\ objects' = [objects EXCEPT ![ops[i].on] = i]
        /\ UNCHANGED <<endpoints, log, topics>>
    BY <1>5, PutShape DEF At
  <2>2. FinishedStays /\ i \notin Finished
    BY <2>1, ChangedStays DEF Finished
  <2> QED BY <2>1, <2>2 DEF NothingOldEnters, TypeOK
<1> QED BY <1>1, <1>2, <1>3, <1>4, <1>5 DEF Handler

LEMMA WipeEnters ==
  ASSUME TypeOK, NEW store \in {"endpoints", "log", "topics", "objects"}, Wipe(store)
  PROVE  NothingOldEnters
BY DEF Wipe, ClearLog, NothingOldEnters

LEMMA StepEnters == TypeInv /\ [Next]_vars => FinishedStays /\ NothingOldEnters
<1> SUFFICES ASSUME TypeInv, [Next]_vars PROVE FinishedStays /\ NothingOldEnters
  OBVIOUS
<1> USE DEF TypeInv
<1>0. UNCHANGED ops => FinishedStays
  BY DEF FinishedStays, Finished
<1>1. CASE ArriveAny
  <2>1. PICK kind \in Kinds, x \in Routes \cup Topics \cup Objects : Arrive(kind, x)
    BY <1>1 DEF ArriveAny, Kinds
  <2> QED BY <2>1, ArriveShape, GrownStays, SameStores
<1>2. ASSUME NEW i \in Ids, Handler(i) PROVE FinishedStays /\ NothingOldEnters
  BY <1>2, HandlerEnters
<1>3. ASSUME NEW r \in Routes, AddEndpoint(r) PROVE FinishedStays /\ NothingOldEnters
  <2>1. /\ Grown([NewOp("add", r) EXCEPT !.pc = "done"])
        /\ endpoints' = [endpoints EXCEPT ![r] = Len(ops) + 1]
        /\ UNCHANGED <<log, topics, objects>>
    BY <1>3, AddShape
  <2>2. Len(ops) + 1 \notin Finished
    BY <2>1 DEF Grown, Finished
  <2>3. NothingOldEnters
    BY <2>1, <2>2 DEF NothingOldEnters, TypeOK
  <2> QED BY <2>1, <2>3, GrownStays
<1>4. ASSUME NEW t \in Topics, NEW limit \in Limits, Consume(t, limit)
      PROVE  FinishedStays /\ NothingOldEnters
  BY <1>4, ConsumeShape, GrownStays, SameStores
<1>5. ASSUME NEW r \in Routes, RemoveEndpoint(r) PROVE FinishedStays /\ NothingOldEnters
  BY <1>0, <1>5 DEF RemoveEndpoint, NothingOldEnters, TypeOK
<1>6. ASSUME NEW o \in Objects, DeleteObject(o) PROVE FinishedStays /\ NothingOldEnters
  BY <1>0, <1>6 DEF DeleteObject, NothingOldEnters, TypeOK
<1>7. CASE ClearCalls
  BY <1>0, <1>7 DEF ClearCalls, ClearLog, NothingOldEnters
<1>8. ASSUME NEW c \in Callers, CallReset(c) PROVE FinishedStays /\ NothingOldEnters
  BY <1>0, <1>8, SameStores DEF CallReset
<1>9. ASSUME NEW c \in Callers, ResetStep(c) PROVE FinishedStays /\ NothingOldEnters
  BY <1>0, <1>9, WipeShape, WipeEnters
<1>10. CASE UNCHANGED vars
  BY <1>0, <1>10, SameStores DEF vars
<1> QED BY <1>1, <1>2, <1>3, <1>4, <1>5, <1>6, <1>7, <1>8, <1>9, <1>10 DEF Next

\* The same of the stores after the step.
EndpointsFreed(S) == \A r \in Routes : endpoints'[r] \notin S
LogFreed(S)       == \A j \in DOMAIN log' : log'[j] \notin S
TopicsFreed(S)    == \A t \in Topics : \A j \in DOMAIN topics'[t] : topics'[t][j] \notin S
ObjectsFreed(S)   == \A o \in Objects : objects'[o] \notin S

LEMMA FreeStaysFree ==
  ASSUME TypeInv, NothingOldEnters, NEW S, S \subseteq Finished
  PROVE  /\ EndpointsFree(S) => EndpointsFreed(S)
         /\ LogFree(S)       => LogFreed(S)
         /\ TopicsFree(S)    => TopicsFreed(S)
         /\ ObjectsFree(S)   => ObjectsFreed(S)
<1>1. Nil \notin S
  BY IdsAreNat DEF TypeInv, Finished
<1>2. EndpointsFree(S) => EndpointsFreed(S)
  BY <1>1 DEF EndpointsFree, EndpointsFreed, NothingOldEnters
<1>3. LogFree(S) => LogFreed(S)
  BY DEF LogFree, LogFreed, NothingOldEnters
<1>4. TopicsFree(S) => TopicsFreed(S)
  BY DEF TopicsFree, TopicsFreed, NothingOldEnters
<1>5. ObjectsFree(S) => ObjectsFreed(S)
  BY <1>1 DEF ObjectsFree, ObjectsFreed, NothingOldEnters
<1> QED BY <1>2, <1>3, <1>4, <1>5

\* A wiped store holds nothing of what was finished.
LEMMA WipeFrees ==
  ASSUME TypeInv, NEW S, S \subseteq Finished
  PROVE  /\ Wipe("endpoints") => EndpointsFreed(S)
         /\ Wipe("log")       => LogFreed(S)
         /\ Wipe("topics")    => TopicsFreed(S)
         /\ Wipe("objects")   => ObjectsFreed(S)
<1>1. Nil \notin S
  BY IdsAreNat DEF TypeInv, Finished
<1>2. Wipe("endpoints") => EndpointsFreed(S)
  BY <1>1 DEF Wipe, EndpointsFreed
<1>3. Wipe("log") => LogFreed(S)
  BY DEF Wipe, ClearLog, LogFreed
<1>4. Wipe("topics") => TopicsFreed(S)
  BY DEF Wipe, TopicsFreed
<1>5. Wipe("objects") => ObjectsFreed(S)
  BY <1>1 DEF Wipe, ObjectsFreed
<1> QED BY <1>2, <1>3, <1>4, <1>5

\* How far the reset() of a caller has got, and what that has freed.
Freed(c) == /\ before[c] \subseteq Finished
            /\ resetting[c] > 1 => EndpointsFree(before[c])
            /\ resetting[c] > 2 => LogFree(before[c])
            /\ resetting[c] > 3 => TopicsFree(before[c])
FreedAll(S) == EndpointsFree(S) /\ LogFree(S) /\ TopicsFree(S) /\ ObjectsFree(S)
FreedAllNext(S) == EndpointsFreed(S) /\ LogFreed(S) /\ TopicsFreed(S) /\ ObjectsFreed(S)

LEMMA OthersStayFreed ==
  ASSUME TypeInv, NothingOldEnters, FinishedStays, NEW c \in Callers, Freed(c),
         before'[c] = before[c], resetting'[c] = resetting[c]
  PROVE  Freed(c)'
<1>1. before[c] \subseteq Finished'
  BY DEF Freed, FinishedStays
<1>2. /\ EndpointsFree(before[c]) => EndpointsFreed(before[c])
      /\ LogFree(before[c])       => LogFreed(before[c])
      /\ TopicsFree(before[c])    => TopicsFreed(before[c])
  BY FreeStaysFree DEF Freed
<1> QED BY <1>1, <1>2 DEF Freed, EndpointsFreed, EndpointsFree, LogFreed, LogFree,
                          TopicsFreed, TopicsFree

LEMMA WipedStaysFreed ==
  ASSUME TypeInv, NothingOldEnters, FinishedStays, NEW S, S \subseteq Finished, FreedAll(S)
  PROVE  S \subseteq Finished' /\ FreedAllNext(S)
BY FreeStaysFree DEF FinishedStays, FreedAll, FreedAllNext

\* A reset() that has returned has freed every store of what was finished before
\* it began; one under way, the stores it has passed.
ResetInv == /\ wiped \subseteq Finished /\ FreedAll(wiped)
            /\ \A c \in Callers : Freed(c)

LEMMA ResetInit == Init => ResetInv
BY DEF Init, ResetInv, Freed, FreedAll, EndpointsFree, LogFree, TopicsFree, ObjectsFree

LEMMA WipedStep ==
  ASSUME wiped' \subseteq Finished', FreedAllNext(wiped')
  PROVE  (wiped \subseteq Finished /\ FreedAll(wiped))'
BY DEF FreedAll, FreedAllNext, EndpointsFree, EndpointsFreed, LogFree, LogFreed,
       TopicsFree, TopicsFreed, ObjectsFree, ObjectsFreed

\* A step of reset() adds the store it wipes to those that are free.
LEMMA ResetStepFrees ==
  ASSUME TypeInv, ResetInv, FinishedStays, NothingOldEnters,
         NEW c \in Callers, ResetStep(c)
  PROVE  ResetInv'
<1> DEFINE S == before[c]
<1>1. TypeOK /\ S \subseteq Finished /\ Freed(c)
  BY DEF TypeInv, ResetInv, Freed
<1>2. wiped \subseteq Finished' /\ FreedAllNext(wiped) /\ S \subseteq Finished'
  <2>1. wiped \subseteq Finished /\ FreedAll(wiped)
    BY DEF ResetInv
  <2>2. S \subseteq Finished'
    BY <1>1 DEF FinishedStays
  <2> QED BY <2>1, <2>2, WipedStaysFreed
<1>3. /\ EndpointsFree(S) => EndpointsFreed(S)
      /\ LogFree(S)       => LogFreed(S)
      /\ TopicsFree(S)    => TopicsFreed(S)
  BY <1>1, FreeStaysFree
<1>4. /\ resetting[c] \in 1..4
      /\ resetting[c] >= 1 => EndpointsFreed(S)
      /\ resetting[c] >= 2 => LogFreed(S)
      /\ resetting[c] >= 3 => TopicsFreed(S)
      /\ resetting[c] >= 4 => ObjectsFreed(S)
  <2>1. /\ resetting[c] \in 1..4
        /\ \/ resetting[c] = 1 /\ Wipe("endpoints")
           \/ resetting[c] = 2 /\ Wipe("log")
           \/ resetting[c] = 3 /\ Wipe("topics")
           \/ resetting[c] = 4 /\ Wipe("objects")
    BY <1>1, WipeShape
  <2>2. /\ resetting[c] = 1 => EndpointsFreed(S)
        /\ resetting[c] = 2 => LogFreed(S)
        /\ resetting[c] = 3 => TopicsFreed(S)
        /\ resetting[c] = 4 => ObjectsFreed(S)
    BY <1>1, <2>1, WipeFrees
  <2>3. /\ resetting[c] > 1 => EndpointsFreed(S)
        /\ resetting[c] > 2 => LogFreed(S)
        /\ resetting[c] > 3 => TopicsFreed(S)
    BY <1>1, <1>3 DEF Freed
  <2> QED BY <2>1, <2>2, <2>3
<1>5. \A d \in Callers \ {c} : Freed(d)'
  <2> SUFFICES ASSUME NEW d \in Callers \ {c} PROVE Freed(d)'
    OBVIOUS
  <2>1. before'[d] = before[d] /\ resetting'[d] = resetting[d]
    <3>1. before' = before \/ before' = [before EXCEPT ![c] = {}]
      BY <1>1, WipeShape
    <3>2. \E n : resetting' = [resetting EXCEPT ![c] = n]
      BY <1>1, WipeShape
    <3>3. d \in DOMAIN before /\ d \in DOMAIN resetting /\ d # c
      BY <1>1 DEF TypeOK
    <3> QED BY <3>1, <3>2, <3>3
  <2> QED BY <2>1, OthersStayFreed DEF ResetInv
<1>6. CASE resetting[c] < 4
  <2>1. resetting'[c] = resetting[c] + 1 /\ UNCHANGED <<before, wiped>>
    BY <1>1, <1>4, <1>6, WipeShape DEF TypeOK
  <2>2. Freed(c)'
    <3>1. /\ resetting'[c] > 1 => EndpointsFreed(S)
          /\ resetting'[c] > 2 => LogFreed(S)
          /\ resetting'[c] > 3 => TopicsFreed(S)
      BY <1>4, <2>1
    <3> QED BY <1>2, <2>1, <3>1 DEF Freed, EndpointsFree, EndpointsFreed, LogFree, LogFreed,
                                    TopicsFree, TopicsFreed
  <2>3. (wiped \subseteq Finished /\ FreedAll(wiped))'
    BY <1>2, <2>1, WipedStep
  <2> QED BY <1>5, <2>2, <2>3 DEF ResetInv
<1>7. CASE resetting[c] = 4
  <2>1. before'[c] = {} /\ resetting'[c] = 0 /\ wiped' = wiped \cup S
    BY <1>1, <1>7, WipeShape DEF TypeOK
  <2>2. Freed(c)'
    BY <2>1 DEF Freed
  <2>3. FreedAllNext(wiped')
    BY <1>2, <1>4, <1>7, <2>1 DEF FreedAllNext, EndpointsFreed, LogFreed, TopicsFreed,
                                  ObjectsFreed
  <2>4. (wiped \subseteq Finished /\ FreedAll(wiped))'
    BY <1>2, <2>1, <2>3, WipedStep
  <2> QED BY <1>5, <2>2, <2>4 DEF ResetInv
<1> QED BY <1>4, <1>6, <1>7

\* Only reset() moves what is remembered of its calls.
LEMMA OnlyResetsMove ==
  [Next]_vars => \/ UNCHANGED <<resetting, before, wiped>>
                 \/ \E c \in Callers : CallReset(c) \/ ResetStep(c)
<1> SUFFICES ASSUME [Next]_vars, ~ \E c \in Callers : CallReset(c) \/ ResetStep(c)
             PROVE  UNCHANGED <<resetting, before, wiped>>
  OBVIOUS
<1>1. ASSUME NEW i \in Ids, Handler(i) PROVE UNCHANGED <<resetting, before, wiped>>
  BY <1>1 DEF Handler, Body, Record, Answer, Publish, PutObject, caller
<1>2. CASE ArriveAny
  BY <1>2 DEF ArriveAny, Arrive, caller
<1>3. ASSUME NEW r \in Routes, AddEndpoint(r) \/ RemoveEndpoint(r)
      PROVE  UNCHANGED <<resetting, before, wiped>>
  BY <1>3 DEF AddEndpoint, RemoveEndpoint, caller
<1>4. ASSUME NEW t \in Topics, NEW limit \in Limits, Consume(t, limit)
      PROVE  UNCHANGED <<resetting, before, wiped>>
  BY <1>4 DEF Consume, caller
<1>5. ASSUME NEW o \in Objects, DeleteObject(o) PROVE UNCHANGED <<resetting, before, wiped>>
  BY <1>5 DEF DeleteObject, caller
<1>6. CASE ClearCalls
  BY <1>6 DEF ClearCalls, caller
<1>7. CASE UNCHANGED vars
  BY <1>7 DEF vars, caller
<1> QED BY <1>1, <1>2, <1>3, <1>4, <1>5, <1>6, <1>7 DEF Next

LEMMA ResetInvStep == TypeInv /\ ResetInv /\ [Next]_vars => ResetInv'
<1> SUFFICES ASSUME TypeInv, ResetInv, [Next]_vars PROVE ResetInv'
  OBVIOUS
<1>1. FinishedStays /\ NothingOldEnters
  BY StepEnters
<1>2. UNCHANGED wiped => (wiped \subseteq Finished /\ FreedAll(wiped))'
  <2>1. wiped \subseteq Finished' /\ FreedAllNext(wiped)
    BY <1>1, WipedStaysFreed DEF ResetInv
  <2> QED BY <2>1, WipedStep
<1>3. CASE UNCHANGED <<resetting, before, wiped>>
  <2>1. \A c \in Callers : Freed(c)'
    BY <1>1, <1>3, OthersStayFreed DEF ResetInv
  <2> QED BY <1>2, <1>3, <2>1 DEF ResetInv
<1>4. ASSUME NEW c \in Callers, CallReset(c) PROVE ResetInv'
  <2>1. /\ before' = [before EXCEPT ![c] = Finished]
        /\ resetting' = [resetting EXCEPT ![c] = 1]
        /\ UNCHANGED <<ops, wiped>>
    BY <1>4 DEF CallReset
  <2>2. before'[c] = Finished /\ resetting'[c] = 1 /\ Finished' = Finished
    BY <2>1 DEF TypeInv, TypeOK, Finished
  <2>3. Freed(c)'
    BY <2>2 DEF Freed
  <2>4. \A d \in Callers \ {c} : Freed(d)'
    <3>1. \A d \in Callers \ {c} : before'[d] = before[d] /\ resetting'[d] = resetting[d]
      BY <2>1 DEF TypeInv, TypeOK
    <3> QED BY <1>1, <3>1, OthersStayFreed DEF ResetInv
  <2> QED BY <1>2, <2>1, <2>3, <2>4 DEF ResetInv
<1>5. ASSUME NEW c \in Callers, ResetStep(c) PROVE ResetInv'
  BY <1>1, <1>5, ResetStepFrees
<1> QED BY <1>3, <1>4, <1>5, OnlyResetsMove

\* What was finished when reset() was called (server.py) has left no trace in the
\* endpoints, the call log, the topics or the buckets once it has returned,
\* whatever requests, registrations and other resets went on in the meantime.
THEOREM ResetIsForgetting == Spec => []ResetForgets
<1>1. ResetInv => ResetForgets
  BY DEF ResetInv, ResetForgets, FreedAll, EndpointsFree, LogFree, TopicsFree, ObjectsFree
<1> QED BY <1>1, ResetInit, ResetInvStep, TypeInvariant, PTL DEF Spec

-------------------------------------------------------------------------------
(* The call log.                                                           *)

\* Only the handler that holds the event loop has recorded its call and not
\* answered it, and that call is the last of the log.
Answering == \A i \in DOMAIN ops : /\ ops[i].pc = "recorded" => busy = i
                                   /\ ops[i].pc # "done" => ops[i].answer = Nil
Recorded  == \A j \in DOMAIN log : ops[log[j]].pc \in {"recorded", "done"}
LogInv    == Answering /\ Recorded /\ LoggedInAnswerOrder

\* What the answers in the log may be after a step.
AnswerStep ==
  \A j \in DOMAIN log' :
    \/ ops'[log'[j]].answer = Nil
    \/ \E r \in Routes : ops'[log'[j]].answer = endpoints[r]
    \/ \E k \in DOMAIN log : ops'[log'[j]].answer = ops[log[k]].answer

LEMMA LogType == ASSUME TypeOK PROVE /\ Len(log) \in Nat /\ DOMAIN log = 1..Len(log)
                                     /\ \A j \in DOMAIN log : log[j] \in DOMAIN ops
BY DEF TypeOK

\* Steps that add an operation.
LEMMA GrownLog ==
  ASSUME TypeOK, LogInv, NEW op, Grown(op), UNCHANGED <<log, busy>>,
         op.answer = Nil, op.pc # "recorded"
  PROVE  LogInv' /\ AnswerStep
<1>1. \A j \in DOMAIN log : log[j] \in DOMAIN ops /\ ops'[log[j]] = ops[log[j]]
  BY LogType DEF Grown
<1>2. Answering'
  BY DEF LogInv, Answering, Grown
<1>3. Recorded' /\ LoggedInAnswerOrder'
  BY <1>1 DEF LogInv, Recorded, LoggedInAnswerOrder
<1>4. AnswerStep
  BY <1>1 DEF AnswerStep
<1> QED BY <1>2, <1>3, <1>4 DEF LogInv

\* Steps that change an operation that is in no log yet.
LEMMA ChangedLog ==
  ASSUME TypeOK, LogInv, NEW i \in DOMAIN ops, NEW op, Changed(i, op),
         ops[i].pc \in {"body", "ready"}, UNCHANGED <<log, busy>>,
         op.pc = "done" \/ op.answer = Nil, op.pc # "recorded"
  PROVE  LogInv' /\ AnswerStep
<1>1. \A j \in DOMAIN log : log[j] \in DOMAIN ops /\ ops'[log[j]] = ops[log[j]]
  <2>1. \A j \in DOMAIN log : log[j] # i
    BY DEF LogInv, Recorded
  <2> QED BY <2>1, LogType DEF Changed
<1>2. Answering'
  BY DEF LogInv, Answering, Changed
<1>3. Recorded' /\ LoggedInAnswerOrder'
  BY <1>1 DEF LogInv, Recorded, LoggedInAnswerOrder
<1>4. AnswerStep
  BY <1>1 DEF AnswerStep
<1> QED BY <1>2, <1>3, <1>4 DEF LogInv

\* Steps that leave the operations alone and may empty the log.
LEMMA SameLog ==
  ASSUME LogInv, UNCHANGED <<ops, busy>>, log' = log \/ log' = <<>>
  PROVE  LogInv' /\ AnswerStep
<1>1. Answering'
  BY DEF LogInv, Answering
<1>2. CASE log' = log
  BY <1>1, <1>2 DEF LogInv, Recorded, LoggedInAnswerOrder, AnswerStep
<1>3. CASE log' = <<>>
  BY <1>1, <1>3 DEF LogInv, Recorded, LoggedInAnswerOrder, AnswerStep
<1> QED BY <1>2, <1>3

LEMMA RecordLog ==
  ASSUME TypeOK, LogInv, NEW i \in Ids, Record(i)
  PROVE  LogInv' /\ AnswerStep
<1> DEFINE op == [ops[i] EXCEPT !.pc = "recorded"]
<1>1. /\ i \in DOMAIN ops /\ ops[i].pc = "ready" /\ busy = Nil /\ busy' = i
      /\ Changed(i, op)
      /\ Len(log') = Len(log) + 1 /\ DOMAIN log' = DOMAIN log \cup {Len(log) + 1}
      /\ \A j \in DOMAIN log : log'[j] = log[j]
      /\ log'[Len(log) + 1] = i
  BY RecordShape DEF At
<1>2. op.pc = "recorded" /\ op.answer = Nil
  BY <1>1, OpType DEF LogInv, Answering, Op
<1> HIDE DEF op
<1>3. \A k \in DOMAIN ops : ops[k].pc # "recorded"
  BY <1>1, IdsAreNat DEF LogInv, Answering
<1>4. \A j \in DOMAIN log : /\ log[j] \in DOMAIN ops /\ log[j] # i
                            /\ ops[log[j]].pc = "done" /\ ops'[log[j]] = ops[log[j]]
  BY <1>1, <1>3, LogType DEF LogInv, Recorded, Changed
<1>5. ops'[i] = op /\ DOMAIN ops' = DOMAIN ops
      /\ \A k \in DOMAIN ops : k # i => ops'[k] = ops[k]
  BY <1>1 DEF Changed
<1>6. Answering'
  BY <1>1, <1>2, <1>3, <1>5 DEF LogInv, Answering
<1>7. Recorded'
  BY <1>1, <1>2, <1>4, <1>5 DEF Recorded
<1>8. LoggedInAnswerOrder'
  <2> SUFFICES ASSUME NEW j \in DOMAIN log', j < Len(log') PROVE ops'[log'[j]].pc = "done"
    BY DEF LoggedInAnswerOrder
  <2>1. j \in DOMAIN log
    BY <1>1, LogType
  <2> QED BY <1>1, <1>4, <2>1
<1>9. AnswerStep
  BY <1>1, <1>2, <1>4, <1>5 DEF AnswerStep
<1> QED BY <1>6, <1>7, <1>8, <1>9 DEF LogInv

LEMMA AnswerLog ==
  ASSUME TypeInv, LogInv, NEW i \in Ids, Answer(i)
  PROVE  LogInv' /\ AnswerStep
<1> DEFINE r == ops[i].on
           op == [ops[i] EXCEPT !.pc = "done", !.answer = endpoints[r]]
<1>1. /\ i \in DOMAIN ops /\ ops[i].pc = "recorded" /\ r \in Routes
      /\ Changed(i, op) /\ log' = log
  BY AnswerShape DEF At, stores
<1>2. op.pc = "done" /\ op.answer = endpoints[r]
  BY <1>1, OpType DEF Op, TypeInv
<1> HIDE DEF op, r
<1>3. /\ ops'[i] = op /\ DOMAIN ops' = DOMAIN ops
      /\ \A k \in DOMAIN ops : k # i => ops'[k] = ops[k]
      /\ \A j \in DOMAIN log : log[j] \in DOMAIN ops
  BY <1>1, LogType DEF Changed, TypeInv
<1>4. \A k \in DOMAIN ops : k # i => ops[k].pc # "recorded"
  BY <1>1 DEF LogInv, Answering
<1>5. Answering'
  BY <1>2, <1>3, <1>4 DEF LogInv, Answering
<1>6. Recorded' /\ LoggedInAnswerOrder'
  BY <1>1, <1>2, <1>3 DEF LogInv, Recorded, LoggedInAnswerOrder
<1>7. AnswerStep
  BY <1>1, <1>2, <1>3 DEF AnswerStep
<1> QED BY <1>5, <1>6, <1>7 DEF LogInv

LEMMA HandlerLog ==
  ASSUME TypeInv, LogInv, NEW i \in Ids, Handler(i)
  PROVE  LogInv' /\ AnswerStep
<1> USE DEF TypeInv
<1>1. CASE Body(i)
  <2>1. PICK whole \in BOOLEAN, pc \in {"ready", "failed"} :
          Changed(i, [ops[i] EXCEPT !.whole = whole, !.pc = pc])
    BY <1>1, BodyShape
  <2> DEFINE op == [ops[i] EXCEPT !.whole = whole, !.pc = pc]
  <2>2. i \in DOMAIN ops /\ ops[i].pc = "body" /\ UNCHANGED <<log, busy>>
    BY <1>1, BodyShape DEF stores
  <2>3. op.pc # "recorded" /\ op.answer = Nil
    BY <2>2, OpType DEF Op, LogInv, Answering
  <2> HIDE DEF op
  <2> QED BY <2>1, <2>2, <2>3, ChangedLog DEF op
<1>2. CASE Record(i)
  BY <1>2, RecordLog
<1>3. CASE Answer(i)
  BY <1>3, AnswerLog
<1>4. CASE Publish(i)
  <2> DEFINE op == [ops[i] EXCEPT !.pc = "done", !.answer = Len(topics[ops[i].on]) + 1]
  <2>1. i \in DOMAIN ops /\ ops[i].pc = "ready" /\ Changed(i, op) /\ UNCHANGED <<log, busy>>
    BY <1>4, PublishShape DEF At
  <2>2. op.pc = "done"
    BY <2>1, OpType DEF Op
  <2> HIDE DEF op
  <2> QED BY <2>1, <2>2, ChangedLog
<1>5. CASE PutObject(i)
  <2> DEFINE op == [ops[i] EXCEPT !.pc = "done"]
  <2>1. i \in DOMAIN ops /\ ops[i].pc = "ready" /\ Changed(i, op) /\ UNCHANGED <<log, busy>>
    BY <1>5, PutShape DEF At
  <2>2. op.pc = "done"
    BY <2>1, OpType DEF Op
  <2> HIDE DEF op
  <2> QED BY <2>1, <2>2, ChangedLog
<1> QED BY <1>1, <1>2, <1>3, <1>4, <1>5 DEF Handler

LEMMA LogInit == Init => LogInv
BY DEF Init, LogInv, Answering, Recorded, LoggedInAnswerOrder

LEMMA LogStep == TypeInv /\ LogInv /\ [Next]_vars => LogInv' /\ AnswerStep
<1> SUFFICES ASSUME TypeInv, LogInv, [Next]_vars PROVE LogInv' /\ AnswerStep
  OBVIOUS
<1> USE DEF TypeInv
<1>1. CASE ArriveAny
  <2>1. PICK kind \in Kinds, x \in Routes \cup Topics \cup Objects : Arrive(kind, x)
    BY <1>1 DEF ArriveAny, Kinds
  <2> DEFINE op == NewOp(kind, x)
  <2>2. Grown(op) /\ UNCHANGED <<log, busy>>
    BY <2>1, ArriveShape DEF stores
  <2>3. op.answer = Nil /\ op.pc # "recorded"
    BY DEF NewOp
  <2> HIDE DEF op
  <2> QED BY <2>2, <2>3, GrownLog
<1>2. ASSUME NEW i \in Ids, Handler(i) PROVE LogInv' /\ AnswerStep
  BY <1>2, HandlerLog
<1>3. ASSUME NEW r \in Routes, AddEndpoint(r) PROVE LogInv' /\ AnswerStep
  <2> DEFINE op == [NewOp("add", r) EXCEPT !.pc = "done"]
  <2>1. Grown(op) /\ UNCHANGED <<log, busy>>
    BY <1>3, AddShape
  <2>2. op.answer = Nil /\ op.pc # "recorded"
    BY DEF NewOp
  <2> HIDE DEF op
  <2> QED BY <2>1, <2>2, GrownLog
<1>4. ASSUME NEW t \in Topics, NEW limit \in Limits, Consume(t, limit)
      PROVE  LogInv' /\ AnswerStep
  <2>1. PICK n \in 0..Len(topics[t]) :
          Grown([NewOp("consume", t) EXCEPT !.pc = "done", !.page = SubSeq(topics[t], 1, n)])
    BY <1>4, ConsumeShape
  <2> DEFINE op == [NewOp("consume", t) EXCEPT !.pc = "done", !.page = SubSeq(topics[t], 1, n)]
  <2>2. UNCHANGED <<log, busy>>
    BY <1>4, ConsumeShape DEF stores
  <2>3. op.answer = Nil /\ op.pc # "recorded"
    BY DEF NewOp
  <2>4. Grown(op)
    BY <2>1
  <2> HIDE DEF op
  <2> QED BY <2>2, <2>3, <2>4, GrownLog
<1>5. ASSUME NEW r \in Routes, RemoveEndpoint(r) PROVE LogInv' /\ AnswerStep
  BY <1>5, SameLog DEF RemoveEndpoint
<1>6. ASSUME NEW o \in Objects, DeleteObject(o) PROVE LogInv' /\ AnswerStep
  BY <1>6, SameLog DEF DeleteObject
<1>7. CASE ClearCalls
  BY <1>7, SameLog DEF ClearCalls, ClearLog
<1>8. ASSUME NEW c \in Callers, CallReset(c) PROVE LogInv' /\ AnswerStep
  BY <1>8, SameLog DEF CallReset, stores
<1>9. ASSUME NEW c \in Callers, ResetStep(c) PROVE LogInv' /\ AnswerStep
  <2>1. \E store \in {"endpoints", "log", "topics", "objects"} : Wipe(store)
    BY <1>9, WipeShape
  <2>2. log' = log \/ log' = <<>>
    BY <2>1 DEF Wipe, ClearLog
  <2>3. UNCHANGED <<ops, busy>>
    BY <1>9, WipeShape
  <2> QED BY <2>2, <2>3, SameLog
<1>10. CASE UNCHANGED vars
  BY <1>10, SameLog DEF vars, stores
<1> QED BY <1>1, <1>2, <1>3, <1>4, <1>5, <1>6, <1>7, <1>8, <1>9, <1>10 DEF Next

\* Of a call that is recorded, the handler answers before the next call is
\* recorded (_handle does not await in between, services/http.py): the log lists
\* the calls in the order of their answers.
THEOREM LogOrder == Spec => []LoggedInAnswerOrder
<1>1. LogInv => LoggedInAnswerOrder
  BY DEF LogInv
<1> QED BY <1>1, LogInit, LogStep, TypeInvariant, PTL DEF Spec

\* No call in the log was answered from an endpoint of before a reset() that has
\* returned, or that has passed the log.
FreshInv == /\ SurvivorsAreFresh
            /\ \A c \in Callers : resetting[c] > 2 =>
                 \A j \in DOMAIN log : ops[log[j]].answer \notin before[c]

LEMMA FreshInit == Init => FreshInv
BY DEF Init, FreshInv, SurvivorsAreFresh

\* A set no answer in the log is in, and no endpoint, or no log, stays so.
LEMMA FreshStays ==
  ASSUME TypeInv, AnswerStep, NEW S, S \subseteq Finished, EndpointsFree(S),
         \A j \in DOMAIN log : ops[log[j]].answer \notin S
  PROVE  \A j \in DOMAIN log' : ops'[log'[j]].answer \notin S
<1>1. Nil \notin S
  BY IdsAreNat DEF TypeInv, Finished
<1> QED BY <1>1 DEF AnswerStep, EndpointsFree

LEMMA FreshStep == TypeInv /\ ResetInv /\ LogInv /\ FreshInv /\ [Next]_vars => FreshInv'
<1> SUFFICES ASSUME TypeInv, ResetInv, LogInv, FreshInv, [Next]_vars PROVE FreshInv'
  OBVIOUS
<1>1. AnswerStep
  BY LogStep
<1>2. \A j \in DOMAIN log' : ops'[log'[j]].answer \notin wiped
  <2>1. wiped \subseteq Finished /\ EndpointsFree(wiped)
    BY DEF ResetInv, FreedAll
  <2> QED BY <1>1, <2>1, FreshStays DEF FreshInv, SurvivorsAreFresh
<1>3. ASSUME NEW c \in Callers, resetting[c] > 2
      PROVE  \A j \in DOMAIN log' : ops'[log'[j]].answer \notin before[c]
  <2>1. before[c] \subseteq Finished /\ EndpointsFree(before[c])
    <3>1. resetting[c] \in Int
      BY DEF TypeInv, TypeOK
    <3> QED BY <1>3, <3>1 DEF ResetInv, Freed
  <2> QED BY <1>1, <1>3, <2>1, FreshStays DEF FreshInv
<1>4. ASSUME UNCHANGED <<resetting, before, wiped>> PROVE FreshInv'
  BY <1>2, <1>3, <1>4 DEF FreshInv, SurvivorsAreFresh
<1>5. ASSUME NEW c \in Callers, CallReset(c) PROVE FreshInv'
  <2>1. resetting'[c] = 1 /\ wiped' = wiped
        /\ \A d \in Callers \ {c} : before'[d] = before[d] /\ resetting'[d] = resetting[d]
    BY <1>5 DEF CallReset, TypeInv, TypeOK
  <2> QED BY <1>2, <1>3, <2>1 DEF FreshInv, SurvivorsAreFresh
<1>6. ASSUME NEW c \in Callers, ResetStep(c) PROVE FreshInv'
  <2>0. TypeOK /\ c \in DOMAIN resetting /\ c \in DOMAIN before
    BY DEF TypeInv, TypeOK
  <2>1. \A d \in Callers \ {c} : before'[d] = before[d] /\ resetting'[d] = resetting[d]
    <3>1. before' = before \/ before' = [before EXCEPT ![c] = {}]
      BY <1>6, <2>0, WipeShape
    <3>2. \E n : resetting' = [resetting EXCEPT ![c] = n]
      BY <1>6, <2>0, WipeShape
    <3> QED BY <2>0, <3>1, <3>2 DEF TypeOK
  <2>2. resetting[c] = 2 => log' = <<>>
    BY <1>6, <2>0, WipeShape DEF Wipe, ClearLog
  <2>3. \/ resetting[c] = 1 /\ resetting'[c] = 2 /\ UNCHANGED <<before, wiped>>
        \/ resetting[c] = 2 /\ resetting'[c] = 3 /\ UNCHANGED <<before, wiped>>
        \/ resetting[c] = 3 /\ resetting'[c] = 4 /\ UNCHANGED <<before, wiped>>
        \/ resetting[c] = 4 /\ resetting'[c] = 0 /\ wiped' = wiped \cup before[c]
    BY <1>6, <2>0, WipeShape
  <2>4. SurvivorsAreFresh'
    BY <1>2, <1>3, <2>3 DEF SurvivorsAreFresh
  <2>5. resetting'[c] > 2 => \A j \in DOMAIN log' : ops'[log'[j]].answer \notin before'[c]
    BY <1>3, <2>2, <2>3
  <2> QED BY <1>3, <2>1, <2>4, <2>5 DEF FreshInv
<1> QED BY <1>4, <1>5, <1>6, OnlyResetsMove

\* After reset() the call log shows no call that was answered from an endpoint of
\* before it: HTTPService.reset() empties the endpoints before the log, _handle
\* writes the log before it looks at the endpoints.
THEOREM SurvivorsFresh == Spec => []SurvivorsAreFresh
<1>1. FreshInv => SurvivorsAreFresh
  BY DEF FreshInv
<1> QED BY <1>1, ResetInit, ResetInvStep, LogInit, LogStep, FreshInit, FreshStep,
           TypeInvariant, PTL DEF Spec
-------------------------------------------------------------------------------
(* Objects are whole.                                                      *)

\* An upload is whole from the end of its await on, stored or not yet.
Whole(i) == ops[i].kind = "put" /\ ops[i].pc = "ready" => ops[i].whole
WholeInv ==
  /\ \A o \in Objects : objects[o] # Nil => objects[o] \in Finished /\ ops[objects[o]].whole
  /\ \A i \in DOMAIN ops : Whole(i)

\* Nothing new is stored, nobody's await ends.
NothingStored == \A o \in Objects : objects'[o] \in {objects[o], Nil}
NoneReady     == \A i \in DOMAIN ops' : i \notin DOMAIN ops \/ ops'[i] # ops[i] =>
                   ops'[i].kind # "put" \/ ops'[i].pc # "ready"

LEMMA WholeInit == Init => WholeInv
BY DEF Init, WholeInv

LEMMA StoredStays ==
  ASSUME WholeInv, FinishedStays, NothingStored
  PROVE  \A o \in Objects :
           objects'[o] # Nil => objects'[o] \in Finished' /\ ops'[objects'[o]].whole
BY DEF WholeInv, FinishedStays, NothingStored

LEMMA QuietStays ==
  ASSUME WholeInv, FinishedStays, NothingStored, NoneReady
  PROVE  WholeInv'
<1>1. \A i \in DOMAIN ops' : Whole(i)'
  BY DEF WholeInv, NoneReady, Whole
<1> QED BY <1>1, StoredStays DEF WholeInv

LEMMA GrownQuiet == ASSUME NEW op, Grown(op), op.pc # "ready" PROVE NoneReady
BY DEF Grown, NoneReady

LEMMA ChangedQuiet ==
  ASSUME NEW i \in DOMAIN ops, NEW op, Changed(i, op), op.kind # "put" \/ op.pc # "ready"
  PROVE  NoneReady
BY DEF Changed, NoneReady

LEMMA SameQuiet ==
  /\ UNCHANGED ops => NoneReady
  /\ UNCHANGED objects => NothingStored
BY DEF NoneReady, NothingStored

LEMMA HandlerWhole ==
  ASSUME TypeInv, WholeInv, NEW i \in Ids, Handler(i), FinishedStays
  PROVE  WholeInv'
<1> USE DEF TypeInv
<1>1. CASE Body(i)
  <2>1. PICK whole \in BOOLEAN, pc \in {"ready", "failed"} :
          /\ pc = "ready" => ops[i].kind # "put" \/ whole
          /\ Changed(i, [ops[i] EXCEPT !.whole = whole, !.pc = pc])
    BY <1>1, BodyShape
  <2>2. i \in DOMAIN ops
    BY <1>1 DEF Body
  <2>3. UNCHANGED objects
    <3>1. UNCHANGED stores
      BY <1>1 DEF Body
    <3> QED BY <3>1 DEF stores
  <2>4. i \in DOMAIN ops /\ ops[i] \in Op /\ UNCHANGED objects
    BY <2>2, <2>3, OpType
  <2> DEFINE op == [ops[i] EXCEPT !.whole = whole, !.pc = pc]
  <2>5. op.kind = ops[i].kind /\ op.whole = whole /\ op.pc = pc
    BY <2>4 DEF Op
  <2> HIDE DEF op
  <2>6. ops'[i] = op /\ DOMAIN ops' = DOMAIN ops /\ \A j \in DOMAIN ops : j # i => ops'[j] = ops[j]
    BY <2>1 DEF Changed, op
  <2>7. Whole(i)'
    BY <2>1, <2>5, <2>6 DEF Whole
  <2>8. \A j \in DOMAIN ops' : Whole(j)'
    BY <2>6, <2>7 DEF WholeInv, Whole
  <2>9. NothingStored
    BY <2>4, SameQuiet
  <2> QED BY <2>8, <2>9, StoredStays, Zenon DEF WholeInv
<1>2. CASE Record(i)
  <2> DEFINE op == [ops[i] EXCEPT !.pc = "recorded"]
  <2>1. i \in DOMAIN ops /\ ops[i] \in Op /\ Changed(i, op) /\ UNCHANGED objects
    BY <1>2, RecordShape, OpType DEF At
  <2>2. op.pc = "recorded"
    BY <2>1 DEF Op
  <2> HIDE DEF op
  <2> QED BY <2>1, <2>2, ChangedQuiet, SameQuiet, QuietStays
<1>3. CASE Answer(i)
  <2> DEFINE op == [ops[i] EXCEPT !.pc = "done", !.answer = endpoints[ops[i].on]]
  <2>1. i \in DOMAIN ops /\ Changed(i, op)
    BY <1>3, AnswerShape DEF At
  <2>2. UNCHANGED objects
    <3>1. UNCHANGED stores
      BY <1>3, AnswerShape
    <3> QED BY <3>1 DEF stores
  <2>3. ops[i] \in Op
    BY <2>1, OpType
  <2>4. i \in DOMAIN ops /\ Changed(i, op) /\ UNCHANGED objects
    BY <2>1, <2>2
  <2>5. op.pc = "done"
    BY <2>3 DEF Op
  <2> HIDE DEF op
  <2> QED BY <2>4, <2>5, ChangedQuiet, SameQuiet, QuietStays
<1>4. CASE Publish(i)
  <2> DEFINE op == [ops[i] EXCEPT !.pc = "done", !.answer = Len(topics[ops[i].on]) + 1]
  <2>1. i \in DOMAIN ops /\ Changed(i, op) /\ UNCHANGED objects
    BY <1>4, PublishShape DEF At
  <2>0. ops[i] \in Op
    BY <2>1, OpType
  <2>2. op.pc = "done"
    BY <2>0 DEF Op
  <2> HIDE DEF op
  <2> QED BY <2>1, <2>2, ChangedQuiet, SameQuiet, QuietStays
<1>5. CASE PutObject(i)
  <2> DEFINE op == [ops[i] EXCEPT !.pc = "done"]
  <2>1. /\ i \in DOMAIN ops /\ ops[i] \in Op /\ Changed(i, op)
        /\ ops[i].kind = "put" /\ ops[i].pc = "ready"
        /\ objects' = [objects EXCEPT ![ops[i].on] = i]
    BY <1>5, PutShape, OpType DEF At
  <2>2. op.pc = "done" /\ op.whole = ops[i].whole
    BY <2>1 DEF Op
  <2>3. ops[i].whole
    BY <2>1 DEF WholeInv, Whole
  <2> HIDE DEF op
  <2>4. i \in Finished' /\ ops'[i].whole
    BY <2>1, <2>2, <2>3 DEF Changed, Finished
  <2>5. NoneReady
    BY <2>1, <2>2, ChangedQuiet
  <2>6. \A j \in DOMAIN ops' : Whole(j)'
    BY <2>5 DEF WholeInv, NoneReady, Whole
  <2>7. \A o \in Objects : objects'[o] = objects[o] \/ objects'[o] = i
    BY <2>1 DEF TypeOK
  <2>8. \A o \in Objects :
          objects'[o] # Nil => objects'[o] \in Finished' /\ ops'[objects'[o]].whole
    BY <2>4, <2>7 DEF WholeInv, FinishedStays
  <2> QED BY <2>6, <2>8 DEF WholeInv
<1> QED BY <1>1, <1>2, <1>3, <1>4, <1>5 DEF Handler

LEMMA WholeStep == TypeInv /\ WholeInv /\ [Next]_vars => WholeInv'
<1> SUFFICES ASSUME TypeInv, WholeInv, [Next]_vars PROVE WholeInv'
  OBVIOUS
<1> USE DEF TypeInv
<1>0. FinishedStays
  BY StepEnters
<1>1. CASE ArriveAny
  <2>1. PICK kind \in Kinds, x \in Routes \cup Topics \cup Objects : Arrive(kind, x)
    BY <1>1 DEF ArriveAny, Kinds
  <2>2. Grown(NewOp(kind, x)) /\ UNCHANGED objects /\ NewOp(kind, x).pc = "body"
    BY <2>1, ArriveShape DEF NewOp, stores
  <2> QED BY <1>0, <2>2, GrownQuiet, SameQuiet, QuietStays
<1>2. ASSUME NEW i \in Ids, Handler(i) PROVE WholeInv'
  BY <1>0, <1>2, HandlerWhole
<1>3. ASSUME NEW r \in Routes, AddEndpoint(r) PROVE WholeInv'
  <2> DEFINE op == [NewOp("add", r) EXCEPT !.pc = "done"]
  <2>1. Grown(op) /\ UNCHANGED objects /\ op.pc = "done"
    BY <1>3, AddShape DEF NewOp
  <2> HIDE DEF op
  <2> QED BY <1>0, <2>1, GrownQuiet, SameQuiet, QuietStays
<1>4. ASSUME NEW t \in Topics, NEW limit \in Limits, Consume(t, limit) PROVE WholeInv'
  <2>1. PICK n \in 0..Len(topics[t]) :
          Grown([NewOp("consume", t) EXCEPT !.pc = "done", !.page = SubSeq(topics[t], 1, n)])
    BY <1>4, ConsumeShape
  <2> DEFINE page == SubSeq(topics[t], 1, n)
             op == [NewOp("consume", t) EXCEPT !.pc = "done", !.page = page]
  <2>2. Grown(op)
    BY <2>1
  <2> HIDE DEF page
  <2>3. op.pc = "done"
    BY DEF NewOp
  <2> HIDE DEF op
  <2>4. Grown(op) /\ op.pc = "done"
    BY <2>2, <2>3
  <2>5. UNCHANGED <<stores, busy, caller, cleared>>
    BY <1>4, ConsumeShape
  <2>6. UNCHANGED objects
    BY <2>5 DEF stores
  <2> QED BY <1>0, <2>4, <2>6, GrownQuiet, SameQuiet, QuietStays
<1>5. ASSUME UNCHANGED ops, NothingStored PROVE WholeInv'
  BY <1>0, <1>5, SameQuiet, QuietStays
<1>6. ASSUME NEW o \in Objects, DeleteObject(o) PROVE WholeInv'
  <2>1. NothingStored
    BY <1>6 DEF DeleteObject, NothingStored, TypeOK
  <2> QED BY <1>5, <1>6, <2>1 DEF DeleteObject
<1>7. ASSUME NEW c \in Callers, ResetStep(c) PROVE WholeInv'
  <2>1. UNCHANGED ops
    BY <1>7, WipeShape
  <2>2. UNCHANGED objects \/ objects' = [o \in Objects |-> Nil]
    BY <1>7, WipeShape DEF Wipe, ClearLog
  <2> QED BY <1>5, <2>1, <2>2 DEF NothingStored
<1>8. ASSUME UNCHANGED <<ops, objects>> PROVE WholeInv'
  BY <1>5, <1>8, SameQuiet
<1>9. CASE \/ \E r \in Routes : RemoveEndpoint(r)
           \/ ClearCalls
           \/ \E c \in Callers : CallReset(c)
           \/ UNCHANGED vars
  BY <1>8, <1>9 DEF RemoveEndpoint, ClearCalls, ClearLog, CallReset, vars, stores
<1> QED BY <1>1, <1>2, <1>3, <1>4, <1>6, <1>7, <1>9 DEF Next

\* An object in the storage came with an upload that arrived in full: storage, as
\* opposed to http and queue, catches nothing that its await raises.
THEOREM ObjectsAreWhole == Spec => []OnlyWholeObjects
<1>1. WholeInv => OnlyWholeObjects
  BY DEF WholeInv, OnlyWholeObjects
<1> QED BY <1>1, WholeInit, WholeStep, TypeInvariant, PTL DEF Spec
-------------------------------------------------------------------------------
(* Places stay.                                                            *)

\* What a publisher was told, and what a consumer saw, of topics that are now q.
IsPlaced(op, i, q) ==
  /\ op.kind = "publish" =>
       op.on \in Topics /\ op.answer \in DOMAIN q[op.on] /\ q[op.on][op.answer] = i
  /\ op.kind = "consume" =>
       /\ op.on \in Topics
       /\ \A k \in DOMAIN op.page : k \in DOMAIN q[op.on] /\ q[op.on][k] = op.page[k]
PlacesInv == \A i \in Finished \ cleared : IsPlaced(ops[i], i, topics)

\* A topic at most grows at its end, and what finishes is placed.
TopicsExtend ==
  /\ \A t \in Topics : \A k \in DOMAIN topics[t] :
       k \in DOMAIN topics'[t] /\ topics'[t][k] = topics[t][k]
  /\ cleared \subseteq cleared'
NewPlaced ==
  \A i \in DOMAIN ops' : ops'[i].pc = "done" => i \in Finished \/ IsPlaced(ops'[i], i, topics')

LEMMA PlacesInit == Init => PlacesInv
BY DEF Init, PlacesInv, Finished

LEMMA ExtendKeeps ==
  ASSUME NEW op, NEW i, IsPlaced(op, i, topics), TopicsExtend
  PROVE  IsPlaced(op, i, topics')
BY DEF IsPlaced, TopicsExtend

LEMMA PlacesKeep ==
  ASSUME PlacesInv, FinishedStays, TopicsExtend, NewPlaced
  PROVE  PlacesInv'
<1> SUFFICES ASSUME NEW i \in DOMAIN ops', ops'[i].pc = "done", i \notin cleared'
             PROVE  IsPlaced(ops'[i], i, topics')
  BY DEF PlacesInv, Finished
<1>1. CASE i \in Finished
  <2>1. IsPlaced(ops[i], i, topics) /\ ops'[i] = ops[i]
    BY <1>1 DEF PlacesInv, FinishedStays, TopicsExtend
  <2> QED BY <2>1, ExtendKeeps
<1>2. CASE i \notin Finished
  BY <1>2 DEF NewPlaced
<1> QED BY <1>1, <1>2

LEMMA SameTopics == UNCHANGED <<topics, cleared>> => TopicsExtend
BY DEF TopicsExtend

LEMMA SameOps == UNCHANGED ops => NewPlaced
BY DEF NewPlaced, Finished

LEMMA GrownPlaced ==
  ASSUME NEW op, Grown(op),
         op.pc = "done" => IsPlaced(op, Len(ops) + 1, topics')
  PROVE  NewPlaced
BY DEF Grown, NewPlaced, Finished

LEMMA ChangedPlaced ==
  ASSUME NEW i \in DOMAIN ops, NEW op, Changed(i, op),
         op.pc = "done" => IsPlaced(op, i, topics')
  PROVE  NewPlaced
BY DEF Changed, NewPlaced, Finished

\* Only publishers and consumers have places.
LEMMA PlacedOthers ==
  ASSUME NEW op, NEW i, NEW q, op.kind \notin {"publish", "consume"}
  PROVE  IsPlaced(op, i, q)
BY DEF IsPlaced

LEMMA HandlerPlaces ==
  ASSUME TypeInv, PlacesInv, NEW i \in Ids, Handler(i), FinishedStays
  PROVE  PlacesInv'
<1> USE DEF TypeInv
<1>1. CASE Body(i)
  <2>1. PICK whole \in BOOLEAN, pc \in {"ready", "failed"} :
          Changed(i, [ops[i] EXCEPT !.whole = whole, !.pc = pc])
    BY <1>1, BodyShape
  <2>2. i \in DOMAIN ops
    BY <1>1 DEF Body
  <2>3. UNCHANGED <<stores, busy, caller, cleared>>
    BY <1>1 DEF Body
  <2>4. ops[i] \in Op
    BY <2>2, OpType
  <2> DEFINE op == [ops[i] EXCEPT !.whole = whole, !.pc = pc]
  <2>5. op.pc # "done"
    BY <2>4 DEF Op
  <2>6. Changed(i, op)
    BY <2>1
  <2> HIDE DEF op
  <2>7. NewPlaced
    BY <2>2, <2>5, <2>6, ChangedPlaced
  <2>8. TopicsExtend
    BY <2>3, SameTopics DEF stores
  <2> QED BY <2>7, <2>8, PlacesKeep, Zenon
<1>2. CASE Record(i)
  <2> DEFINE op == [ops[i] EXCEPT !.pc = "recorded"]
  <2>1. i \in DOMAIN ops /\ Changed(i, op) /\ UNCHANGED <<topics, cleared>>
    BY <1>2, RecordShape DEF At
  <2>2. ops[i] \in Op
    BY <2>1, OpType
  <2>3. op.pc # "done"
    BY <2>2 DEF Op
  <2> HIDE DEF op
  <2> QED BY <2>1, <2>3, ChangedPlaced, SameTopics, PlacesKeep
<1>3. CASE Answer(i)
  <2> DEFINE op == [ops[i] EXCEPT !.pc = "done", !.answer = endpoints[ops[i].on]]
  <2>1. i \in DOMAIN ops /\ ops[i].kind = "call" /\ Changed(i, op)
    BY <1>3, AnswerShape DEF At
  <2>2. UNCHANGED stores /\ UNCHANGED cleared
    BY <1>3, AnswerShape
  <2>3. ops[i] \in Op
    BY <2>1, OpType
  <2>4. op.kind = "call"
    BY <2>1, <2>3 DEF Op
  <2> HIDE DEF op
  <2>5. NewPlaced
    BY <2>1, <2>4, ChangedPlaced, PlacedOthers
  <2>6. TopicsExtend
    BY <2>2, SameTopics DEF stores
  <2> QED BY <2>5, <2>6, PlacesKeep
<1>4. CASE Publish(i)
  <2> DEFINE t == ops[i].on
             op == [ops[i] EXCEPT !.pc = "done", !.answer = Len(topics[t]) + 1]
  <2>1. /\ i \in DOMAIN ops /\ ops[i].kind = "publish" /\ t \in Topics /\ Changed(i, op)
        /\ Published(t, i) /\ UNCHANGED cleared
    BY <1>4, PublishShape DEF At
  <2>2. ops[i] \in Op
    BY <2>1, OpType
  <2>3. op.kind = "publish" /\ op.on = t /\ op.answer = Len(topics[t]) + 1
    BY <2>1, <2>2 DEF Op
  <2> HIDE DEF op, t
  <2>4. /\ topics[t] \in Seq(DOMAIN ops) /\ topics'[t] = Append(topics[t], i)
        /\ \A u \in Topics : u # t => topics'[u] = topics[u]
    BY <2>1 DEF Published
  <2>5. /\ \A k \in DOMAIN topics[t] : k \in DOMAIN topics'[t] /\ topics'[t][k] = topics[t][k]
        /\ Len(topics[t]) + 1 \in DOMAIN topics'[t] /\ topics'[t][Len(topics[t]) + 1] = i
    BY <2>1, <2>4
  <2>6. TopicsExtend
    BY <2>1, <2>4, <2>5 DEF TopicsExtend
  <2>7. IsPlaced(op, i, topics')
    BY <2>1, <2>3, <2>5 DEF IsPlaced
  <2> QED BY <2>1, <2>6, <2>7, ChangedPlaced, PlacesKeep
<1>5. CASE PutObject(i)
  <2> DEFINE op == [ops[i] EXCEPT !.pc = "done"]
  <2>1. /\ i \in DOMAIN ops /\ ops[i].kind = "put" /\ Changed(i, op)
        /\ UNCHANGED <<topics, cleared>>
    BY <1>5, PutShape DEF At
  <2>2. ops[i] \in Op
    BY <2>1, OpType
  <2>3. op.kind = "put"
    BY <2>1, <2>2 DEF Op
  <2> HIDE DEF op
  <2>4. NewPlaced
    BY <2>1, <2>3, ChangedPlaced, PlacedOthers
  <2> QED BY <2>1, <2>4, SameTopics, PlacesKeep
<1> QED BY <1>1, <1>2, <1>3, <1>4, <1>5 DEF Handler

\* A consumer saw the beginning of a topic.
LEMMA ConsumePlaces ==
  ASSUME TypeInv, PlacesInv, FinishedStays,
         NEW t \in Topics, NEW limit \in Limits, Consume(t, limit)
  PROVE  PlacesInv'
<1> USE DEF TypeInv
<1>1. PICK n \in 0..Len(topics[t]) :
        Grown([NewOp("consume", t) EXCEPT !.pc = "done", !.page = SubSeq(topics[t], 1, n)])
  BY ConsumeShape
<1>2. UNCHANGED <<stores, busy, caller, cleared>>
  BY ConsumeShape
<1>3. UNCHANGED <<topics, cleared>>
  BY <1>2 DEF stores
<1> DEFINE page == SubSeq(topics[t], 1, n)
           op == [NewOp("consume", t) EXCEPT !.pc = "done", !.page = page]
<1>4. topics[t] \in Seq(DOMAIN ops)
  BY DEF TypeOK
<1>5. \A k \in DOMAIN page : k \in DOMAIN topics[t] /\ topics[t][k] = page[k]
  BY <1>4
<1>6. Grown(op)
  BY <1>1
<1> HIDE DEF page
<1>7. op.kind = "consume" /\ op.on = t /\ op.page = page
  BY DEF NewOp
<1> HIDE DEF op
<1>8. IsPlaced(op, Len(ops) + 1, topics')
  BY <1>3, <1>5, <1>7 DEF IsPlaced
<1> QED BY <1>3, <1>6, <1>8, GrownPlaced, SameTopics, PlacesKeep

\* The topics are wiped, and with them all places that anyone knows.
LEMMA WipePlaces ==
  ASSUME PlacesInv, Wipe("topics"), UNCHANGED ops
  PROVE  PlacesInv'
<1>1. cleared' = cleared \cup {i \in Finished : ops[i].kind \in {"publish", "consume"}}
  BY DEF Wipe
<1>2. \A i \in Finished \ cleared' : ops[i].kind \notin {"publish", "consume"}
  BY <1>1
<1>3. Finished' = Finished
  BY DEF Finished
<1> QED BY <1>2, <1>3, PlacedOthers DEF PlacesInv

LEMMA PlacesStep == TypeInv /\ PlacesInv /\ [Next]_vars => PlacesInv'
<1> SUFFICES ASSUME TypeInv, PlacesInv, [Next]_vars PROVE PlacesInv'
  OBVIOUS
<1> USE DEF TypeInv
<1>0. FinishedStays
  BY StepEnters
<1>1. CASE ArriveAny
  <2>1. PICK kind \in Kinds, x \in Routes \cup Topics \cup Objects : Arrive(kind, x)
    BY <1>1 DEF ArriveAny, Kinds
  <2>2. Grown(NewOp(kind, x)) /\ UNCHANGED <<topics, cleared>> /\ NewOp(kind, x).pc = "body"
    BY <2>1, ArriveShape DEF NewOp, stores
  <2>3. NewPlaced
    BY <2>2, GrownPlaced
  <2> QED BY <1>0, <2>2, <2>3, SameTopics, PlacesKeep
<1>2. ASSUME NEW i \in Ids, Handler(i) PROVE PlacesInv'
  BY <1>0, <1>2, HandlerPlaces
<1>3. ASSUME NEW r \in Routes, AddEndpoint(r) PROVE PlacesInv'
  <2> DEFINE op == [NewOp("add", r) EXCEPT !.pc = "done"]
  <2>1. Grown(op) /\ UNCHANGED <<topics, cleared>>
    BY <1>3, AddShape
  <2>2. op.kind = "add"
    BY DEF NewOp
  <2> HIDE DEF op
  <2>3. NewPlaced
    BY <2>1, <2>2, GrownPlaced, PlacedOthers
  <2> QED BY <1>0, <2>1, <2>3, SameTopics, PlacesKeep
<1>4. ASSUME NEW t \in Topics, NEW limit \in Limits, Consume(t, limit) PROVE PlacesInv'
  BY <1>0, <1>4, ConsumePlaces
<1>5. ASSUME UNCHANGED <<ops, topics>>, cleared \subseteq cleared' PROVE PlacesInv'
  BY <1>0, <1>5, SameOps, PlacesKeep DEF TopicsExtend
<1>6. ASSUME NEW c \in Callers, ResetStep(c) PROVE PlacesInv'
  <2>1. UNCHANGED ops
    BY <1>6, WipeShape
  <2>2. \/ Wipe("topics")
        \/ Wipe("endpoints") \/ Wipe("log") \/ Wipe("objects")
    BY <1>6, WipeShape
  <2>3. CASE Wipe("topics")
    BY <2>1, <2>3, WipePlaces
  <2>4. CASE Wipe("endpoints") \/ Wipe("log") \/ Wipe("objects")
    <3>1. UNCHANGED topics /\ cleared \subseteq cleared'
      BY <2>4 DEF Wipe, ClearLog
    <3> QED BY <1>5, <2>1, <3>1
  <2> QED BY <2>2, <2>3, <2>4
<1>7. CASE \/ \E r \in Routes : RemoveEndpoint(r)
           \/ ClearCalls
           \/ \E o \in Objects : DeleteObject(o)
           \/ \E c \in Callers : CallReset(c)
           \/ UNCHANGED vars
  BY <1>5, <1>7 DEF RemoveEndpoint, ClearCalls, ClearLog, DeleteObject, CallReset, vars, stores
<1> QED BY <1>1, <1>2, <1>3, <1>4, <1>6, <1>7 DEF Next

LEMMA PlacedSays == TypeOK /\ PlacesInv => PlacesStay
<1> SUFFICES ASSUME TypeOK, PlacesInv, NEW i \in Finished \ cleared
             PROVE  /\ ops[i].kind = "publish" =>
                         /\ ops[i].answer \in DOMAIN topics[ops[i].on]
                         /\ topics[ops[i].on][ops[i].answer] = i
                    /\ ops[i].kind = "consume" =>
                         /\ Len(ops[i].page) <= Len(topics[ops[i].on])
                         /\ ops[i].page = SubSeq(topics[ops[i].on], 1, Len(ops[i].page))
  BY DEF PlacesStay, CountIsPlace, ReadsArePrefixes
<1>1. IsPlaced(ops[i], i, topics)
  BY DEF PlacesInv
<1>2. ASSUME ops[i].kind = "consume"
      PROVE  /\ Len(ops[i].page) <= Len(topics[ops[i].on])
             /\ ops[i].page = SubSeq(topics[ops[i].on], 1, Len(ops[i].page))
  <2> DEFINE page == ops[i].page
             s == topics[ops[i].on]
  <2>1. ops[i].on \in Topics /\ \A k \in DOMAIN page : k \in DOMAIN s /\ s[k] = page[k]
    BY <1>1, <1>2 DEF IsPlaced
  <2>2. ops[i] \in Op
    BY OpType DEF Finished
  <2>3. page \in Seq(Ids) /\ s \in Seq(DOMAIN ops)
    BY <2>1, <2>2 DEF Op, TypeOK
  <2> HIDE DEF page, s
  <2>4. Len(page) <= Len(s)
    BY <2>1, <2>3
  <2>5. page = SubSeq(s, 1, Len(page))
    BY <2>1, <2>3, <2>4
  <2> QED BY <2>4, <2>5 DEF page, s
<1> QED BY <1>1, <1>2 DEF IsPlaced

\* The count a publisher got back stays the place of its message, and what a
\* consumer saw the beginning of its topic, until the topics are wiped: publish()
\* appends, consume() takes nothing.
THEOREM PlacesReliable == Spec => []PlacesStay
<1> QED BY PlacesInit, PlacesStep, PlacedSays, TypeInvariant, PTL DEF Spec, TypeInv
===============================================================================
