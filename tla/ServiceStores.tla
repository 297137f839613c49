----------------------------- MODULE ServiceStores -----------------------------
(***************************************************************************)
(* The stores behind the gateway: HTTPService (services/http.py) with its  *)
(* StateStore (state.py), QueueService (services/queue.py) and             *)
(* StorageService (services/storage.py), used at once by                   *)
(*   - the event loop of the gateway, which runs the handlers of the       *)
(*     requests and switches between them only where they await a body;    *)
(*   - threads of the test program, which call the services directly and   *)
(*     reset() of the server, in the middle of a handler if they like.     *)
(* A step is one critical section, or the end of an await.                 *)
(*                                                                         *)
(* Requests and registrations are numbered as they come in, and the number *)
(* stands for the payload: the stores hold numbers.  publish() and         *)
(* put_object() may also be called directly, at any moment: they are       *)
(* requests that do not wait for the event loop.  What only reads is left  *)
(* out, consume() excepted.  DatabaseService and AuthService, which        *)
(* reset() visits between HTTP and queue, share nothing with these.        *)
(***************************************************************************)
EXTENDS Integers, Sequences, FiniteSets

CONSTANTS
  Routes,    \* (method, path) pairs
  Topics,    \* topics of the queue
  Objects,   \* (bucket, key) pairs
  Limits,    \* the limits consumers ask for
  Callers,   \* threads of the test program that call reset()
  MaxOps,    \* bound on the number of requests and registrations
  MaxResets  \* bound on the number of calls of reset()

ASSUME StoresOK ==
  /\ Limits \subseteq Int
  /\ MaxOps \in Nat
  /\ MaxResets \in Nat

VARIABLES
  endpoints,  \* HTTPService._endpoints: the registration of a route, or Nil
  log,        \* HTTPService._call_log
  topics,     \* QueueService._topics; a topic without messages does not exist
  objects,    \* StorageService._buckets: the upload an object came with, or Nil
  ops,        \* the requests and registrations, in the order they came in
  busy,       \* the request whose handler holds the event loop, or Nil
  resetting,  \* per caller: the step of reset() it is at, 0 when in none
  resets,     \* the number of calls of reset()
  \* History, read by no action:
  before,     \* per caller: what was finished when its reset() began
  wiped,      \* the union of these sets over the resets that have returned
  cleared     \* the calls, publishes and consumes whose traces were cleared

stores  == <<endpoints, log, topics, objects>>
caller  == <<resetting, resets, before, wiped>>
vars    == <<stores, ops, busy, caller, cleared>>

Ids == 1..MaxOps
Nil == 0

Op == [kind   : {"call", "add", "publish", "consume", "put"},
       on     : Routes \cup Topics \cup Objects,
       pc     : {"body", "ready", "recorded", "done", "failed"},
       whole  : BOOLEAN,     \* whether the body arrived and was legible
       answer : Nat,         \* the registration, or the message count, sent back
       page   : Seq(Ids)]    \* the messages sent back

NewOp(kind, x) == [kind |-> kind, on |-> x, pc |-> "body", whole |-> FALSE,
                   answer |-> Nil, page |-> <<>>]

Finished == {i \in DOMAIN ops : ops[i].pc = "done"}

Init ==
  /\ endpoints = [r \in Routes |-> Nil]
  /\ log = <<>>
  /\ topics = [t \in Topics |-> <<>>]
  /\ objects = [o \in Objects |-> Nil]
  /\ ops = <<>>
  /\ busy = Nil
  /\ resetting = [c \in Callers |-> 0]
  /\ resets = 0
  /\ before = [c \in Callers |-> {}]
  /\ wiped = {}
  /\ cleared = {}

-------------------------------------------------------------------------------
(* Requests: arrival, and the end of `await request.json()` or .body().    *)

New(op) == /\ Len(ops) < MaxOps
           /\ ops' = Append(ops, op)

Arrive(kind, x) ==
  /\ New(NewOp(kind, x))
  /\ UNCHANGED <<stores, busy, caller, cleared>>

ArriveAny == \/ \E r \in Routes : Arrive("call", r)
             \/ \E t \in Topics : Arrive("publish", t)
             \/ \E o \in Objects : Arrive("put", o)

At(i, kind, pc) == i \in DOMAIN ops /\ ops[i].kind = kind /\ ops[i].pc = pc

\* Mutant: _put stores what has arrived of an upload that broke off.
BodyOrPart(i) ==
  /\ i \in DOMAIN ops /\ ops[i].pc = "body"
  /\ busy = Nil
  /\ \E whole \in BOOLEAN :
       ops' = [ops EXCEPT ![i].whole = whole, ![i].pc = "ready"]
  /\ UNCHANGED <<stores, busy, caller, cleared>>

\* A body that is malformed, or whose client has gone, is replaced by None or {}
\* by the `except Exception` of http and queue; storage has none, takes any
\* bytes, and loses the request when the client goes.
Body(i) ==
  /\ i \in DOMAIN ops /\ ops[i].pc = "body"
  /\ busy = Nil
  /\ \E whole \in BOOLEAN :
       ops' = [ops EXCEPT ![i].whole = whole,
                          ![i].pc = IF ops[i].kind = "put" /\ ~whole
                                    THEN "failed" ELSE "ready"]
  /\ UNCHANGED <<stores, busy, caller, cleared>>

-------------------------------------------------------------------------------
(* HTTPService                                                             *)

\* add_endpoint(): a registration replaces the one before.
AddEndpoint(r) ==
  /\ New([NewOp("add", r) EXCEPT !.pc = "done"])
  /\ endpoints' = [endpoints EXCEPT ![r] = Len(ops) + 1]
  /\ UNCHANGED <<log, topics, objects, busy, caller, cleared>>

RemoveEndpoint(r) ==
  /\ endpoints' = [endpoints EXCEPT ![r] = Nil]
  /\ UNCHANGED <<log, topics, objects, ops, busy, caller, cleared>>

\* Mutant: the handler awaits something between recording and answering.
RecordThenAwait(i) ==
  /\ At(i, "call", "ready")
  /\ log' = Append(log, i)
  /\ ops' = [ops EXCEPT ![i].pc = "recorded"]
  /\ UNCHANGED <<endpoints, topics, objects, busy, caller, cleared>>

\* _handle: _record_call() takes the lock of the log ...
Record(i) ==
  /\ At(i, "call", "ready")
  /\ busy = Nil
  /\ log' = Append(log, i)
  /\ ops' = [ops EXCEPT ![i].pc = "recorded"]
  /\ busy' = i
  /\ UNCHANGED <<endpoints, topics, objects, caller, cleared>>

\* Mutant: the handler does not come back to the event loop.
AnswerAndHang(i) ==
  /\ At(i, "call", "recorded")
  /\ ops' = [ops EXCEPT ![i].pc = "done", ![i].answer = endpoints[ops[i].on]]
  /\ UNCHANGED <<stores, busy, caller, cleared>>

\* ... then the registration is looked up under that of the endpoints, and the
\* answer is made from it: 404 if there is none.
Answer(i) ==
  /\ At(i, "call", "recorded")
  /\ ops' = [ops EXCEPT ![i].pc = "done", ![i].answer = endpoints[ops[i].on]]
  /\ busy' = Nil
  /\ UNCHANGED <<stores, caller, cleared>>

ClearLog ==
  /\ log' = <<>>
  /\ cleared' = cleared \cup {log[j] : j \in DOMAIN log}
  /\ UNCHANGED <<endpoints, topics, objects>>

\* clear_calls() on its own.
ClearCalls == ClearLog /\ UNCHANGED <<ops, busy, caller>>

-------------------------------------------------------------------------------
(* QueueService and StorageService: one critical section per operation.    *)

Publish(i) ==
  /\ At(i, "publish", "ready")
  /\ LET t == ops[i].on
     IN /\ topics' = [topics EXCEPT ![t] = Append(@, i)]
        /\ ops' = [ops EXCEPT ![i].pc = "done", ![i].answer = Len(topics[t]) + 1]
  /\ UNCHANGED <<endpoints, log, objects, busy, caller, cleared>>

\* The slice s[:limit]: a negative limit counts from the end.
Slice(s, limit) ==
  LET n == IF limit >= 0 THEN limit ELSE Len(s) + limit
  IN SubSeq(s, 1, IF n > Len(s) THEN Len(s) ELSE n)

\* Mutant: consume() removes what it returns.
Pop(t, limit) ==
  LET page == Slice(topics[t], limit)
  IN /\ New([NewOp("consume", t) EXCEPT !.pc = "done", !.page = page])
     /\ topics' = [topics EXCEPT ![t] = SubSeq(@, Len(page) + 1, Len(@))]
     /\ UNCHANGED <<endpoints, log, objects, busy, caller, cleared>>

\* consume(): a peek.
Consume(t, limit) ==
  /\ New([NewOp("consume", t) EXCEPT !.pc = "done", !.page = Slice(topics[t], limit)])
  /\ UNCHANGED <<stores, busy, caller, cleared>>

PutObject(i) ==
  /\ At(i, "put", "ready")
  /\ objects' = [objects EXCEPT ![ops[i].on] = i]
  /\ ops' = [ops EXCEPT ![i].pc = "done"]
  /\ UNCHANGED <<endpoints, log, topics, busy, caller, cleared>>

DeleteObject(o) ==
  /\ objects' = [objects EXCEPT ![o] = Nil]
  /\ UNCHANGED <<endpoints, log, topics, ops, busy, caller, cleared>>

-------------------------------------------------------------------------------
(* EphemeralMockServer.reset(), with all services in their default order.  *)

\* Mutant: HTTPService.reset() clears the log first.
LogFirst == <<"log", "endpoints", "topics", "objects">>
\* Mutant: HTTPService.reset() leaves the log alone.
NoLog == <<"endpoints", "topics", "objects">>

\* The critical sections of HTTPService, QueueService and StorageService.reset().
ResetOrder == <<"endpoints", "log", "topics", "objects">>

Wipe(store) ==
  \/ /\ store = "endpoints"
     /\ endpoints' = [r \in Routes |-> Nil]
     /\ UNCHANGED <<log, topics, objects, cleared>>
  \/ store = "log" /\ ClearLog
  \/ /\ store = "topics"
     /\ topics' = [t \in Topics |-> <<>>]
     /\ cleared' = cleared \cup
                     {i \in Finished : ops[i].kind \in {"publish", "consume"}}
     /\ UNCHANGED <<endpoints, log, objects>>
  \/ /\ store = "objects"
     /\ objects' = [o \in Objects |-> Nil]
     /\ UNCHANGED <<endpoints, log, topics, cleared>>

CallReset(c) ==
  /\ resetting[c] = 0
  /\ resets < MaxResets
  /\ resets' = resets + 1
  /\ resetting' = [resetting EXCEPT ![c] = 1]
  /\ before' = [before EXCEPT ![c] = Finished]
  /\ UNCHANGED <<stores, ops, busy, wiped, cleared>>

ResetStep(c) ==
  /\ resetting[c] # 0
  /\ Wipe(ResetOrder[resetting[c]])
  /\ IF resetting[c] < Len(ResetOrder)
     THEN /\ resetting' = [resetting EXCEPT ![c] = @ + 1]
          /\ UNCHANGED <<before, wiped>>
     ELSE /\ resetting' = [resetting EXCEPT ![c] = 0]
          /\ before' = [before EXCEPT ![c] = {}]
          /\ wiped' = wiped \cup before[c]
  /\ UNCHANGED <<ops, busy, resets>>

-------------------------------------------------------------------------------

Handler(i) == Body(i) \/ Record(i) \/ Answer(i) \/ Publish(i) \/ PutObject(i)

Next == \/ ArriveAny
        \/ \E i \in Ids : Handler(i)
        \/ \E r \in Routes : AddEndpoint(r) \/ RemoveEndpoint(r)
        \/ ClearCalls
        \/ \E t \in Topics, limit \in Limits : Consume(t, limit)
        \/ \E o \in Objects : DeleteObject(o)
        \/ \E c \in Callers : CallReset(c) \/ ResetStep(c)

Spec == Init /\ [][Next]_vars

-------------------------------------------------------------------------------
(* Properties.                                                             *)

\* The stores hold requests and registrations that exist, and the event loop is
\* held only by a handler between its record and its answer.
TypeOK ==
  /\ ops \in Seq(Op) /\ Len(ops) <= MaxOps
  /\ endpoints \in [Routes -> {Nil} \cup DOMAIN ops]
  /\ log \in Seq(DOMAIN ops)
  /\ topics \in [Topics -> Seq(DOMAIN ops)]
  /\ objects \in [Objects -> {Nil} \cup DOMAIN ops]
  /\ busy # Nil => At(busy, "call", "recorded")
  /\ resetting \in [Callers -> 0..Len(ResetOrder)]
  /\ resets \in 0..MaxResets
  /\ before \in [Callers -> SUBSET DOMAIN ops]
  /\ wiped \subseteq DOMAIN ops
  /\ cleared \subseteq DOMAIN ops

\* What was finished when reset() was called has left no trace in any store once
\* it has returned, requests and other resets going on in the meantime or not.
ResetForgets ==
  \A i \in wiped :
    /\ \A r \in Routes : endpoints[r] # i
    /\ \A j \in DOMAIN log : log[j] # i
    /\ \A t \in Topics : \A j \in DOMAIN topics[t] : topics[t][j] # i
    /\ \A o \in Objects : objects[o] # i

\* After reset() the call log shows no call that was answered from an endpoint of
\* before it: reset() empties the endpoints before the log, a handler writes the
\* log before it looks at the endpoints.
SurvivorsAreFresh ==
  \A j \in DOMAIN log : ops[log[j]].answer \notin wiped

\* The log lists the calls in the order they were answered ("in what order",
\* services/http.py.doc.md:13): when a call is recorded, all before it have their
\* answers.
LoggedInAnswerOrder ==
  \A j \in DOMAIN log : j < Len(log) => ops[log[j]].pc = "done"

\* The count a publisher gets back is the place of its message in the topic, and
\* stays so, whoever consumes and publishes, until the topics are wiped.
CountIsPlace ==
  \A i \in Finished \ cleared :
    ops[i].kind = "publish" =>
      LET s == topics[ops[i].on]
      IN ops[i].answer \in DOMAIN s /\ s[ops[i].answer] = i

\* What a consumer has read is still the beginning of the topic, until the topics
\* are wiped: a poller can skip as many messages as it has seen.
ReadsArePrefixes ==
  \A i \in Finished \ cleared :
    ops[i].kind = "consume" =>
      LET s == topics[ops[i].on]
          n == Len(ops[i].page)
      IN n <= Len(s) /\ ops[i].page = SubSeq(s, 1, n)

\* Places in a topic can be relied on: those publishers were told and those
\* consumers have seen.
PlacesStay == CountIsPlace /\ ReadsArePrefixes

\* An object in the storage came with an upload that arrived in full.
OnlyWholeObjects ==
  \A o \in Objects : objects[o] # Nil => ops[objects[o]].whole
===============================================================================
