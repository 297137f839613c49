------------------------------ MODULE MockGateway ------------------------------
(***************************************************************************)
(* The mocks of external APIs (mock_generator.py): a MockServer keeps one  *)
(* StatefulMock per prefix and gives a request to the first whose prefix   *)
(* its path starts with; the mock keeps a list or another JSON value per   *)
(* resource, the last segment of the path.  There is no lock.  Requests    *)
(* come from threads of the program, through dispatch(), and from the      *)
(* event loop of run(), whose handler has nothing in hand while it awaits  *)
(* its body and dispatches without a pause: it is one more thread.         *)
(*                                                                         *)
(* A step is an operation on a dictionary or a list, after which CPython   *)
(* may switch threads.  Requests have numbers.  A number stands for what   *)
(* its request brought along: for its body as an item of a list, and as    *)
(* the content of a resource for the list it made, or the value it put.    *)
(***************************************************************************)
EXTENDS Integers, Sequences, FiniteSets

CONSTANTS
  Bases,       \* the prefixes that mocks are registered under
  Paths,       \* the paths that requests come for, with their leading slash
  Prefixes,    \* per path, the bases it starts with
  Resource,    \* per path, its last segment
  Calls,       \* the requests that may come in
  Scenarios,   \* the requests, <<method, path>>, with a canned response
  MaxMocks,    \* bound on the number of mocks made
  MaxRequests  \* bound on the number of requests

Methods == {"GET", "POST", "PUT", "DELETE"}   \* PUT stands for PATCH too
Shapes  == {"list", "other"}   \* of the body of a PUT; the list is an empty one

Call == [method : Methods, path : Paths, shape : Shapes]

ASSUME GatewayOK ==
  /\ Prefixes \in [Paths -> SUBSET Bases]
  /\ DOMAIN Resource = Paths
  /\ Calls \subseteq Call
  /\ Scenarios \subseteq Methods \X Paths
  /\ MaxMocks \in Nat
  /\ MaxRequests \in Nat

VARIABLES
  mocks,      \* MockServer.mocks: the mocks, in the order of the dictionary
  base_path,  \* per mock made, its prefix, which is its key in that dictionary
  state,      \* per mock made, its state: per resource, whose value it has, or Nil
  lists,      \* per request, the items of the list it made
  requests,   \* the requests, in the order they came in
  displaced   \* history: the POSTs whose resource was deleted or put meanwhile

registry == <<mocks, base_path>>
vars == <<registry, state, lists, requests, displaced>>

Nil       == 0
Ids       == 1..MaxRequests
Resources == {Resource[p] : p \in Paths}

Request ==
  [call   : Call,
   pc     : {"look", "respond", "append", "count", "done", "raised", "missing"},
   size   : Nat,     \* the size of the dictionary when the loop began
   at     : Nat,     \* where the loop is
   mock   : Nat,     \* the mock that was found
   held   : Nat,     \* what setdefault() returned
   id     : Nat,     \* the id sent back
   before : SUBSET Ids]   \* history: what was answered when this came in

At(k, pc)   == k \in DOMAIN requests /\ requests[k].pc = pc
Answered    == {k \in DOMAIN requests : requests[k].pc = "done"}
Method(k)   == requests[k].call.method
Path(k)     == requests[k].call.path
IsList(v)   == Method(v) = "POST" \/ requests[v].call.shape = "list"
Place(k)    == <<requests[k].mock, Resource[Path(k)]>>
Content(k)  == state[requests[k].mock][Resource[Path(k)]]

Set(k, r)   == requests' = [requests EXCEPT ![k] = r]
Goto(k, pc) == Set(k, [requests[k] EXCEPT !.pc = pc])

Init ==
  /\ mocks = <<>>
  /\ base_path = <<>>
  /\ state = <<>>
  /\ lists = [k \in Ids |-> <<>>]
  /\ requests = <<>>
  /\ displaced = {}

-------------------------------------------------------------------------------
(* add_mock()                                                              *)

\* Mutant: the state of a mock is a default shared with the last one.
SharedState ==
  IF state = <<>> THEN [r \in Resources |-> Nil] ELSE state[Len(state)]

EmptyState == [r \in Resources |-> Nil]

New == Len(state) + 1

\* Mutant: a mock that is registered again moves to the end.
Moved(b) == Append(SelectSeq(mocks, LAMBDA m : base_path[m] # b), New)

\* mocks[base] = mock: a base that is there keeps its place, a new one comes last.
Registered(b) ==
  IF \E i \in DOMAIN mocks : base_path[mocks[i]] = b
  THEN [i \in DOMAIN mocks |-> IF base_path[mocks[i]] = b THEN New ELSE mocks[i]]
  ELSE Append(mocks, New)

AddMock(b) ==
  /\ Len(state) < MaxMocks
  /\ mocks' = Registered(b)
  /\ base_path' = Append(base_path, b)
  /\ state' = Append(state, EmptyState)
  /\ UNCHANGED <<lists, requests, displaced>>

-------------------------------------------------------------------------------
(* dispatch(): the loop over the mocks.                                    *)

Arrive(call) ==
  /\ Len(requests) < MaxRequests
  /\ requests' = Append(requests,
       [call |-> call, pc |-> "look", size |-> Len(mocks), at |-> 1,
        mock |-> Nil, held |-> Nil, id |-> Nil, before |-> Answered])
  /\ UNCHANGED <<registry, state, lists, displaced>>

\* A dictionary that grew under the loop raises a RuntimeError at its next turn,
\* even if that would have been the end of the loop.
SizeChanged(k) ==
  /\ At(k, "look")
  /\ requests[k].size # Len(mocks)
  /\ Goto(k, "raised")
  /\ UNCHANGED <<registry, state, lists, displaced>>

Looking(k) == At(k, "look") /\ requests[k].size = Len(mocks)
Matches(k) == base_path[mocks[requests[k].at]] \in Prefixes[Path(k)]

Skip(k) ==
  /\ Looking(k)
  /\ requests[k].at <= Len(mocks) /\ ~Matches(k)
  /\ Set(k, [requests[k] EXCEPT !.at = @ + 1])
  /\ UNCHANGED <<registry, state, lists, displaced>>

Match(k) ==
  /\ Looking(k)
  /\ requests[k].at <= Len(mocks) /\ Matches(k)
  /\ Set(k, [requests[k] EXCEPT !.mock = mocks[requests[k].at], !.pc = "respond"])
  /\ UNCHANGED <<registry, state, lists, displaced>>

NoneMatched(k) ==
  /\ Looking(k)
  /\ requests[k].at > Len(mocks)
  /\ Goto(k, "missing")
  /\ UNCHANGED <<registry, state, lists, displaced>>

-------------------------------------------------------------------------------
(* respond()                                                               *)

Canned(k) == <<Method(k), Path(k)>> \in Scenarios

Responds(k, method) ==
  At(k, "respond") /\ ~Canned(k) /\ Method(k) = method

\* A canned response, or a GET: nothing changes.
Read(k) ==
  /\ At(k, "respond")
  /\ Canned(k) \/ Method(k) = "GET"
  /\ Goto(k, "done")
  /\ UNCHANGED <<registry, state, lists, displaced>>

Store(k, v) ==
  state' = [state EXCEPT ![requests[k].mock][Resource[Path(k)]] = v]

\* Mutant: a resource that is not there yet is an error.
Subscript(k) ==
  /\ Responds(k, "POST")
  /\ Set(k, [requests[k] EXCEPT !.held = Content(k),
                    !.pc = IF Content(k) = Nil THEN "raised" ELSE "append"])
  /\ UNCHANGED <<registry, state, lists, displaced>>

\* POST: state.setdefault(resource, []) ...
SetDefault(k) ==
  /\ Responds(k, "POST")
  /\ LET v == IF Content(k) = Nil THEN k ELSE Content(k)
     IN /\ Store(k, v)
        /\ Set(k, [requests[k] EXCEPT !.held = v, !.pc = "append"])
  /\ UNCHANGED <<registry, lists, displaced>>

\* Mutant: a longer copy of the list is stored, instead of appending to it.
StoreLonger(k) ==
  /\ At(k, "append")
  /\ LET v == requests[k].held
     IN IF IsList(v)
        THEN /\ lists' = [lists EXCEPT ![k] = Append(lists[v], k)]
             /\ Store(k, k)
             /\ Goto(k, "count")
        ELSE Goto(k, "raised") /\ UNCHANGED <<lists, state>>
  /\ UNCHANGED <<registry, displaced>>

\* ... .append(body), which only a list has ...
AppendBody(k) ==
  /\ At(k, "append")
  /\ LET v == requests[k].held
     IN IF IsList(v)
        THEN lists' = [lists EXCEPT ![v] = Append(@, k)] /\ Goto(k, "count")
        ELSE Goto(k, "raised") /\ UNCHANGED lists
  /\ UNCHANGED <<registry, state, displaced>>

\* Mutant: len(self.state), the number of resources.
CountResources(k) ==
  /\ At(k, "count")
  /\ Set(k, [requests[k] EXCEPT !.pc = "done",
       !.id = Cardinality({r \in Resources : state[requests[k].mock][r] # Nil})])
  /\ UNCHANGED <<registry, state, lists, displaced>>

\* ... and len(state[resource]), of what is there by now: a KeyError if nothing
\* is; something else than a list may have a length (an object, of no keys here)
\* or raise a TypeError.
Count(k) ==
  /\ At(k, "count")
  /\ LET v == Content(k)
     IN \/ v # Nil /\ Set(k, [requests[k] EXCEPT !.pc = "done",
                             !.id = IF IsList(v) THEN Len(lists[v]) ELSE 0])
        \/ v = Nil /\ Goto(k, "raised")
        \/ v # Nil /\ ~IsList(v) /\ Goto(k, "raised")
  /\ UNCHANGED <<registry, state, lists, displaced>>

\* What is in a resource, or on its way there, goes when it is deleted or put.
Displace(k) ==
  displaced' = displaced \cup
    {j \in DOMAIN requests : /\ requests[j].pc \in {"append", "count", "done"}
                             /\ Place(j) = Place(k)}

Delete(k) ==
  /\ Responds(k, "DELETE")
  /\ Store(k, Nil)
  /\ Displace(k)
  /\ Goto(k, "done")
  /\ UNCHANGED <<registry, lists>>

\* PUT and PATCH replace what is there by the body, of whatever shape.
Put(k) ==
  /\ Responds(k, "PUT")
  /\ Store(k, k)
  /\ Displace(k)
  /\ Goto(k, "done")
  /\ UNCHANGED <<registry, lists>>

-------------------------------------------------------------------------------

Dispatch(k) == SizeChanged(k) \/ Skip(k) \/ Match(k) \/ NoneMatched(k)
Respond(k)  == \/ Read(k) \/ SetDefault(k) \/ AppendBody(k) \/ Count(k)
               \/ Delete(k) \/ Put(k)

Next == \/ \E b \in Bases : AddMock(b)
        \/ \E call \in Calls : Arrive(call)
        \/ \E k \in Ids : Dispatch(k) \/ Respond(k)

Spec == Init /\ [][Next]_vars

-------------------------------------------------------------------------------
(* Properties.                                                             *)

\* The requests are such as dispatch() makes, and a resource of a mock has a
\* value that a request for that very resource gave that very mock.
TypeOK ==
  /\ mocks \in Seq(DOMAIN state)
  /\ base_path \in Seq(Bases) /\ Len(base_path) = Len(state)
  /\ state \in Seq([Resources -> {Nil} \cup DOMAIN requests]) /\ Len(state) <= MaxMocks
  /\ \A m \in DOMAIN state : \A r \in Resources :
       state[m][r] # Nil => Place(state[m][r]) = <<m, r>>
  /\ lists \in [Ids -> Seq(DOMAIN requests)]
  /\ requests \in Seq(Request) /\ Len(requests) <= MaxRequests
  /\ displaced \subseteq DOMAIN requests

\* An answered POST has its body in the resource, in one place, no further than
\* the id it was given, however many others post at the same time, unless the
\* resource was deleted or put since it began.
Posted == {k \in Answered \ displaced : Method(k) = "POST" /\ ~Canned(k)}

CreatedIsKept ==
  \A k \in Posted :
    /\ Content(k) # Nil /\ IsList(Content(k))
    /\ \E i \in 1..requests[k].id :
         {j \in DOMAIN lists[Content(k)] : lists[Content(k)][j] = k} = {i}

\* Ids tell the order: who posts to a resource after another POST was answered
\* gets a larger id (two at a time may get the same).
LaterIdsAreLarger ==
  \A k \in Posted : \A j \in Posted \cap requests[k].before :
    Place(j) = Place(k) => requests[j].id < requests[k].id

\* A request that raises has a reason: mocks were added while it was looking for
\* its own, or it is a POST to a resource that was deleted or put meanwhile, or
\* that a PUT has made something else than a list.
RaisesForAReason ==
  \A k \in DOMAIN requests : At(k, "raised") =>
    \/ requests[k].mock = Nil /\ requests[k].size < Len(mocks)
    \/ k \in displaced
    \/ \E j \in Answered : /\ Method(j) = "PUT" /\ ~IsList(j)
                           /\ requests[k].mock # Nil /\ Place(j) = Place(k)

\* The mock that answers for a path may be replaced, but never by one of another
\* prefix: mocks added, or added again, later do not shadow those before them.
RoutingIsStable ==
  \A k, j \in DOMAIN requests :
    requests[k].mock # Nil /\ Path(k) = Path(j) =>
      /\ requests[j].mock # Nil =>
           base_path[requests[j].mock] = base_path[requests[k].mock]
      /\ At(j, "missing") => k \notin requests[j].before
===============================================================================
