--------------------------- MODULE MockGatewayProofs ---------------------------
(* Theorems about MockGateway. *)
EXTENDS MockGateway, SequenceTheorems, TLAPS

-------------------------------------------------------------------------------
(* The inductive invariant.                                                *)

Types ==
  /\ mocks \in Seq(DOMAIN state)
  /\ base_path \in Seq(Bases) /\ Len(base_path) = Len(state)
  /\ state \in Seq([Resources -> {Nil} \cup DOMAIN requests]) /\ Len(state) <= MaxMocks
  /\ lists \in [Ids -> Seq(DOMAIN requests)]
  /\ requests \in Seq(Request) /\ Len(requests) <= MaxRequests
  /\ displaced \subseteq DOMAIN requests

\* A POST that is at a resource of its mock, and one whose body is in a list.
Posting(k) ==
  requests[k].pc \in {"append", "count", "done"} /\ Method(k) = "POST" /\ ~Canned(k)
Listed(k) == Posting(k) /\ requests[k].pc # "append"

\* A value is a list that a POST made, or what a PUT, now answered, has put.
Valued(v) == Method(v) = "POST" \/ (Method(v) = "PUT" /\ requests[v].pc = "done")

Values ==
  \A m \in DOMAIN state : \A r \in Resources :
    state[m][r] # Nil => Place(state[m][r]) = <<m, r>> /\ Valued(state[m][r])

Progressed(k) ==
  /\ requests[k].pc \in {"look", "missing"} => requests[k].mock = Nil
  /\ requests[k].pc \in {"respond", "append", "count", "done"} => requests[k].mock # Nil
  /\ requests[k].mock # Nil => requests[k].mock \in DOMAIN state
  /\ requests[k].pc \in {"append", "count"} => Posting(k)
  /\ requests[k].before \subseteq Answered

\* What a POST holds is what is in the resource until that is displaced.
Holding(k) ==
  Posting(k) =>
    /\ requests[k].held \in DOMAIN requests
    /\ Place(requests[k].held) = Place(k)
    /\ Valued(requests[k].held)
    /\ Listed(k) => IsList(requests[k].held)
    /\ k \notin displaced => Content(k) = requests[k].held

\* A body gets into no list but the one its request holds, and there once.
Once(k) ==
  \A v \in Ids : \A i \in DOMAIN lists[v] : lists[v][i] = k =>
    /\ requests[k].pc \in {"count", "done", "raised"} /\ requests[k].held = v
    /\ \A j \in DOMAIN lists[v] : lists[v][j] = k => j = i

Placed(k) ==
  Listed(k) =>
    \E i \in DOMAIN lists[requests[k].held] :
      /\ lists[requests[k].held][i] = k
      /\ requests[k].pc = "done" /\ k \notin displaced =>
           i <= requests[k].id /\ requests[k].id <= Len(lists[requests[k].held])

\* What came in after an answer is put behind the id that was answered.
Behind(k) ==
  \A j \in requests[k].before : Listed(j) /\ j \notin displaced =>
    \A i \in DOMAIN lists[requests[j].held] :
      lists[requests[j].held][i] = k => requests[j].id < i

Base(i)       == base_path[mocks[i]]
Passed(k, n)  == \A i \in DOMAIN mocks : i < n => Base(i) \notin Prefixes[Path(k)]

Routed(k) ==
  /\ requests[k].size <= Len(mocks)
  /\ requests[k].pc = "look" =>
       /\ 1 <= requests[k].at /\ requests[k].at <= requests[k].size + 1
       /\ Passed(k, requests[k].at)
  /\ requests[k].pc = "missing" => Passed(k, requests[k].size + 1)
  /\ requests[k].mock # Nil =>
       \E i \in DOMAIN mocks :
         /\ Base(i) = base_path[requests[k].mock] /\ Base(i) \in Prefixes[Path(k)]
         /\ Passed(k, i)
  /\ \A j \in requests[k].before :
       \E i \in DOMAIN mocks : i <= requests[k].size /\ Base(i) \in Prefixes[Path(j)]

Raised(k) == requests[k].pc = "raised" =>
  \/ requests[k].mock = Nil /\ requests[k].size < Len(mocks)
  \/ k \in displaced
  \/ \E j \in Answered : /\ Method(j) = "PUT" /\ ~IsList(j)
                         /\ requests[k].mock # Nil /\ Place(j) = Place(k)

Stored(k) == Progressed(k) /\ Holding(k) /\ Once(k) /\ Placed(k) /\ Behind(k) /\ Raised(k)

IInv == Types /\ Values /\ \A k \in DOMAIN requests : Stored(k) /\ Routed(k)

-------------------------------------------------------------------------------
(* What a step does to the requests.                                       *)

Pcs == {"look", "respond", "append", "count", "done", "raised", "missing"}

\* The request k, field by field; nobody else's changes.
After(k, pc, at, mock, held, id) ==
  /\ requests' \in Seq(Request)
  /\ Len(requests') = Len(requests) /\ DOMAIN requests' = DOMAIN requests
  /\ requests'[k].call = requests[k].call /\ requests'[k].size = requests[k].size
  /\ requests'[k].before = requests[k].before
  /\ requests'[k].pc = pc /\ requests'[k].at = at /\ requests'[k].mock = mock
  /\ requests'[k].held = held /\ requests'[k].id = id
  /\ \A j \in DOMAIN requests \ {k} : requests'[j] = requests[j]

LEMMA Domains ==
  ASSUME Types
  PROVE  /\ DOMAIN requests = 1..Len(requests) /\ Len(requests) \in Nat
         /\ DOMAIN requests \subseteq Ids /\ Nil \notin Ids
         /\ \A k \in DOMAIN requests : requests[k] \in Request
         /\ DOMAIN state = 1..Len(state) /\ Len(state) \in Nat
         /\ DOMAIN base_path = DOMAIN state
         /\ \A m \in DOMAIN state : state[m] \in [Resources -> {Nil} \cup DOMAIN requests]
         /\ DOMAIN mocks = 1..Len(mocks) /\ Len(mocks) \in Nat
         /\ \A i \in DOMAIN mocks : mocks[i] \in DOMAIN state
         /\ \A m \in DOMAIN base_path : base_path[m] \in Bases
<1>1. DOMAIN requests = 1..Len(requests) /\ Len(requests) \in Nat
  BY DEF Types
<1>2. DOMAIN requests \subseteq Ids /\ Nil \notin Ids
  BY <1>1, GatewayOK DEF Types, Ids, Nil
<1>3. \A k \in DOMAIN requests : requests[k] \in Request
  BY DEF Types
<1>4. DOMAIN state = 1..Len(state) /\ Len(state) \in Nat
  BY DEF Types
<1>5. DOMAIN base_path = DOMAIN state
  BY <1>4 DEF Types
<1>6. \A m \in DOMAIN state : state[m] \in [Resources -> {Nil} \cup DOMAIN requests]
  BY DEF Types
<1>7. DOMAIN mocks = 1..Len(mocks) /\ Len(mocks) \in Nat
  BY DEF Types
<1>8. \A i \in DOMAIN mocks : mocks[i] \in DOMAIN state
  BY DEF Types
<1>9. \A m \in DOMAIN base_path : base_path[m] \in Bases
  BY DEF Types
<1> QED BY <1>1, <1>2, <1>3, <1>4, <1>5, <1>6, <1>7, <1>8, <1>9

LEMMA SetShape ==
  ASSUME requests \in Seq(Request), NEW k \in DOMAIN requests, NEW r \in Request, Set(k, r),
         r.call = requests[k].call, r.size = requests[k].size, r.before = requests[k].before
  PROVE  After(k, r.pc, r.at, r.mock, r.held, r.id)
<1>1. requests' = [requests EXCEPT ![k] = r]
  BY DEF Set
<1>2. /\ requests' \in Seq(Request) /\ Len(requests') = Len(requests)
      /\ DOMAIN requests' = DOMAIN requests
  BY <1>1, ExceptSeq
<1>3. requests'[k] = r /\ \A j \in DOMAIN requests \ {k} : requests'[j] = requests[j]
  BY <1>1
<1> QED BY <1>2, <1>3 DEF After

LEMMA Fields ==
  ASSUME NEW r \in Request
  PROVE  /\ r = [call |-> r.call, pc |-> r.pc, size |-> r.size, at |-> r.at,
                 mock |-> r.mock, held |-> r.held, id |-> r.id, before |-> r.before]
         /\ r.call \in Call /\ r.pc \in Pcs /\ r.size \in Nat /\ r.at \in Nat
         /\ r.mock \in Nat /\ r.held \in Nat /\ r.id \in Nat /\ r.before \subseteq Ids
BY DEF Request, Pcs

LEMMA ARequest ==
  ASSUME NEW call \in Call, NEW pc \in Pcs, NEW size \in Nat, NEW at \in Nat,
         NEW mock \in Nat, NEW held \in Nat, NEW id \in Nat, NEW before \in SUBSET Ids
  PROVE  [call |-> call, pc |-> pc, size |-> size, at |-> at, mock |-> mock,
          held |-> held, id |-> id, before |-> before] \in Request
BY DEF Request, Pcs

LEMMA NewPc ==
  ASSUME NEW r \in Request, NEW v
  PROVE  [r EXCEPT !.pc = v] =
           [call |-> r.call, pc |-> v, size |-> r.size, at |-> r.at, mock |-> r.mock,
            held |-> r.held, id |-> r.id, before |-> r.before]
BY Fields

LEMMA NewAt ==
  ASSUME NEW r \in Request, NEW v
  PROVE  [r EXCEPT !.at = v] =
           [call |-> r.call, pc |-> r.pc, size |-> r.size, at |-> v, mock |-> r.mock,
            held |-> r.held, id |-> r.id, before |-> r.before]
BY Fields

LEMMA NewMock ==
  ASSUME NEW r \in Request, NEW v
  PROVE  [r EXCEPT !.mock = v] =
           [call |-> r.call, pc |-> r.pc, size |-> r.size, at |-> r.at, mock |-> v,
            held |-> r.held, id |-> r.id, before |-> r.before]
BY Fields

LEMMA NewHeld ==
  ASSUME NEW r \in Request, NEW v
  PROVE  [r EXCEPT !.held = v] =
           [call |-> r.call, pc |-> r.pc, size |-> r.size, at |-> r.at, mock |-> r.mock,
            held |-> v, id |-> r.id, before |-> r.before]
BY Fields

LEMMA GotoShape ==
  ASSUME requests \in Seq(Request), NEW k \in DOMAIN requests, NEW pc \in Pcs, Goto(k, pc)
  PROVE  After(k, pc, requests[k].at, requests[k].mock, requests[k].held, requests[k].id)
<1>0. requests[k] \in Request
  OBVIOUS
<1> DEFINE r == [requests[k] EXCEPT !.pc = pc]
<1>1. Set(k, r)
  BY Zenon DEF Goto
<1>2. r = [call |-> requests[k].call, pc |-> pc, size |-> requests[k].size,
           at |-> requests[k].at, mock |-> requests[k].mock, held |-> requests[k].held,
           id |-> requests[k].id, before |-> requests[k].before]
  BY <1>0, NewPc
<1> HIDE DEF r
<1>3. r \in Request
  BY <1>0, <1>2, ARequest, Fields
<1>4. After(k, r.pc, r.at, r.mock, r.held, r.id)
  BY <1>0, <1>1, <1>2, <1>3, SetShape, Fields
<1> QED BY <1>2, <1>4

LEMMA AtShape ==
  ASSUME requests \in Seq(Request), NEW k \in DOMAIN requests, NEW at \in Nat, 
         Set(k, [requests[k] EXCEPT !.at = at])
  PROVE  After(k, requests[k].pc, at, requests[k].mock, requests[k].held, requests[k].id)
<1>0. requests[k] \in Request
  OBVIOUS
<1> DEFINE r == [requests[k] EXCEPT !.at = at]
<1>1. Set(k, r)
  BY Zenon DEF Goto
<1>2. r = [call |-> requests[k].call, pc |-> requests[k].pc, size |-> requests[k].size,
           at |-> at, mock |-> requests[k].mock, held |-> requests[k].held,
           id |-> requests[k].id, before |-> requests[k].before]
  BY <1>0, NewAt
<1> HIDE DEF r
<1>3. r \in Request
  BY <1>0, <1>2, ARequest, Fields
<1>4. After(k, r.pc, r.at, r.mock, r.held, r.id)
  BY <1>0, <1>1, <1>2, <1>3, SetShape, Fields
<1> QED BY <1>2, <1>4

LEMMA FoundShape ==
  ASSUME requests \in Seq(Request), NEW k \in DOMAIN requests, NEW mock \in Nat, NEW pc \in Pcs, 
         Set(k, [requests[k] EXCEPT !.mock = mock, !.pc = pc])
  PROVE  After(k, pc, requests[k].at, mock, requests[k].held, requests[k].id)
<1>0. requests[k] \in Request
  OBVIOUS
<1> DEFINE a == [requests[k] EXCEPT !.mock = mock]
           r == [a EXCEPT !.pc = pc]
<1>1. Set(k, r)
  BY Zenon DEF Goto
<1>2. a = [call |-> requests[k].call, pc |-> requests[k].pc, size |-> requests[k].size,
           at |-> requests[k].at, mock |-> mock, held |-> requests[k].held,
           id |-> requests[k].id, before |-> requests[k].before]
  BY <1>0, NewMock
<1> HIDE DEF a
<1>3. r = [call |-> requests[k].call, pc |-> pc, size |-> requests[k].size,
           at |-> requests[k].at, mock |-> mock, held |-> requests[k].held,
           id |-> requests[k].id, before |-> requests[k].before]
  BY <1>2
<1> HIDE DEF r
<1>4. r \in Request
  BY <1>0, <1>3, ARequest, Fields
<1>5. After(k, r.pc, r.at, r.mock, r.held, r.id)
  BY <1>0, <1>1, <1>3, <1>4, SetShape, Fields
<1> QED BY <1>3, <1>5

LEMMA HeldShape ==
  ASSUME requests \in Seq(Request), NEW k \in DOMAIN requests, NEW held \in Nat, NEW pc \in Pcs, 
         Set(k, [requests[k] EXCEPT !.held = held, !.pc = pc])
  PROVE  After(k, pc, requests[k].at, requests[k].mock, held, requests[k].id)
<1>0. requests[k] \in Request
  OBVIOUS
<1> DEFINE a == [requests[k] EXCEPT !.held = held]
           r == [a EXCEPT !.pc = pc]
<1>1. Set(k, r)
  BY Zenon DEF Goto
<1>2. a = [call |-> requests[k].call, pc |-> requests[k].pc, size |-> requests[k].size,
           at |-> requests[k].at, mock |-> requests[k].mock, held |-> held,
           id |-> requests[k].id, before |-> requests[k].before]
  BY <1>0, NewHeld
<1> HIDE DEF a
<1>3. r = [call |-> requests[k].call, pc |-> pc, size |-> requests[k].size,
           at |-> requests[k].at, mock |-> requests[k].mock, held |-> held,
           id |-> requests[k].id, before |-> requests[k].before]
  BY <1>2
<1> HIDE DEF r
<1>4. r \in Request
  BY <1>0, <1>3, ARequest, Fields
<1>5. After(k, r.pc, r.at, r.mock, r.held, r.id)
  BY <1>0, <1>1, <1>3, <1>4, SetShape, Fields
<1> QED BY <1>3, <1>5

LEMMA IdShape ==
  ASSUME requests \in Seq(Request), NEW k \in DOMAIN requests, NEW id \in Nat, NEW pc \in Pcs, 
         Set(k, [requests[k] EXCEPT !.pc = pc, !.id = id])
  PROVE  After(k, pc, requests[k].at, requests[k].mock, requests[k].held, id)
<1>0. requests[k] \in Request
  OBVIOUS
<1> DEFINE a == [requests[k] EXCEPT !.pc = pc]
           r == [a EXCEPT !.id = id]
<1>1. Set(k, r)
  BY Zenon DEF Goto
<1>2. a = [call |-> requests[k].call, pc |-> pc, size |-> requests[k].size,
           at |-> requests[k].at, mock |-> requests[k].mock, held |-> requests[k].held,
           id |-> requests[k].id, before |-> requests[k].before]
  BY <1>0, NewPc
<1> HIDE DEF a
<1>3. r = [call |-> requests[k].call, pc |-> pc, size |-> requests[k].size,
           at |-> requests[k].at, mock |-> requests[k].mock, held |-> requests[k].held,
           id |-> id, before |-> requests[k].before]
  BY <1>2
<1> HIDE DEF r
<1>4. r \in Request
  BY <1>0, <1>3, ARequest, Fields
<1>5. After(k, r.pc, r.at, r.mock, r.held, r.id)
  BY <1>0, <1>1, <1>3, <1>4, SetShape, Fields
<1> QED BY <1>3, <1>5

-------------------------------------------------------------------------------
(* One lemma per kind of step.                                             *)

LEMMA PathOK ==
  ASSUME Types, NEW k \in DOMAIN requests
  PROVE  Path(k) \in Paths /\ Method(k) \in Methods /\ Resource[Path(k)] \in Resources
BY Domains DEF Request, Call, Path, Method, Resources

LEMMA StoreShape ==
  ASSUME Types, NEW k \in DOMAIN requests, NEW v \in {Nil} \cup DOMAIN requests, Store(k, v),
         requests[k].mock \in DOMAIN state
  PROVE  /\ state' \in Seq([Resources -> {Nil} \cup DOMAIN requests]) /\ Len(state') = Len(state)
         /\ DOMAIN state' = DOMAIN state
         /\ \A m \in DOMAIN state : \A r \in Resources :
              state'[m][r] = IF m = requests[k].mock /\ r = Resource[Path(k)] THEN v
                             ELSE state[m][r]
<1> DEFINE m == requests[k].mock
           new == [state[m] EXCEPT ![Resource[Path(k)]] = v]
<1>1. state' = [state EXCEPT ![m] = new]
  BY DEF Store
<1>2. new \in [Resources -> {Nil} \cup DOMAIN requests]
  BY Domains
<1>3. \A r \in Resources : new[r] = IF r = Resource[Path(k)] THEN v ELSE state[m][r]
  BY Domains
<1> HIDE DEF new
<1>4. /\ state' \in Seq([Resources -> {Nil} \cup DOMAIN requests]) /\ Len(state') = Len(state)
      /\ DOMAIN state' = DOMAIN state
  BY <1>1, <1>2, ExceptSeq, Domains DEF Types
<1>5. \A n \in DOMAIN state : state'[n] = IF n = m THEN new ELSE state[n]
  BY <1>1
<1> QED BY <1>3, <1>4, <1>5

LEMMA LookKeeps ==
  ASSUME IInv, NEW k \in DOMAIN requests, requests[k].pc = "look",
         NEW pc \in {"look", "respond", "missing", "raised"}, NEW at \in Nat, NEW mock \in Nat,
         pc = "respond" => mock \in DOMAIN state, pc # "respond" => mock = Nil,
         pc = "raised" => requests[k].size < Len(mocks),
         After(k, pc, at, mock, requests[k].held, requests[k].id),
         UNCHANGED <<registry, state, lists, displaced>>
  PROVE  Types' /\ Values' /\ \A j \in DOMAIN requests' : Stored(j)'
<1>0. /\ DOMAIN requests' = DOMAIN requests
      /\ requests'[k].pc = pc /\ requests'[k].mock = mock
      /\ UNCHANGED <<mocks, base_path, state, lists, displaced>>
  BY DEF After, registry
<1>1. Types'
  BY <1>0 DEF IInv, Types, After
<1>2. \A j \in DOMAIN requests :
        /\ requests'[j].call = requests[j].call /\ requests'[j].size = requests[j].size
        /\ requests'[j].before = requests[j].before
        /\ requests'[j].held = requests[j].held /\ requests'[j].id = requests[j].id
        /\ j # k => requests'[j].pc = requests[j].pc /\ requests'[j].mock = requests[j].mock
  BY DEF After
<1>3. Types /\ Values /\ \A j \in DOMAIN requests : Stored(j)
  BY DEF IInv
<1>4. requests[k].mock = Nil /\ Nil \notin DOMAIN state
  BY <1>3, Domains DEF Stored, Progressed, Nil
<1>5. Values'
  <2> SUFFICES ASSUME NEW m \in DOMAIN state, NEW r \in Resources, state[m][r] # Nil
               PROVE  (Place(state[m][r]) = <<m, r>> /\ Valued(state[m][r]))'
    BY <1>0 DEF Values
  <2>1. Place(state[m][r]) = <<m, r>> /\ Valued(state[m][r])
    BY <1>3 DEF Values
  <2>2. state[m][r] \in DOMAIN requests \ {k}
    BY <1>3, <1>4, <2>1, Domains DEF Place
  <2> QED BY <1>0, <1>2, <2>1, <2>2 DEF Valued, Place, Method, Path
<1>6. ASSUME NEW j \in DOMAIN requests
      PROVE  Stored(j)'
  <2>0. Stored(j)
    BY <1>3
  <2>1. Progressed(j)'
    BY <1>0, <1>2, <1>3, <1>4, <2>0 DEF Stored, Progressed, Posting, Answered, Method, Canned, Path
  <2>2. Holding(j)'
    BY <1>0, <1>2, <1>3, <1>4, <2>0 DEF Stored, Progressed, Holding, Posting, Listed, Valued, IsList,
       Place, Content, Method, Canned, Path
  <2>3. Once(j)'
    BY <1>0, <1>2, <2>0 DEF Stored, Once
  <2>4. Placed(j)'
    BY <1>0, <1>2, <2>0 DEF Stored, Placed, Listed, Posting, Method, Canned, Path
  <2>5. Behind(j)'
    BY <1>0, <1>2, <2>0 DEF Stored, Progressed, Behind, Listed, Posting, Method, Canned, Path, Answered
  <2>6. Raised(j)'
    BY <1>0, <1>2, <1>3, <1>4, <2>0 DEF Stored, Raised, Answered, IsList, Place, Method, Path
  <2> QED BY <2>1, <2>2, <2>3, <2>4, <2>5, <2>6 DEF Stored
<1> QED BY <1>0, <1>1, <1>5, <1>6

\* The end of a request that leaves everything as it is.
LEMMA EndKeeps ==
  ASSUME IInv, NEW k \in DOMAIN requests, NEW pc \in {"done", "raised"},
         pc = "done" =>
           requests[k].pc = "respond" /\ (Canned(k) \/ Method(k) = "GET"),
         pc = "raised" =>
           /\ requests[k].pc \in {"append", "count"}
           /\ \/ k \in displaced
              \/ \E j \in Answered : /\ Method(j) = "PUT" /\ ~IsList(j)
                                     /\ requests[k].mock # Nil /\ Place(j) = Place(k),
         After(k, pc, requests[k].at, requests[k].mock, requests[k].held, requests[k].id),
         UNCHANGED <<registry, state, lists, displaced>>
  PROVE  Types' /\ Values' /\ \A j \in DOMAIN requests' : Stored(j)'
<1>0. /\ DOMAIN requests' = DOMAIN requests
      /\ requests'[k].pc = pc /\ requests'[k].held = requests[k].held /\ requests'[k].id = requests[k].id
      /\ UNCHANGED <<mocks, base_path, state, lists, displaced>>
  BY DEF After, registry
<1>2. \A j \in DOMAIN requests :
        /\ requests'[j].call = requests[j].call /\ requests'[j].size = requests[j].size
        /\ requests'[j].before = requests[j].before /\ requests'[j].mock = requests[j].mock
        /\ j # k => /\ requests'[j].pc = requests[j].pc
                    /\ requests'[j].held = requests[j].held /\ requests'[j].id = requests[j].id
  BY DEF After
<1>3. Types /\ Values /\ \A j \in DOMAIN requests : Stored(j)
  BY DEF IInv
<1>1. Types'
  BY <1>0, <1>3 DEF Types, After
<1>5. Values'
  <2> SUFFICES ASSUME NEW m \in DOMAIN state, NEW r \in Resources, state[m][r] # Nil
               PROVE  (Place(state[m][r]) = <<m, r>> /\ Valued(state[m][r]))'
    BY <1>0 DEF Values
  <2>1. Place(state[m][r]) = <<m, r>> /\ Valued(state[m][r])
    BY <1>3 DEF Values
  <2>2. state[m][r] \in DOMAIN requests
    BY <1>3, Domains
  <2> QED BY <1>0, <1>2, <2>1, <2>2 DEF Valued, Place, Method, Path
<1>6. ASSUME NEW j \in DOMAIN requests
      PROVE  Stored(j)'
  <2>0. Stored(j)
    BY <1>3
  <2>1. Progressed(j)'
    BY <1>0, <1>2, <1>3, <2>0 DEF Stored, Progressed, Posting, Answered, Method, Canned, Path
  <2>2. Holding(j)'
    BY <1>0, <1>2, <1>3, <2>0 DEF Stored, Progressed, Holding, Posting, Listed, Valued, IsList, Place,
       Content, Method, Canned, Path
  <2>3. Once(j)'
    BY <1>0, <1>2, <1>3, <2>0 DEF Stored, Progressed, Once, Posting
  <2>4. Placed(j)'
    BY <1>0, <1>2, <1>3, <2>0 DEF Stored, Placed, Progressed, Holding, Listed, Posting, Method, Canned, Path
  <2>5. Behind(j)'
    BY <1>0, <1>2, <1>3, <2>0 DEF Stored, Progressed, Behind, Listed, Posting, Method, Canned, Path, Answered
  <2>6. Raised(j)'
    BY <1>0, <1>2, <1>3, <2>0 DEF Stored, Progressed, Raised, Answered, IsList, Place, Method, Path
  <2> QED BY <2>1, <2>2, <2>3, <2>4, <2>5, <2>6 DEF Stored
<1> QED BY <1>0, <1>1, <1>5, <1>6

LEMMA PostKeeps ==
  ASSUME IInv, NEW k \in DOMAIN requests, Responds(k, "POST"),
         NEW v, v = (IF Content(k) = Nil THEN k ELSE Content(k)), Store(k, v),
         After(k, "append", requests[k].at, requests[k].mock, v, requests[k].id),
         UNCHANGED <<registry, lists, displaced>>
  PROVE  Types' /\ Values' /\ \A j \in DOMAIN requests' : Stored(j)'
<1>0. /\ DOMAIN requests' = DOMAIN requests
      /\ requests'[k].pc = "append" /\ requests'[k].held = v /\ requests'[k].id = requests[k].id
      /\ UNCHANGED <<mocks, base_path, lists, displaced>>
  BY DEF After, registry
<1>1. \A j \in DOMAIN requests :
        /\ requests'[j].call = requests[j].call /\ requests'[j].size = requests[j].size
        /\ requests'[j].before = requests[j].before /\ requests'[j].mock = requests[j].mock
        /\ j # k => /\ requests'[j].pc = requests[j].pc
                    /\ requests'[j].held = requests[j].held /\ requests'[j].id = requests[j].id
  BY DEF After
<1>2. Types /\ Values /\ \A j \in DOMAIN requests : Stored(j)
  BY DEF IInv
<1>3. /\ requests[k].pc = "respond" /\ ~Canned(k) /\ Method(k) = "POST"
      /\ requests[k].mock \in DOMAIN state /\ Resource[Path(k)] \in Resources
  BY <1>2, PathOK DEF Responds, At, Stored, Progressed
<1>4. v \in DOMAIN requests /\ v # Nil /\ Place(v) = Place(k) /\ Valued(v)
  <2>1. CASE Content(k) = Nil
    BY <1>2, <1>3, <2>1, Domains DEF Valued
  <2>2. CASE Content(k) # Nil
    BY <1>2, <1>3, <2>2, Domains DEF Content, Values, Place
  <2> QED BY <2>1, <2>2
<1>5. /\ state' \in Seq([Resources -> {Nil} \cup DOMAIN requests]) /\ Len(state') = Len(state)
      /\ DOMAIN state' = DOMAIN state
  BY <1>2, <1>3, <1>4, StoreShape
<1>6. \A m \in DOMAIN state : \A r \in Resources :
        state'[m][r] = IF m = requests[k].mock /\ r = Resource[Path(k)] THEN v
                       ELSE state[m][r]
  BY <1>2, <1>3, <1>4, StoreShape
<1>7. Types'
  BY <1>0, <1>2, <1>5 DEF Types, After
<1>8. ASSUME NEW w \in DOMAIN requests, Valued(w)
      PROVE  Place(w)' = Place(w) /\ Valued(w)'
  BY <1>0, <1>1, <1>3, <1>8 DEF Place, Path, Valued, Method
<1>9. Values'
  <2> SUFFICES ASSUME NEW m \in DOMAIN state, NEW r \in Resources, state'[m][r] # Nil
               PROVE  (Place(state[m][r]) = <<m, r>> /\ Valued(state[m][r]))'
    BY <1>5 DEF Values
  <2>1. PICK w \in DOMAIN requests : w = state'[m][r] /\ Place(w) = <<m, r>> /\ Valued(w)
    <3>1. CASE m = requests[k].mock /\ r = Resource[Path(k)]
      BY <1>4, <1>6, <3>1 DEF Place
    <3>2. CASE ~(m = requests[k].mock /\ r = Resource[Path(k)])
      BY <1>2, <1>6, <3>2, Domains DEF Values
    <3> QED BY <3>1, <3>2
  <2>2. Place(w)' = <<m, r>> /\ Valued(w)'
    BY <1>8, <2>1
  <2> QED BY <2>1, <2>2, Zenon
<1>10. ASSUME NEW j \in DOMAIN requests
       PROVE  Stored(j)'
  <2>1. Stored(j)
    BY <1>2
  <2>2. Progressed(j)'
    BY <1>0, <1>1, <1>3, <1>5, <2>1
       DEF Stored, Progressed, Posting, Answered, Method, Canned, Path
  <2>3. Holding(j)'
    <3> SUFFICES ASSUME Posting(j)'
                 PROVE  (/\ requests[j].held \in DOMAIN requests
                         /\ Place(requests[j].held) = Place(j)
                         /\ Valued(requests[j].held)
                         /\ Listed(j) => IsList(requests[j].held)
                         /\ j \notin displaced => Content(j) = requests[j].held)'
      BY DEF Holding
    <3>1. PICK h \in DOMAIN requests :
            /\ h = requests'[j].held /\ Place(h) = Place(j) /\ Valued(h)
            /\ Listed(j)' => IsList(h) /\ j # k
            /\ j \notin displaced =>
                 state'[requests[j].mock][Resource[Path(j)]] = h
      <4>1. CASE j = k
        BY <1>0, <1>3, <1>4, <1>6, <4>1 DEF Listed
      <4>2. CASE j # k
        <5>1. Posting(j) /\ (Listed(j)' => Listed(j))
          BY <1>1, <4>2 DEF Posting, Listed, Method, Canned, Path
        <5>2. Holding(j) /\ requests[j].mock \in DOMAIN state
          BY <2>1, <5>1 DEF Stored, Progressed, Posting
        <5>3. requests[j].held # Nil /\ Resource[Path(j)] \in Resources
          BY <1>2, <5>1, <5>2, Domains, PathOK DEF Holding
        <5>4. j \notin displaced =>
                state'[requests[j].mock][Resource[Path(j)]] = requests[j].held
          BY <1>6, <5>1, <5>2, <5>3 DEF Holding, Content
        <5> QED BY <1>1, <4>2, <5>1, <5>2, <5>4 DEF Holding
      <4> QED BY <4>1, <4>2
    <3>2. Place(h)' = Place(h) /\ Valued(h)' /\ Place(j)' = Place(j)
      BY <1>1, <1>8, <3>1 DEF Place, Path
    <3>3. Listed(j)' => IsList(h)'
      BY <1>1, <3>1 DEF IsList, Method
    <3>4. j \notin displaced' => Content(j)' = h
      BY <1>0, <1>1, <3>1 DEF Content, Path
    <3> QED BY <1>0, <3>1, <3>2, <3>3, <3>4, Zenon
  <2>4. Once(j)'
    BY <1>0, <1>1, <1>3, <2>1 DEF Stored, Once
  <2>5. Placed(j)'
    BY <1>0, <1>1, <1>3, <2>1 DEF Stored, Placed, Listed, Posting, Method, Canned, Path
  <2>6. Behind(j)'
    <3>1. ASSUME NEW i \in requests[j].before
          PROVE  i \in DOMAIN requests /\ i # k
      BY <1>3, <2>1 DEF Stored, Progressed, Answered
    <3> QED BY <1>0, <1>1, <2>1, <3>1
            DEF Stored, Behind, Listed, Posting, Method, Canned, Path
  <2>7. Raised(j)'
    BY <1>0, <1>1, <1>3, <2>1 DEF Stored, Raised, Answered, IsList, Place, Method, Path
  <2> QED BY <2>2, <2>3, <2>4, <2>5, <2>6, <2>7 DEF Stored
<1> QED BY <1>0, <1>7, <1>9, <1>10

LEMMA AppendKeeps ==
  ASSUME IInv, NEW k \in DOMAIN requests, requests[k].pc = "append",
         IsList(requests[k].held),
         lists' = [lists EXCEPT ![requests[k].held] = Append(@, k)],
         After(k, "count", requests[k].at, requests[k].mock, requests[k].held, requests[k].id),
         UNCHANGED <<registry, state, displaced>>
  PROVE  Types' /\ Values' /\ \A j \in DOMAIN requests' : Stored(j)'
<1> DEFINE v == requests[k].held
           last == Len(lists[v]) + 1
<1>0. /\ DOMAIN requests' = DOMAIN requests /\ requests'[k].pc = "count"
      /\ UNCHANGED <<mocks, base_path, state, displaced>>
  BY DEF After, registry
<1>1. \A j \in DOMAIN requests :
        /\ requests'[j].call = requests[j].call /\ requests'[j].size = requests[j].size
        /\ requests'[j].before = requests[j].before /\ requests'[j].mock = requests[j].mock
        /\ requests'[j].held = requests[j].held /\ requests'[j].id = requests[j].id
        /\ j # k => requests'[j].pc = requests[j].pc
  BY DEF After
<1>2. Types /\ Values /\ \A j \in DOMAIN requests : Stored(j)
  BY DEF IInv
<1>3. Posting(k) /\ v \in DOMAIN requests /\ v \in Ids
  BY <1>2, Domains DEF Stored, Progressed, Holding
<1>4. /\ lists[v] \in Seq(DOMAIN requests) /\ Len(lists[v]) \in Nat
      /\ DOMAIN lists[v] = 1..Len(lists[v])
  BY <1>2, <1>3 DEF Types
<1>5. /\ lists'[v] = Append(lists[v], k)
      /\ \A w \in Ids \ {v} : lists'[w] = lists[w]
  BY <1>2, <1>3 DEF Types
<1> HIDE DEF v
<1>6. /\ Append(lists[v], k) \in Seq(DOMAIN requests)
      /\ Len(Append(lists[v], k)) = last /\ DOMAIN Append(lists[v], k) = 1..last
      /\ Append(lists[v], k)[last] = k
      /\ \A i \in DOMAIN lists[v] : Append(lists[v], k)[i] = lists[v][i]
  BY <1>4, AppendProperties
<1>7. /\ DOMAIN lists'[v] = 1..last /\ Len(lists'[v]) = last /\ last \in Nat
      /\ lists'[v][last] = k /\ last \notin DOMAIN lists[v]
      /\ DOMAIN lists'[v] = DOMAIN lists[v] \cup {last}
      /\ \A i \in DOMAIN lists[v] : i \in DOMAIN lists'[v] /\ lists'[v][i] = lists[v][i]
  BY <1>4, <1>5, <1>6
<1>8. lists' \in [Ids -> Seq(DOMAIN requests)]
  BY <1>2, <1>3, <1>5, <1>6 DEF Types
<1>9. Types'
  BY <1>0, <1>2, <1>8 DEF Types, After
<1>10. ASSUME NEW w \in DOMAIN requests
       PROVE  Place(w)' = Place(w) /\ (Valued(w) => Valued(w)')
  BY <1>0, <1>1 DEF Place, Path, Valued, Method
<1>11. Values'
  <2> SUFFICES ASSUME NEW m \in DOMAIN state, NEW r \in Resources, state[m][r] # Nil
               PROVE  (Place(state[m][r]) = <<m, r>> /\ Valued(state[m][r]))'
    BY <1>0 DEF Values
  <2>1. PICK w \in DOMAIN requests :
          w = state[m][r] /\ w = state'[m][r] /\ Place(w) = <<m, r>> /\ Valued(w)
    BY <1>0, <1>2, Domains DEF Values
  <2>2. Place(w)' = <<m, r>> /\ Valued(w)'
    BY <1>10, <2>1
  <2> QED BY <2>1, <2>2, Zenon
\* The body of k is in no list yet.
<1>12. \A w \in Ids : \A i \in DOMAIN lists[w] : lists[w][i] # k
  BY <1>2 DEF Stored, Once
<1>13. ASSUME NEW j \in DOMAIN requests
       PROVE  Stored(j)'
  <2>1. Stored(j)
    BY <1>2
  <2>2. Progressed(j)'
    BY <1>0, <1>1, <1>3, <2>1
       DEF Stored, Progressed, Posting, Answered, Method, Canned, Path
  <2>3. Holding(j)'
    <3> SUFFICES ASSUME Posting(j)'
                 PROVE  (/\ requests[j].held \in DOMAIN requests
                         /\ Place(requests[j].held) = Place(j)
                         /\ Valued(requests[j].held)
                         /\ Listed(j) => IsList(requests[j].held)
                         /\ j \notin displaced => Content(j) = requests[j].held)'
      BY DEF Holding
    <3>1. Posting(j)
      BY <1>0, <1>1, <1>3 DEF Posting, Method, Canned, Path
    <3>2. PICK h \in DOMAIN requests :
            /\ h = requests[j].held /\ h = requests'[j].held
            /\ Place(h) = Place(j) /\ Valued(h)
            /\ j \notin displaced => Content(j) = h
      BY <1>1, <2>1, <3>1 DEF Stored, Holding
    <3>3. Listed(j)' => IsList(h)
      <4>1. CASE j = k
        BY <3>2, <4>1
      <4>2. CASE j # k
        BY <1>1, <2>1, <3>1, <3>2, <4>2 DEF Stored, Holding, Listed
      <4> QED BY <4>1, <4>2
    <3>4. Listed(j)' => IsList(h)'
      BY <1>1, <3>3 DEF IsList, Method
    <3>5. Place(h)' = Place(h) /\ Valued(h)' /\ Place(j)' = Place(j)
      BY <1>10, <3>2
    <3>6. j \notin displaced' => Content(j)' = h
      BY <1>0, <1>1, <3>2 DEF Content, Path
    <3> QED BY <1>0, <3>2, <3>4, <3>5, <3>6, Zenon
  <2>4. Once(j)'
    <3> SUFFICES ASSUME NEW w \in Ids, NEW i \in DOMAIN lists'[w], lists'[w][i] = j
                 PROVE  (/\ requests[j].pc \in {"count", "done", "raised"}
                         /\ requests[j].held = w
                         /\ \A n \in DOMAIN lists[w] : lists[w][n] = j => n = i)'
      BY DEF Once
    <3>1. CASE j = k
      BY <1>0, <1>1, <1>5, <1>7, <1>12, <3>1 DEF v
    <3>2. CASE j # k
      <4>1. /\ i \in DOMAIN lists[w] /\ lists[w][i] = j
            /\ \A n \in DOMAIN lists'[w] : lists'[w][n] = j =>
                 n \in DOMAIN lists[w] /\ lists[w][n] = j
        BY <1>5, <1>7, <3>2
      <4> QED BY <1>1, <2>1, <3>2, <4>1 DEF Stored, Once
    <3> QED BY <3>1, <3>2
  <2>5. Placed(j)'
    <3>1. CASE j = k
      BY <1>0, <1>1, <1>7, <3>1 DEF Placed, v
    <3>2. CASE j # k
      <4> SUFFICES ASSUME Listed(j)'
                   PROVE  (\E i \in DOMAIN lists[requests[j].held] :
                             /\ lists[requests[j].held][i] = j
                             /\ requests[j].pc = "done" /\ j \notin displaced =>
                                  /\ i <= requests[j].id
                                  /\ requests[j].id <= Len(lists[requests[j].held]))'
        BY DEF Placed
      <4>1. Listed(j)
        BY <1>1, <3>2 DEF Listed, Posting, Method, Canned, Path
      <4>2. requests[j].held \in Ids /\ requests[j].id \in Nat
        BY <1>2, <2>1, <4>1, Domains, Fields DEF Stored, Holding, Listed
      <4>3. PICK i \in DOMAIN lists[requests[j].held] :
              /\ lists[requests[j].held][i] = j
              /\ requests[j].pc = "done" /\ j \notin displaced =>
                   i <= requests[j].id /\ requests[j].id <= Len(lists[requests[j].held])
        BY <2>1, <4>1 DEF Stored, Placed
      <4>4. CASE requests[j].held = v
        BY <1>0, <1>1, <1>4, <1>7, <3>2, <4>2, <4>3, <4>4
      <4>5. CASE requests[j].held # v
        BY <1>0, <1>1, <1>5, <3>2, <4>2, <4>3, <4>5
      <4> QED BY <4>4, <4>5
    <3> QED BY <3>1, <3>2
  <2>6. Behind(j)'
    <3> SUFFICES ASSUME NEW i \in requests[j].before, Listed(i)', i \notin displaced,
                        NEW n \in DOMAIN lists'[requests'[i].held],
                        lists'[requests'[i].held][n] = j
                 PROVE  requests'[i].id < n
      BY <1>0, <1>1 DEF Behind
    <3>1. i \in DOMAIN requests /\ i # k /\ requests[i].pc = "done"
      BY <2>1 DEF Stored, Progressed, Answered
    <3>2. Listed(i)
      BY <1>1, <3>1 DEF Listed, Posting, Method, Canned, Path
    <3>3. requests[i].held \in Ids /\ requests[i].id \in Nat
      BY <1>2, <3>1, <3>2, Domains, Fields DEF Stored, Holding, Listed
    <3>4. requests[i].id <= Len(lists[requests[i].held])
      <4>1. PICK x \in DOMAIN lists[requests[i].held] :
              x <= requests[i].id /\ requests[i].id <= Len(lists[requests[i].held])
        BY <1>2, <3>1, <3>2 DEF Stored, Placed
      <4> QED BY <4>1
    <3>5. CASE n \in DOMAIN lists[requests[i].held] /\ lists[requests[i].held][n] = j
      BY <1>1, <2>1, <3>1, <3>2, <3>5 DEF Stored, Behind
    <3>6. CASE ~(n \in DOMAIN lists[requests[i].held] /\ lists[requests[i].held][n] = j)
      <4>1. requests[i].held = v /\ n = last
        BY <1>1, <1>5, <1>7, <3>1, <3>3, <3>6
      <4> QED BY <1>1, <1>4, <3>1, <3>3, <3>4, <4>1
    <3> QED BY <3>5, <3>6
  <2>7. Raised(j)'
    BY <1>0, <1>1, <2>1 DEF Stored, Raised, Answered, IsList, Place, Method, Path
  <2> QED BY <2>2, <2>3, <2>4, <2>5, <2>6, <2>7 DEF Stored
<1> QED BY <1>0, <1>9, <1>11, <1>13

LEMMA CountKeeps ==
  ASSUME IInv, NEW k \in DOMAIN requests, requests[k].pc = "count",
         NEW id \in Nat, IsList(Content(k)) => id = Len(lists[Content(k)]),
         After(k, "done", requests[k].at, requests[k].mock, requests[k].held, id),
         UNCHANGED <<registry, state, lists, displaced>>
  PROVE  Types' /\ Values' /\ \A j \in DOMAIN requests' : Stored(j)'
<1>0. /\ DOMAIN requests' = DOMAIN requests
      /\ requests'[k].pc = "done" /\ requests'[k].id = id
      /\ UNCHANGED <<mocks, base_path, state, lists, displaced>>
  BY DEF After, registry
<1>1. \A j \in DOMAIN requests :
        /\ requests'[j].call = requests[j].call /\ requests'[j].size = requests[j].size
        /\ requests'[j].before = requests[j].before /\ requests'[j].mock = requests[j].mock
        /\ requests'[j].held = requests[j].held
        /\ j # k => requests'[j].pc = requests[j].pc /\ requests'[j].id = requests[j].id
  BY DEF After
<1>2. Types /\ Values /\ \A j \in DOMAIN requests : Stored(j)
  BY DEF IInv
<1>3. /\ Posting(k) /\ Listed(k) /\ requests[k].held \in DOMAIN requests
      /\ requests[k].held \in Ids
      /\ k \notin displaced => id = Len(lists[requests[k].held])
  BY <1>2, Domains DEF Stored, Progressed, Holding, Listed
<1>4. Types'
  BY <1>0, <1>2 DEF Types, After
<1>5. ASSUME NEW w \in DOMAIN requests
      PROVE  Place(w)' = Place(w) /\ (Valued(w) => Valued(w)')
  BY <1>0, <1>1 DEF Place, Path, Valued, Method
<1>6. Values'
  <2> SUFFICES ASSUME NEW m \in DOMAIN state, NEW r \in Resources, state[m][r] # Nil
               PROVE  (Place(state[m][r]) = <<m, r>> /\ Valued(state[m][r]))'
    BY <1>0 DEF Values
  <2>1. PICK w \in DOMAIN requests :
          w = state[m][r] /\ w = state'[m][r] /\ Place(w) = <<m, r>> /\ Valued(w)
    BY <1>0, <1>2, Domains DEF Values
  <2>2. Place(w)' = <<m, r>> /\ Valued(w)'
    BY <1>5, <2>1
  <2> QED BY <2>1, <2>2, Zenon
<1>7. ASSUME NEW j \in DOMAIN requests
      PROVE  Stored(j)'
  <2>1. Stored(j)
    BY <1>2
  <2>2. Progressed(j)'
    BY <1>0, <1>1, <1>3, <2>1
       DEF Stored, Progressed, Posting, Answered, Method, Canned, Path
  <2>3. Holding(j)'
    <3>1. Posting(j)' => Posting(j) /\ (Listed(j)' => Listed(j))
      BY <1>1, <1>3 DEF Posting, Listed, Method, Canned, Path
    <3> QED BY <1>0, <1>1, <2>1, <3>1
            DEF Stored, Holding, Valued, IsList, Place, Content, Method, Path
  <2>4. Once(j)'
    BY <1>0, <1>1, <2>1 DEF Stored, Once
  <2>5. Placed(j)'
    <3>1. CASE j = k
      <4>1. PICK i \in DOMAIN lists[requests[k].held] : lists[requests[k].held][i] = k
        BY <1>2, <1>3 DEF Stored, Placed
      <4>2. lists[requests[k].held] \in Seq(DOMAIN requests)
        BY <1>2, <1>3 DEF Types
      <4>3. i <= Len(lists[requests[k].held]) /\ Len(lists[requests[k].held]) \in Nat
        BY <4>1, <4>2
      <4> QED BY <1>0, <1>1, <1>3, <3>1, <4>1, <4>3 DEF Placed
    <3>2. CASE j # k
      BY <1>0, <1>1, <2>1, <3>2 DEF Stored, Placed, Listed, Posting, Method, Canned, Path
    <3> QED BY <3>1, <3>2
  <2>6. Behind(j)'
    <3>1. ASSUME NEW i \in requests[j].before
          PROVE  i \in DOMAIN requests /\ i # k
      BY <2>1 DEF Stored, Progressed, Answered
    <3> QED BY <1>0, <1>1, <2>1, <3>1
            DEF Stored, Behind, Listed, Posting, Method, Canned, Path
  <2>7. Raised(j)'
    BY <1>0, <1>1, <2>1 DEF Stored, Raised, Answered, IsList, Place, Method, Path
  <2> QED BY <2>2, <2>3, <2>4, <2>5, <2>6, <2>7 DEF Stored
<1> QED BY <1>0, <1>4, <1>6, <1>7

LEMMA DisplaceKeeps ==
  ASSUME IInv, NEW k \in DOMAIN requests, requests[k].pc = "respond",
         Method(k) \in {"PUT", "DELETE"},
         NEW v \in {Nil, k}, v = k => Method(k) = "PUT", Store(k, v), Displace(k),
         After(k, "done", requests[k].at, requests[k].mock, requests[k].held, requests[k].id),
         UNCHANGED <<registry, lists>>
  PROVE  Types' /\ Values' /\ \A j \in DOMAIN requests' : Stored(j)'
<1>0. /\ DOMAIN requests' = DOMAIN requests /\ requests'[k].pc = "done"
      /\ UNCHANGED <<mocks, base_path, lists>>
  BY DEF After, registry
<1>1. \A j \in DOMAIN requests :
        /\ requests'[j].call = requests[j].call /\ requests'[j].size = requests[j].size
        /\ requests'[j].before = requests[j].before /\ requests'[j].mock = requests[j].mock
        /\ requests'[j].held = requests[j].held /\ requests'[j].id = requests[j].id
        /\ j # k => requests'[j].pc = requests[j].pc
  BY DEF After
<1>2. Types /\ Values /\ \A j \in DOMAIN requests : Stored(j)
  BY DEF IInv
<1>3. /\ displaced \subseteq displaced' /\ displaced' \subseteq DOMAIN requests
      /\ \A j \in DOMAIN requests : Posting(j) /\ Place(j) = Place(k) => j \in displaced'
  BY <1>2 DEF Displace, Posting, Types
<1>4. requests[k].mock \in DOMAIN state /\ Resource[Path(k)] \in Resources
  BY <1>2, PathOK DEF Stored, Progressed
<1>5. /\ state' \in Seq([Resources -> {Nil} \cup DOMAIN requests]) /\ Len(state') = Len(state)
      /\ DOMAIN state' = DOMAIN state
  BY <1>2, <1>4, StoreShape
<1>6. \A m \in DOMAIN state : \A r \in Resources :
        state'[m][r] = IF m = requests[k].mock /\ r = Resource[Path(k)] THEN v
                       ELSE state[m][r]
  BY <1>2, <1>4, StoreShape
<1>7. Types'
  BY <1>0, <1>2, <1>3, <1>5 DEF Types, After
<1>8. ASSUME NEW w \in DOMAIN requests
      PROVE  Place(w)' = Place(w) /\ (Valued(w) => Valued(w)')
  BY <1>0, <1>1 DEF Place, Path, Valued, Method
<1>9. v # Nil => Valued(k)'
  BY <1>0, <1>1 DEF Valued, Method
<1>10. Values'
  <2> SUFFICES ASSUME NEW m \in DOMAIN state, NEW r \in Resources, state'[m][r] # Nil
               PROVE  (Place(state[m][r]) = <<m, r>> /\ Valued(state[m][r]))'
    BY <1>5 DEF Values
  <2>1. PICK w \in DOMAIN requests : w = state'[m][r] /\ Place(w) = <<m, r>> /\ Valued(w)'
    <3>1. CASE m = requests[k].mock /\ r = Resource[Path(k)]
      BY <1>6, <1>9, <3>1 DEF Place
    <3>2. CASE ~(m = requests[k].mock /\ r = Resource[Path(k)])
      <4>1. PICK w \in DOMAIN requests : w = state'[m][r] /\ Place(w) = <<m, r>> /\ Valued(w)
        BY <1>2, <1>6, <3>2, Domains DEF Values
      <4> QED BY <1>8, <4>1
    <3> QED BY <3>1, <3>2
  <2>2. Place(w)' = <<m, r>>
    BY <1>8, <2>1
  <2> QED BY <2>1, <2>2, Zenon
<1>11. ASSUME NEW j \in DOMAIN requests
       PROVE  Stored(j)'
  <2>1. Stored(j)
    BY <1>2
  <2>2. Progressed(j)'
    BY <1>0, <1>1, <1>5, <2>1
       DEF Stored, Progressed, Posting, Answered, Method, Canned, Path
  <2>3. Holding(j)'
    <3> SUFFICES ASSUME Posting(j)'
                 PROVE  (/\ requests[j].held \in DOMAIN requests
                         /\ Place(requests[j].held) = Place(j)
                         /\ Valued(requests[j].held)
                         /\ Listed(j) => IsList(requests[j].held)
                         /\ j \notin displaced => Content(j) = requests[j].held)'
      BY DEF Holding
    <3>1. Posting(j) /\ j # k /\ (Listed(j)' => Listed(j))
      BY <1>1 DEF Posting, Listed, Method, Canned, Path
    <3>2. PICK h \in DOMAIN requests :
            /\ h = requests[j].held /\ h = requests'[j].held
            /\ Place(h) = Place(j) /\ Valued(h) /\ (Listed(j) => IsList(h))
            /\ j \notin displaced => Content(j) = h
      BY <1>1, <2>1, <3>1 DEF Stored, Holding
    <3>3. j \notin displaced' => Content(j)' = h
      <4>1. SUFFICES ASSUME j \notin displaced'
                     PROVE  Content(j)' = h
        OBVIOUS
      <4>2. Content(j) = h /\ Place(j) # Place(k)
        BY <1>3, <3>1, <3>2, <4>1
      <4>3. requests[j].mock \in DOMAIN state /\ Resource[Path(j)] \in Resources
        BY <1>2, <2>1, <3>1, PathOK DEF Stored, Progressed, Posting
      <4>4. state'[requests[j].mock][Resource[Path(j)]] = h
        BY <1>6, <4>2, <4>3 DEF Content, Place
      <4> QED BY <1>1, <4>4 DEF Content, Path
    <3>4. IsList(h) => IsList(h)'
      BY <1>1 DEF IsList, Method
    <3>5. Place(h)' = Place(h) /\ Valued(h)' /\ Place(j)' = Place(j)
      BY <1>8, <3>2
    <3> QED BY <1>0, <3>1, <3>2, <3>3, <3>4, <3>5, Zenon
  <2>4. Once(j)'
    BY <1>0, <1>1, <2>1 DEF Stored, Once
  <2>5. Placed(j)'
    BY <1>0, <1>1, <1>3, <2>1 DEF Stored, Placed, Listed, Posting, Method, Canned, Path
  <2>6. Behind(j)'
    <3>1. ASSUME NEW i \in requests[j].before
          PROVE  i \in DOMAIN requests /\ i # k
      BY <2>1 DEF Stored, Progressed, Answered
    <3> QED BY <1>0, <1>1, <1>3, <2>1, <3>1
            DEF Stored, Behind, Listed, Posting, Method, Canned, Path
  <2>7. Raised(j)'
    BY <1>0, <1>1, <1>3, <2>1 DEF Stored, Raised, Answered, IsList, Place, Method, Path
  <2> QED BY <2>2, <2>3, <2>4, <2>5, <2>6, <2>7 DEF Stored
<1> QED BY <1>0, <1>7, <1>10, <1>11

LEMMA ArriveShape ==
  ASSUME Types, NEW call \in Calls, Arrive(call)
  PROVE  LET k == Len(requests) + 1 IN
         /\ requests' \in Seq(Request) /\ Len(requests') = k /\ k <= MaxRequests
         /\ DOMAIN requests' = DOMAIN requests \cup {k} /\ k \in Nat /\ k \in Ids
         /\ k \notin DOMAIN requests
         /\ \A j \in DOMAIN requests : requests'[j] = requests[j]
         /\ requests'[k].call = call /\ requests'[k].pc = "look" /\ requests'[k].at = 1
         /\ requests'[k].size = Len(mocks) /\ requests'[k].mock = Nil
         /\ requests'[k].before = Answered
<1> DEFINE k == Len(requests) + 1
           new == [call |-> call, pc |-> "look", size |-> Len(mocks), at |-> 1,
                   mock |-> Nil, held |-> Nil, id |-> Nil, before |-> Answered]
<1>1. requests' = Append(requests, new) /\ Len(requests) < MaxRequests
  BY DEF Arrive
<1>2. call \in Call /\ Answered \in SUBSET Ids /\ Nil \in Nat /\ "look" \in Pcs
  BY Domains, GatewayOK DEF Answered, Nil, Pcs
<1>3. new \in Request
  BY <1>2, ARequest, Domains
<1>4. /\ new.call = call /\ new.pc = "look" /\ new.at = 1 /\ new.size = Len(mocks)
      /\ new.mock = Nil /\ new.before = Answered
  OBVIOUS
<1> HIDE DEF new
<1>5. requests \in Seq(Request) /\ Len(requests) \in Nat
  BY Domains DEF Types
<1>6. /\ requests' \in Seq(Request) /\ Len(requests') = k
      /\ requests'[k] = new /\ \A j \in 1..Len(requests) : requests'[j] = requests[j]
  BY <1>1, <1>3, <1>5, AppendProperties
<1>7. DOMAIN requests' = 1..k
  BY <1>6
<1> QED BY <1>1, <1>4, <1>5, <1>6, <1>7, Domains, GatewayOK DEF Ids

LEMMA ArriveKeeps ==
  ASSUME IInv, NEW call \in Calls, Arrive(call)
  PROVE  IInv'
<1>0. UNCHANGED <<mocks, base_path, state, lists, displaced>>
  BY DEF Arrive, registry
<1>1. PICK k \in Nat :
      /\ requests' \in Seq(Request) /\ Len(requests') = k /\ k <= MaxRequests
      /\ DOMAIN requests' = DOMAIN requests \cup {k} /\ k \in Nat /\ k \in Ids
      /\ k \notin DOMAIN requests
      /\ \A j \in DOMAIN requests : requests'[j] = requests[j]
      /\ requests'[k].call = call /\ requests'[k].pc = "look" /\ requests'[k].at = 1
      /\ requests'[k].size = Len(mocks) /\ requests'[k].mock = Nil
      /\ requests'[k].before = Answered
  BY ArriveShape DEF IInv
<1>2. Types /\ Values /\ \A j \in DOMAIN requests : Stored(j) /\ Routed(j)
  BY DEF IInv
<1>3. /\ state \in Seq([Resources -> {Nil} \cup DOMAIN requests'])
      /\ lists \in [Ids -> Seq(DOMAIN requests')]
  <2>1. [Resources -> {Nil} \cup DOMAIN requests]
          \subseteq [Resources -> {Nil} \cup DOMAIN requests']
    BY <1>1
  <2>2. Seq(DOMAIN requests) \subseteq Seq(DOMAIN requests')
    BY <1>1, SeqMonotonic
  <2>3. state \in Seq([Resources -> {Nil} \cup DOMAIN requests])
    BY <1>2 DEF Types
  <2>4. Seq([Resources -> {Nil} \cup DOMAIN requests])
          \subseteq Seq([Resources -> {Nil} \cup DOMAIN requests'])
    <3> DEFINE A == [Resources -> {Nil} \cup DOMAIN requests]
               B == [Resources -> {Nil} \cup DOMAIN requests']
    <3>1. A \subseteq B
      BY <2>1
    <3> HIDE DEF A, B
    <3>2. Seq(A) \subseteq Seq(B)
      BY <3>1, SeqMonotonic
    <3> QED BY <3>2 DEF A, B
  <2>5. state \in Seq([Resources -> {Nil} \cup DOMAIN requests'])
    BY <2>3, <2>4, Zenon
  <2>6. lists \in [Ids -> Seq(DOMAIN requests)]
    BY <1>2 DEF Types
  <2>7. lists \in [Ids -> Seq(DOMAIN requests')]
    <3> DEFINE A == Seq(DOMAIN requests)
               B == Seq(DOMAIN requests')
    <3>1. lists \in [Ids -> A] /\ A \subseteq B
      BY <2>2, <2>6
    <3> HIDE DEF A, B
    <3>2. lists \in [Ids -> B]
      BY <3>1
    <3> QED BY <3>2 DEF B
  <2> QED BY <2>5, <2>7
<1>4. Types'
  BY <1>0, <1>1, <1>2, <1>3 DEF Types
<1>5. Values'
  <2> SUFFICES ASSUME NEW m \in DOMAIN state, NEW r \in Resources, state[m][r] # Nil
               PROVE  (Place(state[m][r]) = <<m, r>> /\ Valued(state[m][r]))'
    BY <1>0 DEF Values
  <2>1. PICK w \in DOMAIN requests :
          w = state[m][r] /\ w = state'[m][r] /\ Place(w) = <<m, r>> /\ Valued(w)
    BY <1>0, <1>2, Domains DEF Values
  <2>2. Place(w)' = <<m, r>> /\ Valued(w)'
    BY <1>1, <2>1 DEF Place, Path, Valued, Method
  <2> QED BY <2>1, <2>2, Zenon
<1>6. Answered' = Answered /\ Answered \subseteq DOMAIN requests
  BY <1>1 DEF Answered
<1>7. Stored(k)'
  <2>1. \A w \in Ids : \A i \in DOMAIN lists[w] : lists[w][i] # k
    BY <1>1, <1>2 DEF Types
  <2>2. Progressed(k)' /\ Holding(k)' /\ Placed(k)' /\ Raised(k)'
    BY <1>0, <1>1, <1>6 DEF Progressed, Holding, Placed, Listed, Posting, Raised
  <2>3. Once(k)'
    BY <1>0, <2>1 DEF Once
  <2>4. Behind(k)'
    <3>1. ASSUME NEW j \in Answered, Listed(j)'
          PROVE  requests'[j].held \in Ids
      <4>1. j \in DOMAIN requests /\ requests'[j] = requests[j] /\ Listed(j)
        BY <1>1, <1>6, <3>1 DEF Listed, Posting, Method, Canned, Path
      <4> QED BY <1>2, <4>1, Domains DEF Stored, Holding, Listed
    <3> QED BY <1>0, <1>1, <2>1, <3>1 DEF Behind
  <2> QED BY <2>2, <2>3, <2>4 DEF Stored
<1>8. ASSUME NEW j \in DOMAIN requests
      PROVE  Stored(j)'
  <2>1. Stored(j)
    BY <1>2
  <2>2. Progressed(j)'
    BY <1>0, <1>1, <1>6, <2>1 DEF Stored, Progressed, Posting, Method, Canned, Path
  <2>3. Holding(j)'
    <3>1. Posting(j)' => Posting(j) /\ (Listed(j)' => Listed(j))
      BY <1>1 DEF Posting, Listed, Method, Canned, Path
    <3> QED BY <1>0, <1>1, <2>1, <3>1
            DEF Stored, Holding, Valued, IsList, Place, Content, Method, Path
  <2>4. Once(j)' /\ Placed(j)'
    BY <1>0, <1>1, <2>1 DEF Stored, Once, Placed, Listed, Posting, Method, Canned, Path
  <2>5. Behind(j)'
    <3>1. requests[j].before \subseteq DOMAIN requests
      BY <1>6, <2>1 DEF Stored, Progressed
    <3> QED BY <1>0, <1>1, <2>1, <3>1
            DEF Stored, Behind, Listed, Posting, Method, Canned, Path
  <2>6. Raised(j)'
    BY <1>0, <1>1, <1>6, <2>1 DEF Stored, Raised, IsList, Place, Method, Path
  <2> QED BY <2>2, <2>3, <2>4, <2>5, <2>6 DEF Stored
<1>9. ASSUME NEW j \in DOMAIN requests
      PROVE  Routed(j)'
  <2>1. Routed(j) /\ requests[j].before \subseteq DOMAIN requests
    BY <1>2, <1>6 DEF Stored, Progressed
  <2> QED BY <1>0, <1>1, <2>1 DEF Routed, Passed, Base, Path
<1>10. Routed(k)'
  <2>1. ASSUME NEW j \in Answered
        PROVE  \E i \in DOMAIN mocks : i <= Len(mocks) /\ Base(i) \in Prefixes[Path(j)]
    <3>1. j \in DOMAIN requests /\ requests[j].mock # Nil
      BY <1>2, <1>6 DEF Answered, Stored, Progressed
    <3> QED BY <1>2, <3>1, Domains DEF Routed
  <2>2. Len(mocks) \in Nat /\ DOMAIN mocks = 1..Len(mocks)
    BY <1>2, Domains
  <2> QED BY <1>0, <1>1, <1>6, <2>1, <2>2 DEF Routed, Passed, Base, Path
<1> QED BY <1>1, <1>4, <1>5, <1>7, <1>8, <1>9, <1>10 DEF IInv

LEMMA AddMockShape ==
  ASSUME Types, NEW b \in Bases, AddMock(b)
  PROVE  /\ Len(state) < MaxMocks /\ Len(state') = Len(state) + 1
         /\ DOMAIN state' = DOMAIN state \cup {New} /\ New \notin DOMAIN state
         /\ state' \in Seq([Resources -> {Nil} \cup DOMAIN requests])
         /\ state'[New] = EmptyState
         /\ \A m \in DOMAIN state : state'[m] = state[m] /\ base_path'[m] = base_path[m]
         /\ base_path' \in Seq(Bases) /\ Len(base_path') = Len(state')
         /\ mocks' \in Seq(DOMAIN state') /\ Len(mocks) <= Len(mocks')
         /\ \A i \in DOMAIN mocks : i \in DOMAIN mocks' /\ Base(i)' = Base(i)
         /\ UNCHANGED <<lists, requests, displaced>>
<1>1. /\ Len(state) < MaxMocks /\ mocks' = Registered(b)
      /\ base_path' = Append(base_path, b) /\ state' = Append(state, EmptyState)
      /\ UNCHANGED <<lists, requests, displaced>>
  BY DEF AddMock
<1>2. EmptyState \in [Resources -> {Nil} \cup DOMAIN requests]
  BY DEF EmptyState
<1>3. /\ Len(state') = Len(state) + 1 /\ state'[Len(state) + 1] = EmptyState
      /\ state' \in Seq([Resources -> {Nil} \cup DOMAIN requests])
      /\ \A m \in 1..Len(state) : state'[m] = state[m]
  BY <1>1, <1>2, AppendProperties DEF Types
<1>4. /\ Len(base_path') = Len(base_path) + 1 /\ base_path'[Len(base_path) + 1] = b
      /\ base_path' \in Seq(Bases)
      /\ \A m \in 1..Len(base_path) : base_path'[m] = base_path[m]
  BY <1>1, AppendProperties DEF Types
<1>5. DOMAIN state' = 1..New /\ New \in Nat /\ DOMAIN state = 1..(New - 1)
  BY <1>3, Domains DEF New
<1>6. /\ base_path'[New] = b
      /\ \A m \in DOMAIN state : base_path'[m] = base_path[m]
  BY <1>4, Domains DEF New, Types
<1>7. /\ mocks' \in Seq(1..New) /\ Len(mocks) <= Len(mocks')
      /\ \A i \in DOMAIN mocks : i \in DOMAIN mocks'
           /\ base_path'[mocks'[i]] = base_path[mocks[i]]
  <2>0. mocks \in Seq(1..New)
    BY <1>5, SeqMonotonic DEF Types
  <2>1. CASE \E i \in DOMAIN mocks : base_path[mocks[i]] = b
    <3>1. mocks' = [i \in 1..Len(mocks) |->
                      IF base_path[mocks[i]] = b THEN New ELSE mocks[i]]
      BY <1>1, <2>1, Domains DEF Registered
    <3>2. \A i \in 1..Len(mocks) :
            (IF base_path[mocks[i]] = b THEN New ELSE mocks[i]) \in 1..New
      BY <1>5, Domains
    <3>3. mocks' \in [1..Len(mocks) -> 1..New]
      BY <3>1, <3>2, Zenon
    <3>4. mocks' \in Seq(1..New) /\ Len(mocks') = Len(mocks)
      <4>1. PICK n \in Nat : n = Len(mocks)
        BY Domains
      <4>2. mocks' \in [1..n -> 1..New]
        BY <3>3, <4>1, Zenon
      <4>3. mocks' \in Seq(1..New)
        BY <4>1, <4>2, SeqDef, Zenon
      <4>4. Len(mocks') = n
        BY <4>1, <4>2, <4>3
      <4> QED BY <4>1, <4>3, <4>4
    <3>5. ASSUME NEW i \in DOMAIN mocks
          PROVE  i \in DOMAIN mocks' /\ base_path'[mocks'[i]] = base_path[mocks[i]]
      BY <1>6, <3>1, Domains
    <3> QED BY <3>4, <3>5, Domains
  <2>2. CASE ~\E i \in DOMAIN mocks : base_path[mocks[i]] = b
    <3>1. mocks' = Append(mocks, New) /\ New \in 1..New
      BY <1>1, <1>5, <2>2, Domains DEF Registered, New
    <3>2. /\ mocks' \in Seq(1..New) /\ Len(mocks') = Len(mocks) + 1
          /\ \A i \in 1..Len(mocks) : mocks'[i] = mocks[i]
      BY <2>0, <3>1, AppendProperties
    <3>3. ASSUME NEW i \in DOMAIN mocks
          PROVE  i \in DOMAIN mocks' /\ base_path'[mocks'[i]] = base_path[mocks[i]]
      BY <1>6, <3>2, Domains
    <3> QED BY <3>2, <3>3, Domains
  <2> QED BY <2>1, <2>2
<1>8. /\ Len(state') = Len(state) + 1 /\ state'[New] = EmptyState
      /\ DOMAIN state' = DOMAIN state \cup {New} /\ New \notin DOMAIN state
      /\ \A m \in DOMAIN state : state'[m] = state[m] /\ base_path'[m] = base_path[m]
  BY <1>3, <1>5, <1>6 DEF New
<1>9. Len(base_path') = Len(state')
  BY <1>3, <1>4 DEF Types
<1>10. \A i \in DOMAIN mocks : i \in DOMAIN mocks' /\ Base(i)' = Base(i)
  BY <1>7 DEF Base
<1> QED BY <1>1, <1>3, <1>4, <1>5, <1>7, <1>8, <1>9, <1>10

LEMMA AddMockKeeps ==
  ASSUME IInv, NEW b \in Bases, AddMock(b)
  PROVE  IInv'
<1>1. /\ Len(state) < MaxMocks /\ Len(state') = Len(state) + 1
      /\ DOMAIN state' = DOMAIN state \cup {New} /\ New \notin DOMAIN state
      /\ state' \in Seq([Resources -> {Nil} \cup DOMAIN requests])
      /\ state'[New] = EmptyState
      /\ \A m \in DOMAIN state : state'[m] = state[m] /\ base_path'[m] = base_path[m]
      /\ base_path' \in Seq(Bases) /\ Len(base_path') = Len(state')
      /\ mocks' \in Seq(DOMAIN state') /\ Len(mocks) <= Len(mocks')
      /\ \A i \in DOMAIN mocks : i \in DOMAIN mocks' /\ Base(i)' = Base(i)
      /\ UNCHANGED <<lists, requests, displaced>>
  BY AddMockShape DEF IInv
<1>2. Types /\ Values /\ \A j \in DOMAIN requests : Stored(j) /\ Routed(j)
  BY DEF IInv
<1>3. Types'
  BY <1>1, <1>2, Domains, GatewayOK DEF Types
<1>4. Values'
  <2> SUFFICES ASSUME NEW m \in DOMAIN state', NEW r \in Resources, state'[m][r] # Nil
               PROVE  (Place(state[m][r]) = <<m, r>> /\ Valued(state[m][r]))'
    BY DEF Values
  <2>1. m \in DOMAIN state
    BY <1>1 DEF EmptyState
  <2> QED BY <1>1, <1>2, <2>1 DEF Values, Place, Path, Valued, Method
<1>5. ASSUME NEW j \in DOMAIN requests
      PROVE  Stored(j)'
  <2>1. Stored(j)
    BY <1>2
  <2>2. Progressed(j)'
    BY <1>1, <2>1 DEF Stored, Progressed, Posting, Answered, Method, Canned, Path
  <2>3. Holding(j)'
    <3>1. Posting(j) => requests[j].mock \in DOMAIN state
      BY <2>1 DEF Stored, Progressed, Posting
    <3> QED BY <1>1, <2>1, <3>1 DEF Stored, Holding, Posting, Listed, Valued, IsList,
                                   Place, Content, Method, Canned, Path
  <2>4. Once(j)' /\ Placed(j)' /\ Behind(j)'
    BY <1>1, <2>1
       DEF Stored, Once, Placed, Behind, Listed, Posting, Method, Canned, Path
  <2>5. Raised(j)'
    <3>1. requests[j].size < Len(mocks) => requests[j].size < Len(mocks')
      <4>1. requests[j].size \in Nat /\ Len(mocks) \in Nat
        BY <1>2, Domains, Fields
      <4>2. Len(mocks') \in Nat
        BY <1>3 DEF Types
      <4> QED BY <1>1, <4>1, <4>2
    <3> QED BY <1>1, <2>1, <3>1 DEF Stored, Raised, Answered, IsList, Place, Method, Path
  <2> QED BY <2>2, <2>3, <2>4, <2>5 DEF Stored
<1>6. ASSUME NEW j \in DOMAIN requests
      PROVE  Routed(j)'
  <2>1. Routed(j) /\ (requests[j].mock # Nil => requests[j].mock \in DOMAIN state)
    BY <1>2 DEF Stored, Progressed
  <2>2. /\ requests[j].size \in Nat /\ requests[j].at \in Nat /\ Len(mocks') \in Nat
        /\ DOMAIN mocks = 1..Len(mocks) /\ Len(mocks) \in Nat
        /\ DOMAIN mocks' = 1..Len(mocks')
    BY <1>1, <1>2, Domains, Fields
  \* What was passed still is, as long as it was in the dictionary.
  <2>3. ASSUME NEW n \in Int, n <= Len(mocks) + 1, Passed(j, n)
        PROVE  Passed(j, n)'
    <3>1. \A i \in DOMAIN mocks' : i < n => i \in DOMAIN mocks
      BY <2>2, <2>3
    <3> QED BY <1>1, <2>3, <3>1 DEF Passed, Path
  <2>4. requests[j].size <= Len(mocks')
    BY <1>1, <2>1, <2>2 DEF Routed
  <2>5. requests[j].pc = "look" =>
          /\ 1 <= requests[j].at /\ requests[j].at <= requests[j].size + 1
          /\ Passed(j, requests[j].at)'
    <3>1. PICK n \in Int : n = requests[j].at /\ n = requests'[j].at
      BY <1>1, <2>2
    <3>2. requests[j].pc = "look" =>
            /\ 1 <= n /\ n <= requests[j].size + 1 /\ n <= Len(mocks) + 1
            /\ Passed(j, n)
      BY <2>1, <2>2, <3>1 DEF Routed
    <3>3. requests[j].pc = "look" => Passed(j, n)'
      BY <2>3, <3>2
    <3> QED BY <3>1, <3>2, <3>3 DEF Passed
  <2>6. requests[j].pc = "missing" => Passed(j, requests[j].size + 1)'
    <3>1. PICK n \in Int : n = requests[j].size + 1 /\ n = requests'[j].size + 1
      BY <1>1, <2>2
    <3>2. requests[j].pc = "missing" => n <= Len(mocks) + 1 /\ Passed(j, n)
      BY <2>1, <2>2, <3>1 DEF Routed
    <3>3. requests[j].pc = "missing" => Passed(j, n)'
      BY <2>3, <3>2
    <3> QED BY <3>1, <3>3 DEF Passed
  <2>7. requests[j].mock # Nil =>
          (\E i \in DOMAIN mocks :
             /\ Base(i) = base_path[requests[j].mock] /\ Base(i) \in Prefixes[Path(j)]
             /\ Passed(j, i))'
    <3> SUFFICES ASSUME requests[j].mock # Nil
                 PROVE  (\E i \in DOMAIN mocks :
                           /\ Base(i) = base_path[requests[j].mock]
                           /\ Base(i) \in Prefixes[Path(j)] /\ Passed(j, i))'
      OBVIOUS
    <3>1. PICK i \in DOMAIN mocks :
            /\ Base(i) = base_path[requests[j].mock] /\ Base(i) \in Prefixes[Path(j)]
            /\ Passed(j, i)
      BY <2>1 DEF Routed
    <3>2. Passed(j, i)' /\ Base(i)' = Base(i) /\ i \in DOMAIN mocks'
      BY <1>1, <2>2, <2>3, <3>1
    <3>3. base_path'[requests'[j].mock] = base_path[requests[j].mock] /\ Path(j)' = Path(j)
      BY <1>1, <2>1 DEF Path
    <3> QED BY <3>1, <3>2, <3>3
  <2>8. (\A l \in requests[j].before :
           \E i \in DOMAIN mocks : i <= requests[j].size /\ Base(i) \in Prefixes[Path(l)])'
    <3> SUFFICES ASSUME NEW l \in requests[j].before
                 PROVE  (\E i \in DOMAIN mocks :
                           i <= requests[j].size /\ Base(i) \in Prefixes[Path(l)])'
      BY <1>1
    <3>1. PICK i \in DOMAIN mocks : i <= requests[j].size /\ Base(i) \in Prefixes[Path(l)]
      BY <2>1 DEF Routed
    <3>2. i \in DOMAIN mocks' /\ Base(i)' = Base(i) /\ Path(l)' = Path(l)
      BY <1>1 DEF Path
    <3> QED BY <1>1, <3>1, <3>2
  <2> QED BY <1>1, <2>4, <2>5, <2>6, <2>7, <2>8 DEF Routed
<1> QED BY <1>1, <1>3, <1>4, <1>5, <1>6 DEF IInv

LEMMA RespondRoutes ==
  ASSUME IInv, NEW k \in DOMAIN requests, requests[k].pc # "look",
         NEW pc, pc \notin {"look", "missing"}, NEW held, NEW id,
         After(k, pc, requests[k].at, requests[k].mock, held, id),
         UNCHANGED registry
  PROVE  \A j \in DOMAIN requests' : Routed(j)'
<1>1. /\ UNCHANGED <<mocks, base_path>> /\ DOMAIN requests' = DOMAIN requests
      /\ requests'[k].pc = pc
      /\ \A j \in DOMAIN requests :
           /\ requests'[j].call = requests[j].call /\ requests'[j].size = requests[j].size
           /\ requests'[j].before = requests[j].before /\ requests'[j].at = requests[j].at
           /\ requests'[j].mock = requests[j].mock
           /\ j # k => requests'[j].pc = requests[j].pc
  BY DEF After, registry
<1>2. ASSUME NEW j \in DOMAIN requests
      PROVE  Routed(j)'
  <2>1. Routed(j) /\ requests[j].before \subseteq DOMAIN requests
    BY DEF IInv, Stored, Progressed, Answered
  <2> QED BY <1>1, <2>1 DEF Routed, Passed, Base, Path
<1> QED BY <1>1, <1>2

LEMMA LookRoutes ==
  ASSUME IInv, NEW k \in DOMAIN requests, requests[k].pc = "look", NEW pc, NEW at, NEW mock,
         After(k, pc, at, mock, requests[k].held, requests[k].id), UNCHANGED registry,
         \/ pc = "look" /\ 1 <= at /\ at <= requests[k].size + 1 /\ Passed(k, at) /\ mock = Nil
         \/ pc = "missing" /\ Passed(k, requests[k].size + 1) /\ mock = Nil
         \/ pc = "raised" /\ mock = Nil
         \/ /\ pc = "respond"
            /\ \E i \in DOMAIN mocks :
                 mock = mocks[i] /\ Base(i) \in Prefixes[Path(k)] /\ Passed(k, i)
  PROVE  \A j \in DOMAIN requests' : Routed(j)'
<1>1. /\ UNCHANGED <<mocks, base_path>> /\ DOMAIN requests' = DOMAIN requests
      /\ requests'[k].pc = pc /\ requests'[k].at = at /\ requests'[k].mock = mock
      /\ \A j \in DOMAIN requests :
           /\ requests'[j].call = requests[j].call /\ requests'[j].size = requests[j].size
           /\ requests'[j].before = requests[j].before
           /\ j # k => requests'[j] = requests[j]
  BY DEF After, registry
<1>2. ASSUME NEW j \in DOMAIN requests
      PROVE  Routed(j)'
  <2>1. Routed(j) /\ requests[j].before \subseteq DOMAIN requests
    BY DEF IInv, Stored, Progressed, Answered
  <2>2. CASE j = k
    BY <1>1, <2>1, <2>2 DEF Routed, Passed, Base, Path
  <2>3. CASE j # k
    BY <1>1, <2>1, <2>3 DEF Routed, Passed, Base, Path
  <2> QED BY <2>2, <2>3
<1> QED BY <1>1, <1>2

LEMMA DispatchKeeps ==
  ASSUME IInv, NEW k \in DOMAIN requests, Dispatch(k)
  PROVE  IInv'
<1> DEFINE at == requests[k].at
           mock == requests[k].mock
<1>1. /\ requests \in Seq(Request) /\ Stored(k) /\ Routed(k) /\ requests[k] \in Request
      /\ requests[k].pc = "look" /\ mock = Nil /\ at \in Nat /\ Nil \in Nat
      /\ UNCHANGED <<registry, state, lists, displaced>>
  BY Domains DEF IInv, Types, Dispatch, SizeChanged, Skip, Match, NoneMatched, Looking, At,
     Stored, Progressed, Request, Nil
<1>2. /\ 1 <= at /\ at <= requests[k].size + 1 /\ Passed(k, at)
      /\ requests[k].size <= Len(mocks) /\ requests[k].size \in Nat /\ Len(mocks) \in Nat
      /\ DOMAIN mocks = 1..Len(mocks)
  BY <1>1, Domains DEF IInv, Routed, Request
<1>3. ASSUME NEW pc \in {"look", "respond", "missing", "raised"}, NEW a \in Nat, NEW m \in Nat,
             pc = "respond" => m \in DOMAIN state, pc # "respond" => m = Nil,
             pc = "raised" => requests[k].size < Len(mocks),
             After(k, pc, a, m, requests[k].held, requests[k].id),
             \/ pc = "look" /\ 1 <= a /\ a <= requests[k].size + 1 /\ Passed(k, a) /\ m = Nil
             \/ pc = "missing" /\ Passed(k, requests[k].size + 1) /\ m = Nil
             \/ pc = "raised" /\ m = Nil
             \/ /\ pc = "respond"
                /\ \E i \in DOMAIN mocks :
                     m = mocks[i] /\ Base(i) \in Prefixes[Path(k)] /\ Passed(k, i)
      PROVE  IInv'
  <2>1. Types' /\ Values' /\ \A j \in DOMAIN requests' : Stored(j)'
    BY <1>1, <1>3, LookKeeps
  <2>2. \A j \in DOMAIN requests' : Routed(j)'
    BY <1>1, <1>3, LookRoutes
  <2> QED BY <2>1, <2>2 DEF IInv
<1>4. CASE SizeChanged(k)
  <2>1. After(k, "raised", at, mock, requests[k].held, requests[k].id)
    BY <1>1, <1>4, GotoShape DEF SizeChanged, Pcs
  <2>2. requests[k].size < Len(mocks)
    BY <1>2, <1>4 DEF SizeChanged
  <2> QED BY <1>1, <1>3, <2>1, <2>2
<1>5. CASE NoneMatched(k)
  <2>1. After(k, "missing", at, mock, requests[k].held, requests[k].id)
    BY <1>1, <1>5, GotoShape DEF NoneMatched, Pcs
  <2>2. Passed(k, requests[k].size + 1)
    BY <1>1, <1>2, <1>5 DEF NoneMatched, Looking, Passed
  <2> QED BY <1>1, <1>3, <2>1, <2>2
<1>6. CASE Skip(k)
  <2>1. PICK a \in Nat : a = at + 1
    BY <1>1
  <2>2. After(k, "look", a, mock, requests[k].held, requests[k].id)
    BY <1>1, <1>6, <2>1, AtShape DEF Skip
  <2>3. Passed(k, a)
    BY <1>1, <1>2, <1>6, <2>1 DEF Skip, Looking, Matches, Passed, Base
  <2>4. 1 <= a /\ a <= requests[k].size + 1
    BY <1>1, <1>2, <1>6, <2>1 DEF Skip, Looking
  <2> QED BY <1>1, <1>3, <2>2, <2>3, <2>4
<1>7. CASE Match(k)
  <2>1. at \in DOMAIN mocks
    BY <1>1, <1>2, <1>7 DEF Match
  <2>2. PICK m \in DOMAIN state : m = mocks[at] /\ m \in Nat
    BY <2>1, Domains DEF IInv
  <2>3. After(k, "respond", at, m, requests[k].held, requests[k].id)
    BY <1>1, <1>7, <2>2, FoundShape DEF Match, Pcs
  <2>4. m = mocks[at] /\ Base(at) \in Prefixes[Path(k)] /\ Passed(k, at)
    BY <1>2, <1>7, <2>2 DEF Match, Matches, Base
  <2> QED BY <1>1, <1>3, <2>1, <2>2, <2>3, <2>4
<1> QED BY <1>4, <1>5, <1>6, <1>7 DEF Dispatch

LEMMA RespondKeeps ==
  ASSUME IInv, NEW k \in DOMAIN requests, Respond(k)
  PROVE  IInv'
<1> DEFINE at == requests[k].at
           mock == requests[k].mock
<1>1. /\ requests \in Seq(Request) /\ Stored(k) /\ requests[k] \in Request
      /\ UNCHANGED registry /\ requests[k].pc \in {"respond", "append", "count"}
      /\ \A v \in DOMAIN requests : v \in Nat
  BY Domains DEF IInv, Types, Respond, Read, SetDefault, AppendBody, Count, Delete, Put,
     Responds, At, Ids
<1>2. ASSUME Types' /\ Values' /\ (\A j \in DOMAIN requests' : Stored(j)'),
             NEW pc \in {"append", "count", "done", "raised"}, NEW held, NEW id,
             After(k, pc, at, mock, held, id)
      PROVE  IInv'
  <2>1. \A j \in DOMAIN requests' : Routed(j)'
    BY <1>1, <1>2, RespondRoutes
  <2> QED BY <1>2, <2>1 DEF IInv
<1>3. ASSUME NEW pc \in {"done", "raised"},
             pc = "done" =>
               requests[k].pc = "respond" /\ (Canned(k) \/ Method(k) = "GET"),
             pc = "raised" =>
               /\ requests[k].pc \in {"append", "count"}
               /\ \/ k \in displaced
                  \/ \E j \in Answered : /\ Method(j) = "PUT" /\ ~IsList(j)
                                         /\ requests[k].mock # Nil /\ Place(j) = Place(k),
             Goto(k, pc), UNCHANGED <<registry, state, lists, displaced>>
      PROVE  IInv'
  <2>1. After(k, pc, at, mock, requests[k].held, requests[k].id)
    BY <1>1, <1>3, GotoShape DEF Pcs
  <2>2. Types' /\ Values' /\ \A j \in DOMAIN requests' : Stored(j)'
    BY <1>3, <2>1, EndKeeps
  <2> QED BY <1>2, <2>1, <2>2
<1>4. CASE Read(k)
  BY <1>3, <1>4 DEF Read, At
<1>5. CASE SetDefault(k)
  <2>1. PICK v : /\ v = (IF Content(k) = Nil THEN k ELSE Content(k)) /\ Store(k, v)
                 /\ Set(k, [requests[k] EXCEPT !.held = v, !.pc = "append"])
    BY <1>5 DEF SetDefault
  <2>2. Content(k) \in Nat
    <3>1. mock \in DOMAIN state /\ Resource[Path(k)] \in Resources
      BY <1>1, <1>5, PathOK DEF IInv, SetDefault, Responds, At, Stored, Progressed
    <3> QED BY <1>1, <3>1, Domains DEF IInv, Content, Nil
  <2>3. v \in Nat
    BY <1>1, <2>1, <2>2
  <2>4. After(k, "append", at, mock, v, requests[k].id)
    BY <1>1, <2>1, <2>3, HeldShape DEF Pcs
  <2>5. Types' /\ Values' /\ \A j \in DOMAIN requests' : Stored(j)'
    BY <1>5, <2>1, <2>4, PostKeeps DEF SetDefault
  <2> QED BY <1>2, <2>4, <2>5
<1>6. ASSUME NEW v \in DOMAIN requests, Valued(v), ~IsList(v), Place(v) = Place(k),
             requests[k].mock # Nil
      PROVE  \E j \in Answered : /\ Method(j) = "PUT" /\ ~IsList(j)
                                 /\ requests[k].mock # Nil /\ Place(j) = Place(k)
  BY <1>6 DEF Valued, IsList, Answered
<1>7. CASE AppendBody(k)
  <2>1. /\ requests[k].pc = "append" /\ requests[k].held \in DOMAIN requests
        /\ Valued(requests[k].held) /\ Place(requests[k].held) = Place(k)
        /\ requests[k].mock # Nil
    BY <1>1, <1>7 DEF AppendBody, At, Stored, Progressed, Holding
  <2>2. CASE IsList(requests[k].held)
    <3>1. /\ lists' = [lists EXCEPT ![requests[k].held] = Append(@, k)]
          /\ Goto(k, "count") /\ UNCHANGED <<registry, state, displaced>>
      BY <1>7, <2>2 DEF AppendBody
    <3>2. After(k, "count", at, mock, requests[k].held, requests[k].id)
      BY <1>1, <3>1, GotoShape DEF Pcs
    <3>3. Types' /\ Values' /\ \A j \in DOMAIN requests' : Stored(j)'
      BY <2>1, <2>2, <3>1, <3>2, AppendKeeps
    <3> QED BY <1>2, <3>2, <3>3
  <2>3. CASE ~IsList(requests[k].held)
    BY <1>3, <1>6, <1>7, <2>1, <2>3 DEF AppendBody
  <2> QED BY <2>2, <2>3
<1>8. CASE Count(k)
  <2>1. /\ requests[k].pc = "count" /\ Posting(k) /\ mock # Nil /\ mock \in DOMAIN state
        /\ Resource[Path(k)] \in Resources
        /\ UNCHANGED <<registry, state, lists, displaced>>
    BY <1>1, <1>8, PathOK DEF IInv, Count, At, Stored, Progressed
  <2>2. /\ Content(k) # Nil => /\ Content(k) \in DOMAIN requests /\ Valued(Content(k))
                               /\ Place(Content(k)) = Place(k)
        /\ Content(k) = Nil => k \in displaced
    BY <1>1, <2>1, Domains DEF IInv, Values, Content, Place, Stored, Holding
  <2>3. CASE Goto(k, "raised") /\ (Content(k) = Nil \/ ~IsList(Content(k)))
    <3>1. \/ k \in displaced
          \/ \E j \in Answered : /\ Method(j) = "PUT" /\ ~IsList(j)
                                 /\ requests[k].mock # Nil /\ Place(j) = Place(k)
      BY <1>6, <2>1, <2>2, <2>3
    <3> QED BY <1>3, <2>1, <2>3, <3>1
  <2>4. CASE Content(k) # Nil /\ Set(k, [requests[k] EXCEPT !.pc = "done",
                           !.id = IF IsList(Content(k)) THEN Len(lists[Content(k)]) ELSE 0])
    <3>1. Len(lists[Content(k)]) \in Nat
      BY <2>2, <2>4, Domains DEF IInv, Types
    <3>2. PICK id \in Nat : id = IF IsList(Content(k)) THEN Len(lists[Content(k)]) ELSE 0
      BY <3>1
    <3>3. After(k, "done", at, mock, requests[k].held, id)
      BY <1>1, <2>4, <3>2, IdShape DEF Pcs
    <3>4. Types' /\ Values' /\ \A j \in DOMAIN requests' : Stored(j)'
      BY <2>1, <3>2, <3>3, CountKeeps
    <3> QED BY <1>2, <3>3, <3>4
  <2> QED BY <1>8, <2>3, <2>4 DEF Count
<1>9. CASE Delete(k) \/ Put(k)
  <2>1. PICK v \in {Nil, k} : Store(k, v) /\ (v = k => Method(k) = "PUT")
    BY <1>1, <1>9, Domains DEF IInv, Delete, Put, Responds
  <2>2. /\ requests[k].pc = "respond" /\ Method(k) \in {"PUT", "DELETE"} /\ Displace(k)
        /\ Goto(k, "done") /\ UNCHANGED <<registry, lists>>
    BY <1>9 DEF Delete, Put, Responds, At
  <2>3. After(k, "done", at, mock, requests[k].held, requests[k].id)
    BY <1>1, <2>2, GotoShape DEF Pcs
  <2>4. Types' /\ Values' /\ \A j \in DOMAIN requests' : Stored(j)'
    BY <2>1, <2>2, <2>3, DisplaceKeeps
  <2> QED BY <1>2, <2>3, <2>4
<1> QED BY <1>4, <1>5, <1>7, <1>8, <1>9 DEF Respond

-------------------------------------------------------------------------------
(* The theorems.                                                           *)

LEMMA InitGood ==
  ASSUME Init
  PROVE  IInv
<1>1. /\ mocks = <<>> /\ base_path = <<>> /\ state = <<>> /\ requests = <<>>
      /\ displaced = {} /\ lists = [k \in Ids |-> <<>>]
  BY DEF Init
<1>2. Types
  BY <1>1, GatewayOK DEF Types
<1>3. DOMAIN requests = {} /\ DOMAIN state = {}
  BY <1>1
<1> QED BY <1>2, <1>3 DEF IInv, Values

LEMMA Step ==
  ASSUME IInv, [Next]_vars
  PROVE  IInv'
<1>1. ASSUME NEW k \in Ids, Dispatch(k) \/ Respond(k)
      PROVE  IInv'
  <2>1. k \in DOMAIN requests
    BY <1>1 DEF Dispatch, Respond, SizeChanged, Skip, Match, NoneMatched, Looking, Read,
       SetDefault, AppendBody, Count, Delete, Put, Responds, At
  <2> QED BY <1>1, <2>1, DispatchKeeps, RespondKeeps
<1>2. CASE UNCHANGED vars
  <2>1. UNCHANGED <<mocks, base_path, state, lists, requests, displaced>>
    BY <1>2 DEF vars, registry
  <2>2. Types' /\ Values'
    BY <2>1 DEF IInv, Types, Values, Valued, Place, Method, Path
  <2>3. ASSUME NEW k \in DOMAIN requests
        PROVE  Stored(k)'
    <3>1. Stored(k)
      BY DEF IInv
    <3>2. Progressed(k)' /\ Holding(k)'
      BY <2>1, <3>1 DEF Stored, Progressed, Holding, Posting, Listed, Valued, IsList, Place,
         Content, Method, Canned, Path, Answered
    <3>3. Once(k)' /\ Placed(k)'
      BY <2>1, <3>1 DEF Stored, Once, Placed, Listed, Posting, Method, Canned, Path
    <3>4. Behind(k)'
      BY <2>1, <3>1 DEF Stored, Behind, Listed, Posting, Method, Canned, Path
    <3>5. Raised(k)'
      BY <2>1, <3>1 DEF Stored, Raised, IsList, Place, Method, Path, Answered
    <3> QED BY <3>2, <3>3, <3>4, <3>5 DEF Stored
  <2>4. ASSUME NEW k \in DOMAIN requests
        PROVE  Routed(k)'
    BY <2>1 DEF IInv, Routed, Passed, Base, Path
  <2> QED BY <2>1, <2>2, <2>3, <2>4 DEF IInv
<1> QED BY <1>1, <1>2, AddMockKeeps, ArriveKeeps DEF Next

LEMMA Invariant == Spec => []IInv
BY InitGood, Step, PTL DEF Spec

\* A resource of a mock has a value that a request for that very resource gave to
\* that very mock: mocks share no state (StatefulMock, field(default_factory=dict)).
THEOREM TypeCorrect == Spec => []TypeOK
<1>1. IInv => TypeOK
  BY DEF IInv, Types, Values, TypeOK
<1> QED BY <1>1, Invariant, PTL

\* What a POST that was answered knows of its place in the resource.
LEMMA PostedPlace ==
  ASSUME IInv, NEW k \in Posted
  PROVE  /\ k \in DOMAIN requests /\ k \notin displaced /\ Listed(k)
         /\ requests[k].held \in Ids /\ Content(k) = requests[k].held
         /\ Content(k) # Nil /\ IsList(Content(k))
         /\ \E i \in DOMAIN lists[Content(k)] :
              /\ 1 <= i /\ i <= requests[k].id /\ lists[Content(k)][i] = k
              /\ \A j \in DOMAIN lists[Content(k)] : lists[Content(k)][j] = k => j = i
<1>1. /\ k \in DOMAIN requests /\ k \notin displaced /\ requests[k].pc = "done"
      /\ Posting(k) /\ Listed(k)
  BY DEF Posted, Answered, Listed, Posting
<1>2. Types /\ Holding(k) /\ Once(k) /\ Placed(k)
  BY <1>1 DEF IInv, Stored
<1>3. /\ requests[k].held \in Ids /\ Content(k) = requests[k].held
      /\ Content(k) # Nil /\ IsList(Content(k))
  BY <1>1, <1>2, Domains DEF Holding
<1>4. PICK i \in DOMAIN lists[requests[k].held] :
        lists[requests[k].held][i] = k /\ i <= requests[k].id
  BY <1>1, <1>2 DEF Placed
<1>5. 1 <= i
  BY <1>2, <1>3, <1>4 DEF Types
<1> QED BY <1>1, <1>2, <1>3, <1>4, <1>5 DEF Once

\* However many requests respond() is answering at once, a POST that was answered
\* is in its resource, once, no further than its id, until it is displaced.
THEOREM PostsAreKept == Spec => []CreatedIsKept
<1>1. ASSUME IInv
      PROVE  CreatedIsKept
  <2>1. ASSUME NEW k \in Posted
        PROVE  /\ Content(k) # Nil /\ IsList(Content(k))
               /\ \E i \in 1..requests[k].id :
                    {j \in DOMAIN lists[Content(k)] : lists[Content(k)][j] = k} = {i}
    <3>1. PICK i \in DOMAIN lists[Content(k)] :
            /\ 1 <= i /\ i <= requests[k].id /\ lists[Content(k)][i] = k
            /\ \A j \in DOMAIN lists[Content(k)] : lists[Content(k)][j] = k => j = i
      BY <1>1, PostedPlace
    <3>2. {j \in DOMAIN lists[Content(k)] : lists[Content(k)][j] = k} = {i}
      BY <3>1
    <3>3. i \in 1..requests[k].id
      <4>1. requests[k].held \in Ids /\ Content(k) = requests[k].held
        BY <1>1, PostedPlace
      <4>2. i \in Nat /\ requests[k].id \in Nat
        <5>1. Types /\ k \in DOMAIN requests
          BY <1>1, PostedPlace DEF IInv
        <5>2. requests[k].id \in Nat
          BY <5>1, Domains, Fields
        <5>3. DOMAIN lists[Content(k)] \subseteq Nat
          BY <4>1, <5>1 DEF Types
        <5> QED BY <5>2, <5>3
      <4> QED BY <3>1, <4>2
    <3> QED BY <1>1, <3>2, <3>3, PostedPlace
  <2> QED BY <2>1 DEF CreatedIsKept
<1> QED BY <1>1, Invariant, PTL

\* respond(): a POST that came in after another was answered gets a larger id.
THEOREM IdsGrow == Spec => []LaterIdsAreLarger
<1>1. ASSUME IInv
      PROVE  LaterIdsAreLarger
  <2>1. ASSUME NEW k \in Posted, NEW j \in Posted, j \in requests[k].before,
               Place(j) = Place(k)
        PROVE  requests[j].id < requests[k].id
    <3>1. Content(j) = Content(k)
      BY <2>1 DEF Place, Content
    <3>2. PICK i \in DOMAIN lists[Content(k)] :
            i <= requests[k].id /\ lists[Content(k)][i] = k
      BY <1>1, PostedPlace
    <3>3. /\ requests[j].held = Content(k) /\ Listed(j) /\ j \notin displaced
          /\ Content(k) \in Ids
      BY <1>1, <3>1, PostedPlace
    <3>4. requests[j].id < i
      BY <1>1, <2>1, <3>2, <3>3, PostedPlace DEF IInv, Stored, Behind
    <3>5. requests[j].id \in Nat /\ requests[k].id \in Nat /\ i \in Nat
      <4>1. Types /\ k \in DOMAIN requests /\ j \in DOMAIN requests
        BY <1>1, PostedPlace DEF IInv
      <4>2. requests[j].id \in Nat /\ requests[k].id \in Nat
        BY <4>1, Domains, Fields
      <4>3. DOMAIN lists[Content(k)] \subseteq Nat
        BY <3>3, <4>1 DEF Types
      <4> QED BY <4>2, <4>3
    <3> QED BY <3>2, <3>4, <3>5
  <2> QED BY <2>1 DEF LaterIdsAreLarger
<1> QED BY <1>1, Invariant, PTL

\* Only what the header of the property lists makes dispatch() or respond() raise.
THEOREM RaisesExplained == Spec => []RaisesForAReason
<1>1. IInv => RaisesForAReason
  BY DEF IInv, Stored, Raised, RaisesForAReason, At
<1> QED BY <1>1, Invariant, PTL

\* dispatch(): the prefix that answers for a path stays the same for ever.
THEOREM RoutesStay == Spec => []RoutingIsStable
<1>1. ASSUME IInv
      PROVE  RoutingIsStable
  <2>1. ASSUME NEW k \in DOMAIN requests, NEW j \in DOMAIN requests,
               requests[k].mock # Nil, Path(k) = Path(j)
        PROVE  /\ requests[j].mock # Nil =>
                    base_path[requests[j].mock] = base_path[requests[k].mock]
               /\ At(j, "missing") => k \notin requests[j].before
    <3>1. Routed(k) /\ Routed(j) /\ requests[j].size \in Nat /\ DOMAIN mocks \subseteq Nat
      BY <1>1, Domains, Fields DEF IInv
    <3>2. ASSUME requests[j].mock # Nil
          PROVE  base_path[requests[j].mock] = base_path[requests[k].mock]
      <4>1. PICK i \in DOMAIN mocks :
              /\ Base(i) = base_path[requests[k].mock] /\ Base(i) \in Prefixes[Path(k)]
              /\ Passed(k, i)
        BY <2>1, <3>1 DEF Routed
      <4>2. PICK l \in DOMAIN mocks :
              /\ Base(l) = base_path[requests[j].mock] /\ Base(l) \in Prefixes[Path(j)]
              /\ Passed(j, l)
        BY <3>1, <3>2 DEF Routed
      <4>3. ~(i < l) /\ ~(l < i)
        BY <2>1, <4>1, <4>2 DEF Passed
      <4>4. i = l
        BY <3>1, <4>3
      <4> QED BY <4>1, <4>2, <4>4
    <3>3. ASSUME At(j, "missing"), k \in requests[j].before
          PROVE  FALSE
      <4>1. Passed(j, requests[j].size + 1)
        BY <3>1, <3>3 DEF Routed, At
      <4>2. PICK i \in DOMAIN mocks : i <= requests[j].size /\ Base(i) \in Prefixes[Path(k)]
        BY <3>1, <3>3 DEF Routed
      <4> QED BY <2>1, <3>1, <4>1, <4>2 DEF Passed
    <3> QED BY <3>2, <3>3
  <2> QED BY <2>1 DEF RoutingIsStable
<1> QED BY <1>1, Invariant, PTL
===============================================================================
