--------------------------- MODULE AuthServiceProofs ---------------------------
(* Theorems about AuthService. *)
EXTENDS AuthService, TLAPS

-------------------------------------------------------------------------------
(* Padding.                                                                *)

\* A part is a multiple of four characters and two or three, never one.
LEMMA Lengths ==
  ASSUME NEW n \in Nat
  PROVE  \E q \in Nat : \/ n = 3 * q     /\ Encoded(n) = 4 * q     /\ Stripped(n) = 4 * q
                        \/ n = 3 * q + 1 /\ Encoded(n) = 4 * q + 4 /\ Stripped(n) = 4 * q + 2
                        \/ n = 3 * q + 2 /\ Encoded(n) = 4 * q + 4 /\ Stripped(n) = 4 * q + 3
<1> DEFINE q == n \div 3
<1>1. q \in Nat /\ (n = 3 * q \/ n = 3 * q + 1 \/ n = 3 * q + 2)
  OBVIOUS
<1> QED BY <1>1 DEF Encoded, Stripped

\* _b64url_decode() restores what _b64url_encode() has stripped, whatever the length.
THEOREM DecodesWhatEncodes ==
  ASSUME NEW n \in Nat
  PROVE  Stripped(n) + Padding(Stripped(n)) = Encoded(n)
<1>1. PICK q \in Nat : \/ n = 3 * q     /\ Encoded(n) = 4 * q     /\ Stripped(n) = 4 * q
                       \/ n = 3 * q + 1 /\ Encoded(n) = 4 * q + 4 /\ Stripped(n) = 4 * q + 2
                       \/ n = 3 * q + 2 /\ Encoded(n) = 4 * q + 4 /\ Stripped(n) = 4 * q + 3
  BY Lengths
<1>2. (4 * q) % 4 = 0 /\ (4 * q + 2) % 4 = 2 /\ (4 * q + 3) % 4 = 3
  OBVIOUS
<1> QED BY <1>1, <1>2 DEF Padding

-------------------------------------------------------------------------------
(* Types.                                                                  *)

\* What a call can be.
LEMMA CallShapes ==
  ASSUME NEW f \in Call
  PROVE  \/ f = Idle /\ f.pc = "idle"
         \/ f.pc = "signed" /\ f # Idle /\ f.token \in 1..MaxTokens
         \/ f.pc = "reset" /\ f # Idle /\ f.of \in Instances /\ f.before \in Before
BY DEF Call, Idle

LEMMA NewCalls ==
  /\ Idle \in Call /\ Idle.pc = "idle"
  /\ \A k \in 1..MaxTokens : [pc |-> "signed", token |-> k] \in Call
  /\ \A i \in Instances, b \in Before : [pc |-> "reset", of |-> i, before |-> b] \in Call
BY DEF Call, Idle

LEMMA LongerLogs ==
  ASSUME NEW s, NEW m \in Nat, NEW n \in Nat, m <= n, s \in Seq(1..m)
  PROVE  s \in Seq(1..n)
OBVIOUS

\* What is finished, and the ranges the other parts of TypeOK need.
LEMMA FinishedType ==
  ASSUME TypeOK, NEW i \in Instances
  PROVE  Finished(i) \in Before /\ Finished(i).users = added
         /\ Finished(i).tokens \subseteq Returned /\ Returned \subseteq DOMAIN tokens
         /\ DOMAIN tokens = 1..Len(tokens) /\ Len(tokens) \in Nat
<1>1. /\ tokens \in Seq(Token) /\ Len(tokens) <= MaxTokens /\ added \in 0..MaxUsers
      /\ Len(tokens) \in Nat /\ DOMAIN tokens = 1..Len(tokens)
  BY DEF TypeOK
<1>2. Returned \subseteq DOMAIN tokens
  BY DEF Returned
<1>3. 1..Len(tokens) \subseteq 1..MaxTokens
  BY <1>1, AuthOK
<1> HIDE DEF Returned
<1> QED BY <1>1, <1>2, <1>3 DEF Finished, Before

LEMMA TypeInit == Init => TypeOK
<1> SUFFICES ASSUME Init PROVE TypeOK
  OBVIOUS
<1>1. <<>> \in Seq(Token) /\ Len(<<>>) = 0 /\ DOMAIN <<>> = {} /\ <<>> \in Seq({})
  OBVIOUS
<1>2. sec \in 0..MaxSec /\ frac \in 0..Ticks - 1 /\ added \in 0..MaxUsers
  BY AuthOK DEF Init
<1>3. users \in [Instances -> [Names -> 0..added]]
  BY DEF Init, Nobody
<1>4. /\ issued \in [Instances -> Seq(DOMAIN tokens)]
      /\ \A i \in Instances : DOMAIN issued[i] = {}
  BY <1>1 DEF Init
<1>5. calls \in [Callers -> Call] /\ \A c \in Callers : calls[c] = Idle /\ calls[c].pc = "idle"
  BY NewCalls DEF Init
<1>6. stale \in [Instances -> Before] /\ cleared \in [Instances -> SUBSET (DOMAIN tokens)]
  BY AuthOK DEF Init, Before
<1>7. verdict \in Check /\ verdict.token <= Len(tokens)
  BY <1>1 DEF Init, Check, NoCheck
<1> QED BY <1>1, <1>2, <1>3, <1>4, <1>5, <1>6, <1>7, AuthOK DEF TypeOK, Init

\* No two calls have the same token or the same lock.
Apart(f) == \A c, d \in Callers : c # d /\ f[c] # Idle /\ f[c].pc = f[d].pc =>
              IF f[c].pc = "signed" THEN f[c].token # f[d].token ELSE f[c].of # f[d].of

LEMMA ApartEnds ==
  ASSUME NEW f \in [Callers -> Call], Apart(f), NEW c \in Callers
  PROVE  Apart([f EXCEPT ![c] = Idle])
<1> DEFINE g == [f EXCEPT ![c] = Idle]
<1>1. g[c] = Idle /\ \A d \in Callers : d # c => g[d] = f[d]
  OBVIOUS
<1>2. \A d \in Callers : f[d] # Idle => f[d].pc # Idle.pc
  BY CallShapes, NewCalls
<1> HIDE DEF g
<1>3. Apart(g)
  <2> SUFFICES ASSUME NEW d \in Callers, NEW e \in Callers, d # e, g[d] # Idle, g[d].pc = g[e].pc
               PROVE  IF g[d].pc = "signed" THEN g[d].token # g[e].token ELSE g[d].of # g[e].of
    BY DEF Apart
  <2>1. d # c /\ e # c
    BY <1>1, <1>2
  <2> QED BY <1>1, <2>1 DEF Apart
<1> QED BY <1>3 DEF g

LEMMA ApartBegins ==
  ASSUME NEW f \in [Callers -> Call], Apart(f), NEW c \in Callers, NEW x \in Call, x # Idle,
         \A d \in Callers : d # c /\ f[d].pc = x.pc =>
           IF x.pc = "signed" THEN f[d].token # x.token ELSE f[d].of # x.of
  PROVE  Apart([f EXCEPT ![c] = x])
<1> DEFINE g == [f EXCEPT ![c] = x]
<1>1. g[c] = x /\ \A d \in Callers : d # c => g[d] = f[d]
  OBVIOUS
<1> HIDE DEF g
<1>2. Apart(g)
  <2> SUFFICES ASSUME NEW d \in Callers, NEW e \in Callers, d # e, g[d] # Idle, g[d].pc = g[e].pc
               PROVE  IF g[d].pc = "signed" THEN g[d].token # g[e].token ELSE g[d].of # g[e].of
    BY DEF Apart
  <2>1. CASE d = c
    BY <1>1, <2>1
  <2>2. CASE e = c
    BY <1>1, <2>2
  <2>3. CASE d # c /\ e # c
    BY <1>1, <2>3 DEF Apart
  <2> QED BY <2>1, <2>2, <2>3
<1> QED BY <1>2 DEF g

LEMMA TypeStep == TypeOK /\ [Next]_vars => TypeOK'
<1> SUFFICES ASSUME TypeOK, [Next]_vars PROVE TypeOK'
  OBVIOUS
<1>0. /\ calls \in [Callers -> Call] /\ Apart(calls) /\ added \in 0..MaxUsers
      /\ tokens \in Seq(Token) /\ Len(tokens) \in Nat /\ DOMAIN tokens = 1..Len(tokens)
      /\ issued \in [Instances -> Seq(DOMAIN tokens)]
      /\ \A c \in Callers : calls[c].pc = "signed" => calls[c].token \in DOMAIN tokens
      /\ NoCheck \in Check /\ NoCheck.token = 0
  <2>1. NoCheck \in Check /\ NoCheck.token = 0
    BY DEF Check, NoCheck
  <2>2. tokens \in Seq(Token) /\ Len(tokens) \in Nat /\ DOMAIN tokens = 1..Len(tokens)
    BY DEF TypeOK
  <2> QED BY <2>1, <2>2 DEF TypeOK, Apart
<1>1. CASE Tick
  <2>1. sec' \in 0..MaxSec /\ frac' \in 0..Ticks - 1
    BY <1>1, AuthOK DEF Tick, TypeOK
  <2> QED BY <1>0, <1>1, <2>1 DEF Tick, TypeOK, history
<1>2. ASSUME NEW c \in Callers, NEW i \in Instances, NEW n \in Names, AddUser(c, i, n)
      PROVE  TypeOK'
  <2>1. added' = added + 1 /\ added' \in 0..MaxUsers
    BY <1>0, <1>2, AuthOK DEF AddUser
  <2>2. users' \in [Instances -> [Names -> 0..added']]
    <3>1. users \in [Instances -> [Names -> 0..added]] /\ users' = [users EXCEPT ![i][n] = added + 1]
      BY <1>2 DEF AddUser, TypeOK
    <3>2. 0..added \subseteq 0..added' /\ added + 1 \in 0..added'
      BY <1>0, <2>1
    <3> QED BY <3>1, <3>2
  <2> QED BY <1>0, <1>2, <2>1, <2>2 DEF AddUser, TypeOK, history, clock
<1>3. ASSUME NEW c \in Callers, NEW i \in Instances, NEW ttl \in Ttls \cup {None}, Sign(c, i, ttl)
      PROVE  TypeOK'
  <2> DEFINE t == [of |-> i, sec |-> sec, frac |-> frac, ttl |-> ttl, exp |-> sec + Life(ttl)]
             k == Len(tokens) + 1
             x == [pc |-> "signed", token |-> k]
  <2>1. t \in Token
    <3>1. Life(ttl) \in Int
      BY AuthOK DEF Life
    <3>2. sec \in 0..MaxSec /\ frac \in 0..Ticks - 1 /\ sec + Life(ttl) \in Int
      BY <3>1 DEF TypeOK
    <3> QED BY <3>2 DEF Token
  <2>2. tokens' = Append(tokens, t)
    BY <1>3 DEF Sign
  <2> HIDE DEF t
  <2>3. /\ tokens' \in Seq(Token) /\ Len(tokens') = k /\ k \in 1..MaxTokens
        /\ DOMAIN tokens' = 1..k /\ DOMAIN tokens \subseteq DOMAIN tokens'
        /\ \A j \in DOMAIN tokens : tokens'[j] = tokens[j]
    BY <1>0, <1>3, <2>1, <2>2, AuthOK DEF Sign
  <2>4. x \in Call /\ x.pc = "signed" /\ x # Idle /\ calls' = [calls EXCEPT ![c] = x]
    BY <1>3, <2>3, NewCalls DEF Sign, Idle
  <2>5. Apart(calls')
    <3>1. \A d \in Callers : calls[d].pc = "signed" => calls[d].token # x.token
      BY <1>0
    <3> HIDE DEF x
    <3> QED BY <1>0, <2>4, <3>1, ApartBegins
  <2>6. /\ calls' \in [Callers -> Call]
        /\ \A d \in Callers : calls'[d].pc = "signed" => calls'[d].token \in DOMAIN tokens'
    BY <1>0, <2>3, <2>4
  <2>7. /\ issued' = issued /\ issued' \in [Instances -> Seq(DOMAIN tokens')]
        /\ \A h \in Instances : \A j \in DOMAIN issued'[h] : tokens'[issued'[h][j]].of = h
    <3>1. issued' = issued /\ \A h \in Instances : \A j \in DOMAIN issued[h] : tokens[issued[h][j]].of = h
      BY <1>3 DEF Sign, TypeOK
    <3>2. \A h \in Instances : issued[h] \in Seq(DOMAIN tokens)
      BY <1>0
    <3>3. \A h \in Instances : issued[h] \in Seq(1..k)
      BY <1>0, <3>2, LongerLogs
    <3>4. \A h \in Instances : \A j \in DOMAIN issued[h] : issued[h][j] \in DOMAIN tokens
      BY <3>2
    <3> QED BY <1>0, <2>3, <3>1, <3>3, <3>4
  <2>8. Len(tokens') <= MaxTokens /\ NoCheck.token <= Len(tokens')
    BY <1>0, <2>3
  <2>9. cleared' \in [Instances -> SUBSET (DOMAIN tokens')]
    <3>1. cleared' = cleared /\ cleared \in [Instances -> SUBSET (DOMAIN tokens)]
      BY <1>3 DEF Sign, history, TypeOK
    <3> HIDE DEF k
    <3> QED BY <2>3, <3>1
  <2>10. UNCHANGED <<sec, frac, users, added, stale>> /\ verdict' = NoCheck
    BY <1>3 DEF Sign, clock, history
  <2> HIDE DEF x, k
  <2> QED BY <1>0, <2>3, <2>5, <2>6, <2>7, <2>8, <2>9, <2>10 DEF TypeOK, Apart
<1>4. ASSUME NEW c \in Callers, Log(c) PROVE TypeOK'
  <2> DEFINE k == calls[c].token
             i == tokens[k].of
  <2>1. k \in DOMAIN tokens /\ i \in Instances
    <3>1. k \in DOMAIN tokens
      BY <1>0, <1>4 DEF Log
    <3>2. tokens[k] \in Token
      BY <1>0, <3>1
    <3> HIDE DEF k
    <3> QED BY <3>1, <3>2 DEF Token
  <2>2. issued' = [issued EXCEPT ![i] = Append(@, k)] /\ calls' = [calls EXCEPT ![c] = Idle]
    BY <1>4 DEF Log
  <2> HIDE DEF k
  <2>3. /\ issued' \in [Instances -> Seq(DOMAIN tokens)]
        /\ \A h \in Instances : \A j \in DOMAIN issued'[h] : tokens[issued'[h][j]].of = h
    <3> HIDE DEF i
    <3>1. issued[i] \in Seq(DOMAIN tokens)
      BY <1>0, <2>1
    <3>2. /\ issued'[i] = Append(issued[i], k)
          /\ \A h \in Instances : h # i => issued'[h] = issued[h]
      BY <1>0, <2>1, <2>2
    <3>3. \A j \in DOMAIN issued'[i] : issued'[i][j] = k \/ (j \in DOMAIN issued[i] /\ issued'[i][j] = issued[i][j])
      BY <2>1, <3>1, <3>2
    <3>4. tokens[k].of = i
      BY DEF i
    <3>5. issued'[i] \in Seq(DOMAIN tokens)
      BY <2>1, <3>1, <3>2
    <3>6. issued' \in [Instances -> Seq(DOMAIN tokens)]
      BY <1>0, <2>1, <2>2, <3>2, <3>5
    <3>7. ASSUME NEW h \in Instances, NEW j \in DOMAIN issued'[h]
          PROVE  tokens[issued'[h][j]].of = h
      <4>1. CASE h = i
        <5>1. j \in DOMAIN issued'[i] /\ issued'[h][j] = issued'[i][j]
          BY <4>1
        <5>2. CASE issued'[i][j] = k
          BY <3>4, <4>1, <5>1, <5>2
        <5>3. CASE j \in DOMAIN issued[i] /\ issued'[i][j] = issued[i][j]
          BY <2>1, <4>1, <5>1, <5>3 DEF TypeOK
        <5> QED BY <3>3, <5>1, <5>2, <5>3
      <4>2. CASE h # i
        BY <3>2, <4>2 DEF TypeOK
      <4> QED BY <4>1, <4>2
    <3> QED BY <3>6, <3>7
  <2>4. calls' \in [Callers -> Call] /\ Apart(calls')
    BY <1>0, <2>2, NewCalls, ApartEnds
  <2>5. \A d \in Callers : calls'[d].pc = "signed" => calls'[d].token \in DOMAIN tokens
    BY <1>0, <2>2, NewCalls
  <2>6. UNCHANGED <<sec, frac, users, tokens, added, stale, cleared>> /\ verdict' = NoCheck
    BY <1>4 DEF Log, clock, history
  <2> QED BY <1>0, <2>3, <2>4, <2>5, <2>6 DEF TypeOK, Apart
<1>5. ASSUME NEW c \in Callers, NEW i \in Instances, NEW k \in DOMAIN tokens, Validate(c, i, k)
      PROVE  TypeOK'
  <2>1. verdict' \in Check /\ verdict'.token <= Len(tokens)
    <3>1. k \in 1..MaxTokens /\ k <= Len(tokens)
      BY <1>0, AuthOK DEF TypeOK
    <3> QED BY <1>5, <3>1 DEF Validate, Check
  <2> QED BY <1>5, <2>1 DEF Validate, TypeOK, clock, history
<1>6. ASSUME NEW c \in Callers, NEW i \in Instances, ResetUsers(c, i)
      PROVE  TypeOK'
  <2> DEFINE x == [pc |-> "reset", of |-> i, before |-> Finished(i)]
  <2>1. x \in Call /\ x.pc = "reset" /\ x # Idle /\ calls' = [calls EXCEPT ![c] = x]
    BY <1>6, FinishedType, NewCalls DEF ResetUsers, Idle
  <2>2. \A d \in Callers : calls[d].pc = "reset" => calls[d].of # x.of
    BY <1>6 DEF ResetUsers, LockFree
  <2> HIDE DEF x
  <2>3. calls' \in [Callers -> Call] /\ Apart(calls')
    BY <1>0, <2>1, <2>2, ApartBegins
  <2>4. \A d \in Callers : calls'[d].pc = "signed" => calls'[d].token \in DOMAIN tokens
    BY <1>0, <2>1
  <2>5. users' \in [Instances -> [Names -> 0..added]]
    <3>1. Nobody \in [Names -> 0..added]
      BY <1>0 DEF Nobody
    <3> QED BY <1>6, <3>1 DEF ResetUsers, TypeOK
  <2>6. UNCHANGED <<sec, frac, issued, tokens, added, stale, cleared>> /\ verdict' = NoCheck
    BY <1>6 DEF ResetUsers, clock, history
  <2> QED BY <1>0, <2>3, <2>4, <2>5, <2>6 DEF TypeOK, Apart
<1>7. ASSUME NEW c \in Callers, ClearLog(c) PROVE TypeOK'
  <2> DEFINE i == calls[c].of
  <2>1. i \in Instances /\ calls[c].before \in Before
    BY <1>0, <1>7, CallShapes DEF ClearLog
  <2>2. /\ issued' = [issued EXCEPT ![i] = <<>>]
        /\ cleared' = [cleared EXCEPT ![i] = @ \cup {issued[i][j] : j \in DOMAIN issued[i]}]
        /\ stale' = [stale EXCEPT ![i] = calls[c].before]
        /\ calls' = [calls EXCEPT ![c] = Idle]
    BY <1>7 DEF ClearLog
  <2> HIDE DEF i
  <2>3. /\ issued' \in [Instances -> Seq(DOMAIN tokens)]
        /\ \A h \in Instances : \A j \in DOMAIN issued'[h] : tokens[issued'[h][j]].of = h
    <3>1. <<>> \in Seq(DOMAIN tokens) /\ DOMAIN <<>> = {}
      OBVIOUS
    <3> QED BY <1>0, <2>1, <2>2, <3>1 DEF TypeOK
  <2>4. cleared' \in [Instances -> SUBSET (DOMAIN tokens)]
    <3>1. issued[i] \in Seq(DOMAIN tokens)
      BY <1>0, <2>1
    <3>2. {issued[i][j] : j \in DOMAIN issued[i]} \subseteq DOMAIN tokens
      BY <3>1
    <3>3. cleared \in [Instances -> SUBSET (DOMAIN tokens)]
      BY DEF TypeOK
    <3> QED BY <2>1, <2>2, <3>2, <3>3
  <2>5. stale' \in [Instances -> Before]
    BY <2>1, <2>2 DEF TypeOK
  <2>6. calls' \in [Callers -> Call] /\ Apart(calls')
    BY <1>0, <2>2, NewCalls, ApartEnds
  <2>7. \A d \in Callers : calls'[d].pc = "signed" => calls'[d].token \in DOMAIN tokens
    BY <1>0, <2>2, NewCalls
  <2>8. UNCHANGED <<sec, frac, users, tokens, added>> /\ verdict' = NoCheck
    BY <1>7 DEF ClearLog, clock
  <2> QED BY <1>0, <2>3, <2>4, <2>5, <2>6, <2>7, <2>8 DEF TypeOK, Apart
<1>8. CASE UNCHANGED vars
  BY <1>8 DEF vars, clock, history, TypeOK
<1> QED BY <1>1, <1>2, <1>3, <1>4, <1>5, <1>6, <1>7, <1>8 DEF Next

\* A call has one token at hand that no other call has, and holds one lock at most
\* that no other call holds; an instance logs its own tokens: for any number of
\* instances, callers, tokens and users.
THEOREM TypeCorrect == Spec => []TypeOK
<1> QED BY TypeInit, TypeStep, PTL DEF Spec

-------------------------------------------------------------------------------
(* How long a token lives.                                                 *)

\* `exp' is what was asked for.
ExpKept == \A k \in DOMAIN tokens : tokens[k].exp = tokens[k].sec + PromisedLife(tokens[k])

LifetimeInv == ExpKept /\ LivesItsTtl /\ DiesInTime

LEMMA LifetimeInit == Init => LifetimeInv
<1> SUFFICES ASSUME Init PROVE LifetimeInv
  OBVIOUS
<1>1. DOMAIN tokens = {} /\ verdict = NoCheck
  BY DEF Init
<1> QED BY <1>1 DEF LifetimeInv, ExpKept, LivesItsTtl, DiesInTime

LEMMA LifetimeStep == TypeOK /\ LifetimeInv /\ [Next]_vars => LifetimeInv'
<1> SUFFICES ASSUME TypeOK, LifetimeInv, [Next]_vars PROVE LifetimeInv'
  OBVIOUS
<1>0. tokens \in Seq(Token) /\ DOMAIN tokens = 1..Len(tokens) /\ Len(tokens) \in Nat
      /\ sec \in Int /\ frac \in Int
  <2>1. tokens \in Seq(Token)
    BY DEF TypeOK
  <2> QED BY <2>1, AuthOK DEF TypeOK
<1>1. ASSUME tokens' = tokens, verdict' = NoCheck PROVE LifetimeInv'
  BY <1>1 DEF LifetimeInv, ExpKept, PromisedLife, LivesItsTtl, DiesInTime, NoCheck
<1>2. ASSUME NEW c \in Callers, NEW i \in Instances, NEW ttl \in Ttls \cup {None}, Sign(c, i, ttl)
      PROVE  LifetimeInv'
  <2> DEFINE t == [of |-> i, sec |-> sec, frac |-> frac, ttl |-> ttl, exp |-> sec + Life(ttl)]
  <2>1. t.exp = t.sec + PromisedLife(t)
    BY DEF Life, PromisedLife
  <2>2. tokens' = Append(tokens, t) /\ verdict' = NoCheck
    BY <1>2 DEF Sign
  <2> HIDE DEF t
  <2>3. \A k \in DOMAIN tokens' : tokens'[k] = t \/ (k \in DOMAIN tokens /\ tokens'[k] = tokens[k])
    BY <1>0, <2>2
  <2>4. ASSUME NEW k \in DOMAIN tokens'
        PROVE  tokens'[k].exp = tokens'[k].sec + PromisedLife(tokens'[k])
    BY <2>1, <2>3 DEF LifetimeInv, ExpKept
  <2>5. ExpKept'
    BY <2>4 DEF ExpKept, PromisedLife
  <2> QED BY <2>2, <2>5 DEF LifetimeInv, LivesItsTtl, DiesInTime, NoCheck
<1>3. ASSUME NEW c \in Callers, NEW i \in Instances, NEW k \in DOMAIN tokens, Validate(c, i, k)
      PROVE  LifetimeInv'
  <2> DEFINE t == tokens[k]
             n == PromisedLife(t)
  <2>1. /\ t.sec \in Int /\ t.frac \in Int /\ n \in Int /\ t.exp = t.sec + n
    <3>1. t \in Token
      BY <1>0
    <3>2. n \in Int
      BY <3>1, AuthOK DEF Token, PromisedLife
    <3>3. t.sec \in Int /\ t.frac \in Int
      BY <3>1, AuthOK DEF Token
    <3> QED BY <3>2, <3>3 DEF LifetimeInv, ExpKept
  <2>2. UNCHANGED <<sec, frac, tokens>>
    BY <1>3 DEF Validate, clock
  <2>3. /\ verdict'.token = k /\ verdict'.by = i
        /\ verdict'.says = (IF Secret[t.of] # Secret[i] THEN "signature mismatch"
                            ELSE IF Expired(t.exp) THEN "token expired" ELSE "valid")
    BY <1>3 DEF Validate
  <2>4. Within(t, n) => ~Expired(t.exp)
    <3> HIDE DEF t, n
    <3> QED BY <1>0, <2>1 DEF Within, Expired
  <2>5. ~Expired(t.exp) => Within(t, n + 1)
    <3> HIDE DEF t, n
    <3> QED BY <1>0, <2>1 DEF Within, Expired
  <2>6. ExpKept'
    BY <2>2 DEF LifetimeInv, ExpKept, PromisedLife
  <2>7. LivesItsTtl' /\ DiesInTime'
    <3>1. Secret[t.of] = Secret[i] /\ Within(t, n) => verdict'.says = "valid"
      <4> HIDE DEF t, n
      <4> QED BY <2>3, <2>4
    <3>2. verdict'.says = "valid" => Secret[t.of] = Secret[i] /\ Within(t, n + 1)
      <4> HIDE DEF t, n
      <4> QED BY <2>3, <2>5
    <3> QED BY <2>2, <2>3, <3>1, <3>2 DEF LivesItsTtl, DiesInTime, PromisedLife, Within
  <2> QED BY <2>6, <2>7 DEF LifetimeInv
<1>4. CASE UNCHANGED vars
  BY <1>4 DEF vars, clock, LifetimeInv, ExpKept, PromisedLife, LivesItsTtl, DiesInTime, Within, NoCheck
<1>5. CASE Tick
  BY <1>1, <1>5 DEF Tick
<1>6. ASSUME NEW c \in Callers, Log(c) \/ ClearLog(c) PROVE LifetimeInv'
  BY <1>1, <1>6 DEF Log, ClearLog
<1>7. ASSUME NEW c \in Callers, NEW i \in Instances, NEW n \in Names, AddUser(c, i, n)
      PROVE  LifetimeInv'
  BY <1>1, <1>7 DEF AddUser
<1>8. ASSUME NEW c \in Callers, NEW i \in Instances, ResetUsers(c, i)
      PROVE  LifetimeInv'
  BY <1>1, <1>8 DEF ResetUsers
<1> QED BY <1>2, <1>3, <1>4, <1>5, <1>6, <1>7, <1>8 DEF Next

\* A token is valid to its issuer for as long as was asked for, whatever part of a
\* second it was issued in: comparing whole seconds never cuts it short.
THEOREM TokensLive == Spec => []LivesItsTtl
<1>1. LifetimeInv => LivesItsTtl
  BY DEF LifetimeInv
<1> QED BY <1>1, TypeCorrect, LifetimeInit, LifetimeStep, PTL DEF Spec

\* And it is never taken for valid by an instance with another secret, nor a second
\* after its time.
THEOREM TokensDie == Spec => []DiesInTime
<1>1. LifetimeInv => DiesInTime
  BY DEF LifetimeInv
<1> QED BY <1>1, TypeCorrect, LifetimeInit, LifetimeStep, PTL DEF Spec

-------------------------------------------------------------------------------
(* What reset() forgets.                                                   *)

\* The users and tokens b are from before: fewer than n, all in r.
Past(b, n, r) == b.users \in 0..n /\ b.tokens \subseteq r

\* A registry u has none of the users b, a log has none of its tokens.
UsersGone(u, b) == \A n \in Names : u[n] \notin 1..b.users
LogGone(log, b) == \A j \in DOMAIN log : log[j] \notin b.tokens

ForgetInv ==
  /\ \A i \in Instances : /\ Past(stale[i], added, Returned)
                          /\ UsersGone(users[i], stale[i]) /\ LogGone(issued[i], stale[i])
  /\ \A c \in Callers : calls[c].pc = "reset" =>
       /\ Past(calls[c].before, added, Returned)
       /\ UsersGone(users[calls[c].of], calls[c].before)

LEMMA ForgetInit == Init => ForgetInv
<1> SUFFICES ASSUME Init PROVE ForgetInv
  OBVIOUS
<1>1. \A i \in Instances : stale[i].users = 0 /\ stale[i].tokens = {}
  BY DEF Init
<1>2. \A c \in Callers : calls[c].pc = "idle"
  BY DEF Init, Idle
<1>3. \A i \in Instances : DOMAIN issued[i] = {}
  BY DEF Init
<1>4. added = 0
  BY DEF Init
<1> QED BY <1>1, <1>2, <1>3, <1>4 DEF ForgetInv, Past, UsersGone, LogGone

\* What has returned goes on having returned.
LEMMA ReturnedStays == TypeOK /\ [Next]_vars => Returned \subseteq Returned' /\ added \in Nat
                                                /\ added' \in Nat /\ added <= added'
<1> SUFFICES ASSUME TypeOK, [Next]_vars
             PROVE  Returned \subseteq Returned' /\ added \in Nat /\ added' \in Nat /\ added <= added'
  OBVIOUS
<1>0. /\ calls \in [Callers -> Call] /\ added \in Nat /\ Len(tokens) \in Nat
      /\ tokens \in Seq(Token) /\ DOMAIN tokens = 1..Len(tokens)
  <2>1. tokens \in Seq(Token)
    BY DEF TypeOK
  <2> QED BY <2>1, AuthOK DEF TypeOK
<1>1. CASE UNCHANGED <<tokens, calls, added>>
  BY <1>0, <1>1 DEF Returned
<1>2. ASSUME NEW c \in Callers, calls' = [calls EXCEPT ![c] = Idle], UNCHANGED <<tokens, added>>
      PROVE  Returned \subseteq Returned' /\ added' \in Nat /\ added <= added'
  BY <1>0, <1>2, NewCalls DEF Returned
<1>3. ASSUME NEW c \in Callers, NEW i \in Instances, NEW ttl \in Ttls \cup {None}, Sign(c, i, ttl)
      PROVE  Returned \subseteq Returned' /\ added' \in Nat /\ added <= added'
  <2> DEFINE k == Len(tokens) + 1
  <2>1. /\ calls' = [calls EXCEPT ![c] = [pc |-> "signed", token |-> k]]
        /\ added' = added
    BY <1>3 DEF Sign
  <2>2. DOMAIN tokens \subseteq DOMAIN tokens' /\ k \notin DOMAIN tokens
    BY <1>0, <1>3 DEF Sign
  <2> HIDE DEF k
  <2> QED BY <1>0, <2>1, <2>2 DEF Returned
<1>4. ASSUME NEW c \in Callers, NEW i \in Instances, ResetUsers(c, i)
      PROVE  Returned \subseteq Returned' /\ added' \in Nat /\ added <= added'
  <2>1. /\ calls' = [calls EXCEPT ![c] = [pc |-> "reset", of |-> i, before |-> Finished(i)]]
        /\ tokens' = tokens /\ added' = added
    BY <1>4 DEF ResetUsers
  <2> QED BY <1>0, <2>1 DEF Returned
<1>5. ASSUME NEW c \in Callers, NEW i \in Instances, NEW n \in Names, AddUser(c, i, n)
      PROVE  Returned \subseteq Returned' /\ added' \in Nat /\ added <= added'
  BY <1>0, <1>5 DEF AddUser, Returned
<1> QED BY <1>0, <1>1, <1>2, <1>3, <1>4, <1>5
        DEF Next, vars, Tick, Log, ClearLog, Validate

LEMMA ForgetStep == TypeOK /\ ForgetInv /\ [Next]_vars => ForgetInv'
<1> SUFFICES ASSUME TypeOK, ForgetInv, [Next]_vars PROVE ForgetInv'
  OBVIOUS
<1> DEFINE n1 == added'
           r1 == Returned'
<1>0. /\ calls \in [Callers -> Call] /\ added \in Nat /\ n1 \in Nat /\ added <= n1
      /\ users \in [Instances -> [Names -> 0..added]] /\ stale \in [Instances -> Before]
      /\ issued \in [Instances -> Seq(DOMAIN tokens)]
  BY ReturnedStays DEF TypeOK
<1>a. \A b : Past(b, added, Returned) => Past(b, n1, r1)
  <2> HIDE DEF n1, r1
  <2>1. Returned \subseteq r1
    BY ReturnedStays DEF r1
  <2> QED BY <1>0, <2>1 DEF Past
<1>b. /\ \A i \in Instances : /\ Past(stale[i], n1, r1) /\ UsersGone(users[i], stale[i])
                              /\ LogGone(issued[i], stale[i])
      /\ \A c \in Callers : calls[c].pc = "reset" =>
           Past(calls[c].before, n1, r1) /\ UsersGone(users[calls[c].of], calls[c].before)
  BY <1>a DEF ForgetInv
<1> DEFINE Goal == /\ \A i \in Instances : /\ Past(stale'[i], n1, r1) /\ UsersGone(users'[i], stale'[i])
                                           /\ LogGone(issued'[i], stale'[i])
                   /\ \A c \in Callers : calls'[c].pc = "reset" =>
                        Past(calls'[c].before, n1, r1) /\ UsersGone(users'[calls'[c].of], calls'[c].before)
<1>c. SUFFICES Goal
  BY DEF ForgetInv, Past, UsersGone, LogGone
<1> HIDE DEF n1, r1
<1>1. ASSUME UNCHANGED <<users, issued, calls, stale>> PROVE Goal
  BY <1>b, <1>1
<1>2. ASSUME NEW c \in Callers, NEW i \in Instances, NEW n \in Names, AddUser(c, i, n)
      PROVE  Goal
  <2>1. /\ users' = [users EXCEPT ![i][n] = added + 1] /\ UNCHANGED <<issued, calls, stale>>
    BY <1>2 DEF AddUser, history
  <2>2. ASSUME NEW h \in Instances, NEW b, Past(b, added, Returned), UsersGone(users[h], b)
        PROVE  UsersGone(users'[h], b)
    <3>1. \A m \in Names : users'[h][m] = users[h][m] \/ users'[h][m] = added + 1
      BY <1>0, <2>1
    <3>2. added + 1 \notin 1..b.users
      BY <1>0, <2>2 DEF Past
    <3> QED BY <2>2, <3>1, <3>2 DEF UsersGone
  <2>3. \A d \in Callers : calls[d].pc = "reset" => calls[d].of \in Instances
    BY <1>0, CallShapes
  <2> QED BY <1>b, <2>1, <2>2, <2>3 DEF ForgetInv
<1>3. ASSUME NEW c \in Callers, NEW i \in Instances, NEW ttl \in Ttls \cup {None}, Sign(c, i, ttl)
      PROVE  Goal
  <2>1. /\ calls' = [calls EXCEPT ![c] = [pc |-> "signed", token |-> Len(tokens) + 1]]
        /\ UNCHANGED <<users, issued, stale>>
    BY <1>3 DEF Sign, history
  <2>2. \A d \in Callers : calls'[d].pc = "reset" => calls'[d] = calls[d]
    BY <1>0, <2>1
  <2> QED BY <1>b, <2>1, <2>2
<1>4. ASSUME NEW c \in Callers, Log(c) PROVE Goal
  <2> DEFINE k == calls[c].token
             i == tokens[k].of
  <2>1. /\ issued' = [issued EXCEPT ![i] = Append(@, k)] /\ calls' = [calls EXCEPT ![c] = Idle]
        /\ UNCHANGED <<users, stale>> /\ k \notin Returned /\ calls[c].pc = "signed"
    BY <1>4 DEF Log, history, Returned
  <2> HIDE DEF k, i
  <2>2. ASSUME NEW h \in Instances PROVE LogGone(issued'[h], stale[h])
    <3>1. /\ issued[h] \in Seq(DOMAIN tokens)
          /\ issued'[h] = issued[h] \/ issued'[h] = Append(issued[h], k)
      BY <1>0, <2>1
    <3>2. \A j \in DOMAIN issued'[h] : issued'[h][j] = k \/ (j \in DOMAIN issued[h] /\ issued'[h][j] = issued[h][j])
      BY <3>1
    <3>3. k \notin stale[h].tokens
      BY <2>1 DEF ForgetInv, Past
    <3> QED BY <1>b, <3>2, <3>3 DEF LogGone
  <2>3. \A d \in Callers : calls'[d].pc = "reset" => calls'[d] = calls[d]
    BY <1>0, <2>1, NewCalls
  <2> QED BY <1>b, <2>1, <2>2, <2>3
<1>5. ASSUME NEW c \in Callers, NEW i \in Instances, ResetUsers(c, i) PROVE Goal
  <2>1. /\ calls' = [calls EXCEPT ![c] = [pc |-> "reset", of |-> i, before |-> Finished(i)]]
        /\ users' = [users EXCEPT ![i] = Nobody] /\ UNCHANGED <<issued, stale>>
    BY <1>5 DEF ResetUsers, history
  <2>2. \A b : UsersGone(Nobody, b)
    BY DEF UsersGone, Nobody
  <2>3. Past(Finished(i), n1, r1)
    <3>1. Finished(i).users = added /\ Finished(i).tokens \subseteq Returned
      BY FinishedType
    <3>2. Past(Finished(i), added, Returned)
      BY <1>0, <3>1 DEF Past
    <3> QED BY <1>a, <3>2
  <2>4. \A h \in Instances : users'[h] = users[h] \/ users'[h] = Nobody
    BY <1>0, <2>1
  <2>5. \A d \in Callers : calls[d].pc = "reset" => calls[d].of \in Instances
    BY <1>0, CallShapes
  <2> DEFINE F == Finished(i)
  <2> HIDE DEF F
  <2>6. calls' = [calls EXCEPT ![c] = [pc |-> "reset", of |-> i, before |-> F]] /\ Past(F, n1, r1)
    BY <2>1, <2>3 DEF F
  <2>7. \A d \in Callers : calls'[d] = calls[d] \/ (calls'[d].before = F /\ calls'[d].of = i)
    BY <1>0, <2>6
  <2>8. \A b : UsersGone(users'[i], b)
    BY <1>0, <2>1, <2>2
  <2> QED BY <1>b, <2>1, <2>2, <2>4, <2>5, <2>6, <2>7, <2>8
<1>6. ASSUME NEW c \in Callers, ClearLog(c) PROVE Goal
  <2> DEFINE i == calls[c].of
  <2>1. /\ issued' = [issued EXCEPT ![i] = <<>>] /\ stale' = [stale EXCEPT ![i] = calls[c].before]
        /\ calls' = [calls EXCEPT ![c] = Idle] /\ UNCHANGED users
        /\ Past(calls[c].before, n1, r1) /\ UsersGone(users[i], calls[c].before)
    BY <1>b, <1>6 DEF ClearLog
  <2> HIDE DEF i
  <2>2. \A b : LogGone(<<>>, b)
    BY DEF LogGone
  <2>3. \A h \in Instances : \/ issued'[h] = issued[h] /\ stale'[h] = stale[h]
                             \/ h = i /\ issued'[h] = <<>> /\ stale'[h] = calls[c].before
    BY <1>0, <2>1
  <2>4. \A d \in Callers : calls'[d].pc = "reset" => calls'[d] = calls[d]
    BY <1>0, <2>1, NewCalls
  <2> QED BY <1>b, <2>1, <2>2, <2>3, <2>4
<1>7. CASE Tick
  BY <1>1, <1>7 DEF Tick, history
<1>8. ASSUME NEW c \in Callers, NEW i \in Instances, NEW k \in DOMAIN tokens, Validate(c, i, k)
      PROVE  Goal
  BY <1>1, <1>8 DEF Validate, history
<1>9. CASE UNCHANGED vars
  BY <1>1, <1>9 DEF vars, history
<1> QED BY <1>2, <1>3, <1>4, <1>5, <1>6, <1>7, <1>8, <1>9 DEF Next

\* reset() forgets what it met: a user added or a token handed out before it began is
\* not there after it has returned, whatever the other threads do in between.
THEOREM ResetIsForgetting == Spec => []ResetForgets
<1>1. ForgetInv => ResetForgets
  BY DEF ForgetInv, ResetForgets, UsersGone, LogGone
<1> QED BY <1>1, TypeCorrect, ForgetInit, ForgetStep, PTL DEF Spec

-------------------------------------------------------------------------------
(* What the log has.                                                       *)

Has(log, k) == \E j \in DOMAIN log : log[j] = k
Once(log)   == \A j, l \in DOMAIN log : log[j] = log[l] => j = l

\* A token at hand in a call is in no log yet, so that it is not logged twice.
LogInv ==
  /\ \A k \in Returned : Has(issued[tokens[k].of], k) \/ k \in cleared[tokens[k].of]
  /\ \A i \in Instances : Once(issued[i])
  /\ \A c \in Callers : calls[c].pc = "signed" => \A i \in Instances : ~Has(issued[i], calls[c].token)

LEMMA LogInit == Init => LogInv
<1> SUFFICES ASSUME Init PROVE LogInv
  OBVIOUS
<1>1. DOMAIN tokens = {} /\ \A i \in Instances : DOMAIN issued[i] = {}
  BY DEF Init
<1>2. \A c \in Callers : calls[c].pc = "idle"
  BY DEF Init, Idle
<1> QED BY <1>1, <1>2 DEF LogInv, Returned, Once

LEMMA Appended ==
  ASSUME NEW S, NEW log \in Seq(S), NEW k
  PROVE  /\ Has(Append(log, k), k)
         /\ \A m : Has(Append(log, k), m) => m = k \/ Has(log, m)
         /\ \A m : Has(log, m) => Has(Append(log, k), m)
         /\ Once(log) /\ ~Has(log, k) => Once(Append(log, k))
<1> DEFINE new == Append(log, k)
           n == Len(log)
<1>1. /\ n \in Nat /\ DOMAIN log = 1..n /\ DOMAIN new = 1..(n + 1) /\ new[n + 1] = k
      /\ \A j \in 1..n : new[j] = log[j]
  OBVIOUS
<1> HIDE DEF new, n
<1>2. Has(new, k)
  BY <1>1 DEF Has
<1>3. \A m : Has(new, m) => m = k \/ Has(log, m)
  BY <1>1 DEF Has
<1>4. \A m : Has(log, m) => Has(new, m)
  BY <1>1 DEF Has
<1>5. Once(log) /\ ~Has(log, k) => Once(new)
  BY <1>1 DEF Once, Has
<1> QED BY <1>2, <1>3, <1>4, <1>5 DEF new

LEMMA LogStep == TypeOK /\ LogInv /\ [Next]_vars => LogInv'
<1> SUFFICES ASSUME TypeOK, LogInv, [Next]_vars PROVE LogInv'
  OBVIOUS
<1>0. /\ calls \in [Callers -> Call] /\ tokens \in Seq(Token) /\ Len(tokens) \in Nat
      /\ DOMAIN tokens = 1..Len(tokens) /\ issued \in [Instances -> Seq(DOMAIN tokens)]
      /\ cleared \in [Instances -> SUBSET (DOMAIN tokens)]
      /\ \A k \in DOMAIN tokens : tokens[k].of \in Instances
      /\ \A k \in Returned : k \in DOMAIN tokens
  <2>1. tokens \in Seq(Token)
    BY DEF TypeOK
  <2>2. \A k \in DOMAIN tokens : tokens[k].of \in Instances
    <3>1. \A k \in DOMAIN tokens : tokens[k] \in Token
      BY <2>1
    <3> QED BY <3>1 DEF Token
  <2> QED BY <2>1, <2>2 DEF TypeOK, Returned
<1>1. ASSUME UNCHANGED <<issued, tokens, calls, cleared>> PROVE LogInv'
  BY <1>1 DEF LogInv, Returned, Has, Once
<1>2. ASSUME NEW c \in Callers, NEW i \in Instances, NEW ttl \in Ttls \cup {None}, Sign(c, i, ttl)
      PROVE  LogInv'
  <2> DEFINE k == Len(tokens) + 1
  <2>1. /\ calls' = [calls EXCEPT ![c] = [pc |-> "signed", token |-> k]]
        /\ DOMAIN tokens' = 1..k /\ \A j \in DOMAIN tokens : tokens'[j] = tokens[j]
        /\ UNCHANGED <<issued, cleared>> /\ calls[c] = Idle
    BY <1>0, <1>2 DEF Sign, history
  <2>2. \A i1 \in Instances : ~Has(issued[i1], k)
    <3>1. k \notin DOMAIN tokens
      BY <1>0
    <3> HIDE DEF k
    <3>2. \A i1 \in Instances : issued[i1] \in Seq(DOMAIN tokens)
      BY <1>0
    <3>3. \A i1 \in Instances : \A j \in DOMAIN issued[i1] : issued[i1][j] \in DOMAIN tokens
      BY <3>2
    <3> QED BY <3>1, <3>3 DEF Has
  <2>3. Returned' \subseteq Returned /\ Returned \subseteq DOMAIN tokens
    <3>1. \A j \in DOMAIN tokens' : j # k => j \in DOMAIN tokens
      BY <1>0, <2>1
    <3> HIDE DEF k
    <3>2. \A d \in Callers : calls[d].pc = "signed" => calls'[d] = calls[d]
      BY <1>0, <2>1, NewCalls
    <3>3. calls'[c].pc = "signed" /\ calls'[c].token = k
      BY <1>0, <2>1
    <3> QED BY <3>1, <3>2, <3>3 DEF Returned
  <2> HIDE DEF k
  <2>4. \A d \in Callers : calls'[d].pc = "signed" => calls'[d] = calls[d] \/ calls'[d].token = k
    BY <1>0, <2>1
  <2>5. \A m \in Returned' : Has(issued'[tokens'[m].of], m) \/ m \in cleared'[tokens'[m].of]
    BY <2>1, <2>3 DEF LogInv
  <2>6. \A d \in Callers : calls'[d].pc = "signed" => \A h \in Instances : ~Has(issued'[h], calls'[d].token)
    BY <2>1, <2>2, <2>4 DEF LogInv
  <2> QED BY <2>1, <2>5, <2>6 DEF LogInv, Has, Once
<1>3. ASSUME NEW c \in Callers, Log(c) PROVE LogInv'
  <2> DEFINE k == calls[c].token
             i == tokens[k].of
  <2>1. /\ issued' = [issued EXCEPT ![i] = Append(@, k)] /\ calls' = [calls EXCEPT ![c] = Idle]
        /\ UNCHANGED <<tokens, cleared>> /\ calls[c].pc = "signed"
    BY <1>3 DEF Log, history
  <2>2. k \in DOMAIN tokens /\ i \in Instances /\ ~Has(issued[i], k)
    <3>1. k \in DOMAIN tokens
      BY <2>1 DEF TypeOK
    <3> QED BY <1>0, <2>1, <3>1 DEF LogInv
  <2>3. \A d \in Callers : d # c /\ calls[d].pc = "signed" => calls[d].token # k
    BY <2>1, NewCalls DEF TypeOK
  <2>4. i = tokens[k].of
    OBVIOUS
  <2> HIDE DEF k, i
  <2>5. /\ Has(issued'[i], k) /\ Once(issued'[i])
        /\ \A m : Has(issued'[i], m) => m = k \/ Has(issued[i], m)
        /\ \A m : Has(issued[i], m) => Has(issued'[i], m)
        /\ \A h \in Instances : h # i => issued'[h] = issued[h]
    <3>1. issued[i] \in Seq(DOMAIN tokens) /\ issued'[i] = Append(issued[i], k)
      BY <1>0, <2>1, <2>2
    <3>2. Once(issued[i])
      BY <2>2 DEF LogInv
    <3> QED BY <1>0, <2>1, <2>2, <3>1, <3>2, Appended
  <2>6. \A m \in Returned' : m \in Returned \/ m = k
    <3>1. \A d \in Callers : calls[d].pc = "signed" => d = c \/ calls'[d] = calls[d]
      BY <1>0, <2>1
    <3> QED BY <2>1, <3>1 DEF Returned, k
  <2>7. ASSUME NEW m \in Returned'
        PROVE  Has(issued'[tokens'[m].of], m) \/ m \in cleared'[tokens'[m].of]
    <3>1. CASE m = k
      BY <2>1, <2>4, <2>5, <3>1
    <3>2. CASE m \in Returned
      <4>1. tokens[m].of \in Instances /\ (Has(issued[tokens[m].of], m) \/ m \in cleared[tokens[m].of])
        BY <1>0, <3>2 DEF LogInv
      <4> QED BY <2>1, <2>5, <4>1
    <3> QED BY <2>6, <3>1, <3>2
  <2>8. \A h \in Instances : Once(issued'[h])
    BY <2>5 DEF LogInv
  <2>9. ASSUME NEW d \in Callers, calls'[d].pc = "signed", NEW h \in Instances
        PROVE  ~Has(issued'[h], calls'[d].token)
    <3>1. d # c /\ calls'[d] = calls[d]
      BY <1>0, <2>1, <2>9, NewCalls
    <3>2. calls[d].token # k /\ ~Has(issued[h], calls[d].token)
      BY <2>3, <2>9, <3>1 DEF LogInv
    <3> QED BY <2>5, <3>1, <3>2
  <2>10. \A d \in Callers : calls'[d].pc = "signed" => \A h \in Instances : ~Has(issued'[h], calls'[d].token)
    BY <2>9
  <2> QED BY <2>7, <2>8, <2>10 DEF LogInv, Has, Once
<1>4. ASSUME NEW c \in Callers, NEW i \in Instances, ResetUsers(c, i) PROVE LogInv'
  <2>1. /\ calls' = [calls EXCEPT ![c] = [pc |-> "reset", of |-> i, before |-> Finished(i)]]
        /\ UNCHANGED <<issued, tokens, cleared>> /\ calls[c] = Idle
    BY <1>4 DEF ResetUsers, history
  <2>2. \A d \in Callers : /\ calls'[d].pc = "signed" => calls'[d] = calls[d]
                           /\ calls[d].pc = "signed" => calls'[d] = calls[d]
    BY <1>0, <2>1, NewCalls
  <2> QED BY <2>1, <2>2 DEF LogInv, Returned, Has, Once
<1>5. ASSUME NEW c \in Callers, ClearLog(c) PROVE LogInv'
  <2> DEFINE i == calls[c].of
  <2>1. /\ issued' = [issued EXCEPT ![i] = <<>>]
        /\ cleared' = [cleared EXCEPT ![i] = @ \cup {issued[i][j] : j \in DOMAIN issued[i]}]
        /\ calls' = [calls EXCEPT ![c] = Idle] /\ UNCHANGED tokens /\ calls[c].pc = "reset"
    BY <1>5 DEF ClearLog
  <2>2. \A d \in Callers : /\ calls'[d].pc = "signed" => calls'[d] = calls[d]
                           /\ calls[d].pc = "signed" => calls'[d] = calls[d]
    BY <1>0, <2>1, NewCalls
  <2> HIDE DEF i
  <2>3. /\ \A h \in Instances : issued'[h] = issued[h] \/ issued'[h] = <<>>
        /\ \A h \in Instances : h # i => issued'[h] = issued[h]
        /\ \A h \in Instances : cleared[h] \subseteq cleared'[h]
        /\ i \in Instances => \A m : Has(issued[i], m) => m \in cleared'[i]
    BY <1>0, <2>1 DEF Has
  <2>4. Returned' = Returned
    BY <2>1, <2>2 DEF Returned
  <2>5. \A m \in Returned : Has(issued'[tokens[m].of], m) \/ m \in cleared'[tokens[m].of]
    BY <1>0, <2>3 DEF LogInv
  <2>6. Once(<<>>) /\ \A m : ~Has(<<>>, m)
    BY DEF Once, Has
  <2>7. \A h \in Instances : Once(issued'[h])
    BY <2>3, <2>6 DEF LogInv
  <2>8. \A d \in Callers : calls'[d].pc = "signed" => \A h \in Instances : ~Has(issued'[h], calls'[d].token)
    BY <2>2, <2>3, <2>6 DEF LogInv
  <2> QED BY <2>1, <2>4, <2>5, <2>7, <2>8 DEF LogInv, Has, Once
<1>6. CASE Tick
  BY <1>1, <1>6 DEF Tick, history
<1>7. ASSUME NEW c \in Callers, NEW i \in Instances, NEW n \in Names, AddUser(c, i, n) PROVE LogInv'
  BY <1>1, <1>7 DEF AddUser, history
<1>8. ASSUME NEW c \in Callers, NEW i \in Instances, NEW k \in DOMAIN tokens, Validate(c, i, k)
      PROVE  LogInv'
  BY <1>1, <1>8 DEF Validate, history
<1>9. CASE UNCHANGED vars
  BY <1>1, <1>9 DEF vars, history
<1> QED BY <1>2, <1>3, <1>4, <1>5, <1>6, <1>7, <1>8, <1>9 DEF Next

\* issued_tokens has each token handed out, once, but for those a reset() has removed.
THEOREM LogIsComplete == Spec => []ReturnedAreIssued
<1>1. LogInv => ReturnedAreIssued
  BY DEF LogInv, ReturnedAreIssued, Has, Once
<1> QED BY <1>1, TypeCorrect, LogInit, LogStep, PTL DEF Spec
===============================================================================
