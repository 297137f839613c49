------------------------------ MODULE AuthService ------------------------------
(***************************************************************************)
(* AuthService (services/auth.py): users, tokens and the clock they expire *)
(* by.  Several instances live at a time, as in the tests.  Callers are    *)
(* the threads of the test program and the event loop of the gateway,      *)
(* which calls less: its handlers do nothing before their body is there    *)
(* and do not await anything afterwards.                                   *)
(*                                                                         *)
(* A token is its place in `tokens'; to sign and to verify is to compare   *)
(* secrets.  time.time() goes by in fractions of a second and does not go  *)
(* back.  get_user() and issued_tokens only read.  No `extra' claim        *)
(* overrides `exp'.                                                        *)
(***************************************************************************)
EXTENDS Integers, Sequences, FiniteSets

CONSTANTS
  Instances,
  Secret,     \* the _secret of each
  Ttl,        \* _ttl, the same for all
  Callers,
  Names,      \* usernames
  Ttls,       \* values of the argument `ttl'
  None,
  Ticks,      \* fractions of a second
  MaxSec, MaxTokens, MaxUsers  \* bounds on the clock, on tokens, on add_user()

ASSUME AuthOK ==
  /\ DOMAIN Secret = Instances
  /\ Ttl \in Int /\ Ttls \subseteq Int /\ None \notin Int
  /\ Ticks \in Nat \ {0}
  /\ MaxSec \in Nat /\ MaxTokens \in Nat /\ MaxUsers \in Nat

VARIABLES
  sec, frac,  \* the clock
  users,      \* _users of each instance: per name the number of the add_user(), or 0
  issued,     \* _issued of each instance
  tokens,     \* all tokens signed: by whom, when, what was asked for, and `exp'
  calls,      \* what each caller is in
  \* History, read by no action:
  added,      \* number of add_user() calls
  verdict,    \* of the validate_jwt() just made
  stale,      \* what had been added and issued when a reset() that returned began
  cleared     \* tokens that reset() has removed from _issued

clock   == <<sec, frac>>
history == <<stale, cleared>>
vars    == <<clock, users, issued, tokens, calls, added, verdict, history>>

Idle    == [pc |-> "idle"]
NoCheck == [token |-> 0]
Nobody  == [n \in Names |-> 0]

Init ==
  /\ sec = 0 /\ frac = 0
  /\ users = [i \in Instances |-> Nobody]
  /\ issued = [i \in Instances |-> <<>>]
  /\ tokens = <<>>
  /\ calls = [c \in Callers |-> Idle]
  /\ added = 0
  /\ verdict = NoCheck
  /\ stale = [i \in Instances |-> [users |-> 0, tokens |-> {}]]
  /\ cleared = [i \in Instances |-> {}]

\* _lock of i is held for longer than a step by reset() only.
LockFree(i) == \A c \in Callers : ~(calls[c].pc = "reset" /\ calls[c].of = i)

Returned == {k \in DOMAIN tokens : \A c \in Callers : ~(calls[c].pc = "signed" /\ calls[c].token = k)}

Finished(i) == [users |-> added, tokens |-> {k \in Returned : tokens[k].of = i}]

Tick ==
  /\ \/ frac < Ticks - 1 /\ frac' = frac + 1 /\ sec' = sec
     \/ frac = Ticks - 1 /\ frac' = 0 /\ sec < MaxSec /\ sec' = sec + 1
  /\ verdict' = NoCheck
  /\ UNCHANGED <<users, issued, tokens, calls, added, history>>

AddUser(c, i, n) ==
  /\ calls[c] = Idle
  /\ added < MaxUsers
  /\ added' = added + 1
  /\ users' = [users EXCEPT ![i][n] = added + 1]
  /\ verdict' = NoCheck
  /\ UNCHANGED <<clock, issued, tokens, calls, history>>

-------------------------------------------------------------------------------
(* issue_jwt(), called directly or by POST /auth/oauth/token               *)

\* Mutant: `ttl or self._ttl'.
LifeOr(ttl) == IF ttl \in {None, 0} THEN Ttl ELSE ttl

Life(ttl) == IF ttl # None THEN ttl ELSE Ttl

\* The clock is read and the token signed.
Sign(c, i, ttl) ==
  /\ calls[c] = Idle
  /\ Len(tokens) < MaxTokens
  /\ tokens' = Append(tokens, [of |-> i, sec |-> sec, frac |-> frac, ttl |-> ttl,
                               exp |-> sec + Life(ttl)])
  /\ calls' = [calls EXCEPT ![c] = [pc |-> "signed", token |-> Len(tokens) + 1]]
  /\ verdict' = NoCheck
  /\ UNCHANGED <<clock, users, issued, added, history>>

\* Mutant: the log is of the last token only.
LogLast(c) ==
  /\ calls[c].pc = "signed"
  /\ LET k == calls[c].token  i == tokens[k].of
     IN  LockFree(i) /\ issued' = [issued EXCEPT ![i] = <<k>>]
  /\ calls' = [calls EXCEPT ![c] = Idle]
  /\ verdict' = NoCheck
  /\ UNCHANGED <<clock, users, tokens, added, history>>

Log(c) ==
  /\ calls[c].pc = "signed"
  /\ LET k == calls[c].token  i == tokens[k].of
     IN  LockFree(i) /\ issued' = [issued EXCEPT ![i] = Append(@, k)]
  /\ calls' = [calls EXCEPT ![c] = Idle]
  /\ verdict' = NoCheck
  /\ UNCHANGED <<clock, users, tokens, added, history>>

-------------------------------------------------------------------------------
(* validate_jwt(), called directly, for userinfo or for introspect          *)

\* Mutant: a token is expired in the second of its `exp'.
ExpiredAt(exp) == exp <= sec

Expired(exp) == exp < sec

Validate(c, i, k) ==
  /\ calls[c] = Idle
  /\ verdict' = [token |-> k, by |-> i,
                 says |-> IF Secret[tokens[k].of] # Secret[i] THEN "signature mismatch"
                          ELSE IF Expired(tokens[k].exp) THEN "token expired" ELSE "valid"]
  /\ UNCHANGED <<clock, users, issued, tokens, calls, added, history>>

-------------------------------------------------------------------------------
(* reset()                                                                 *)

\* Mutant: the lock is not taken.
ResetUnlocked(c, i) ==
  /\ calls[c] = Idle
  /\ users' = [users EXCEPT ![i] = Nobody]
  /\ calls' = [calls EXCEPT ![c] = [pc |-> "reset", of |-> i,
                                    before |-> Finished(i)]]
  /\ verdict' = NoCheck
  /\ UNCHANGED <<clock, issued, tokens, added, history>>

ResetUsers(c, i) ==
  /\ calls[c] = Idle /\ LockFree(i)
  /\ users' = [users EXCEPT ![i] = Nobody]
  /\ calls' = [calls EXCEPT ![c] = [pc |-> "reset", of |-> i,
                                    before |-> Finished(i)]]
  /\ verdict' = NoCheck
  /\ UNCHANGED <<clock, issued, tokens, added, history>>

\* Mutant: _issued is left alone.
KeepLog(c) ==
  /\ calls[c].pc = "reset"
  /\ stale' = [stale EXCEPT ![calls[c].of] = calls[c].before]
  /\ calls' = [calls EXCEPT ![c] = Idle]
  /\ verdict' = NoCheck
  /\ UNCHANGED <<clock, users, issued, tokens, added, cleared>>

ClearLog(c) ==
  /\ calls[c].pc = "reset"
  /\ LET i == calls[c].of
     IN  /\ issued' = [issued EXCEPT ![i] = <<>>]
         /\ cleared' = [cleared EXCEPT ![i] = @ \cup {issued[i][j] : j \in DOMAIN issued[i]}]
         /\ stale' = [stale EXCEPT ![i] = calls[c].before]
  /\ calls' = [calls EXCEPT ![c] = Idle]
  /\ verdict' = NoCheck
  /\ UNCHANGED <<clock, users, tokens, added>>

Next == \/ Tick
        \/ \E c \in Callers : Log(c) \/ ClearLog(c)
        \/ \E c \in Callers, i \in Instances :
             \/ \E n \in Names : AddUser(c, i, n)
             \/ \E ttl \in Ttls \cup {None} : Sign(c, i, ttl)
             \/ \E k \in DOMAIN tokens : Validate(c, i, k)
             \/ ResetUsers(c, i)

Spec == Init /\ [][Next]_vars

-------------------------------------------------------------------------------
(* The parts of a token are base64 without its padding: lengths.           *)

Encoded(n)  == 4 * ((n + 2) \div 3)
Stripped(n) == Encoded(n) - (IF n % 3 = 0 THEN 0 ELSE 3 - (n % 3))

Padding(l) == IF l % 4 # 0 THEN 4 - (l % 4) ELSE 0

-------------------------------------------------------------------------------
(* Properties.                                                             *)

Token  == [of: Instances, sec: 0..MaxSec, frac: 0..Ticks - 1, ttl: Ttls \cup {None}, exp: Int]
Before == [users: 0..MaxUsers, tokens: SUBSET (1..MaxTokens)]
Call   == {Idle} \cup [pc: {"signed"}, token: 1..MaxTokens]
                 \cup [pc: {"reset"}, of: Instances, before: Before]
Check  == {NoCheck} \cup [token: 1..MaxTokens, by: Instances,
                          says: {"signature mismatch", "token expired", "valid"}]

\* A call has one token at hand that no other call has, and holds one lock at most
\* that no other call holds; an instance logs its own tokens.
TypeOK ==
  /\ sec \in 0..MaxSec /\ frac \in 0..Ticks - 1
  /\ users \in [Instances -> [Names -> 0..added]]
  /\ issued \in [Instances -> Seq(DOMAIN tokens)]
  /\ \A i \in Instances : \A j \in DOMAIN issued[i] : tokens[issued[i][j]].of = i
  /\ tokens \in Seq(Token) /\ Len(tokens) <= MaxTokens
  /\ calls \in [Callers -> Call]
  /\ \A c \in Callers : calls[c].pc = "signed" => calls[c].token \in DOMAIN tokens
  /\ \A c, d \in Callers : c # d /\ calls[c] # Idle /\ calls[c].pc = calls[d].pc =>
       IF calls[c].pc = "signed" THEN calls[c].token # calls[d].token
                                 ELSE calls[c].of # calls[d].of
  /\ added \in 0..MaxUsers
  /\ verdict \in Check /\ verdict.token <= Len(tokens)
  /\ stale \in [Instances -> Before]
  /\ cleared \in [Instances -> SUBSET (DOMAIN tokens)]

PromisedLife(t) == IF t.ttl = None THEN Ttl ELSE t.ttl

\* It is n seconds after the clock was read for t, or earlier.
Within(t, n)  == sec < t.sec + n \/ (sec = t.sec + n /\ frac <= t.frac)

\* A token is valid to its issuer for all of the ttl asked for, 0 included, though
\* both times are cut down to whole seconds.
LivesItsTtl ==
  verdict # NoCheck =>
    LET t == tokens[verdict.token]
    IN  Secret[t.of] = Secret[verdict.by] /\ Within(t, PromisedLife(t)) => verdict.says = "valid"

\* And to nobody else, and for less than a second longer.
DiesInTime ==
  verdict # NoCheck /\ verdict.says = "valid" =>
    LET t == tokens[verdict.token]
    IN  Secret[t.of] = Secret[verdict.by] /\ Within(t, PromisedLife(t) + 1)

\* Of the users added and tokens handed out when reset() began none is there once it
\* has returned, however the threads' calls ran on.
ResetForgets ==
  \A i \in Instances :
    /\ \A n \in Names : users[i][n] \notin 1..stale[i].users
    /\ \A j \in DOMAIN issued[i] : issued[i][j] \notin stale[i].tokens

\* issued_tokens has every token handed out, once, but for those a reset() has
\* removed ("every token this instance has signed", services/auth.py:190).
ReturnedAreIssued ==
  /\ \A k \in Returned : \/ \E j \in DOMAIN issued[tokens[k].of] : issued[tokens[k].of][j] = k
                         \/ k \in cleared[tokens[k].of]
  /\ \A i \in Instances : \A j, l \in DOMAIN issued[i] : issued[i][j] = issued[i][l] => j = l
===============================================================================
