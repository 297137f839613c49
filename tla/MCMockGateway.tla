----------------------------- MODULE MCMockGateway -----------------------------
(* A small instance of MockGateway for TLC. *)
EXTENDS MockGateway

CONSTANTS git, github, issues, ping

\* What is under /github starts with /git as well.
SomePaths   == {"/github/issues", "/git/ping"}
Shadowing   == [p \in SomePaths |-> IF p = "/git/ping" THEN {git} ELSE {git, github}]
LastSegment == [p \in SomePaths |-> IF p = "/git/ping" THEN ping ELSE issues]

\* What writes, for the one path; a GET and a canned POST for the other.
SomeCalls   ==
  {c \in Call : /\ c.shape = "list" => c.method = "PUT"
                /\ c.method \in IF c.path = "/git/ping" THEN {"GET", "POST"}
                                ELSE {"POST", "PUT", "DELETE"}}
CannedPing  == {<<"POST", "/git/ping">>}
================================================================================
