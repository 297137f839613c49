----------------------------- MODULE MCAuthService -----------------------------
(* A small instance of AuthService for TLC. *)
EXTENDS AuthService, TLC

CONSTANTS first, second, thread1, thread2, ada

\* Random, so no two are alike.
OwnSecrets == [i \in Instances |-> i]

\* Next to the default.
SomeTtls == {0}

\* No action looks at who is who.
Interchangeable == Permutations({first, second}) \cup Permutations({thread1, thread2})
===============================================================================
