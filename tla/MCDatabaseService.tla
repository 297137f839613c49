--------------------------- MODULE MCDatabaseService ---------------------------
(* A small instance of DatabaseService for TLC. *)
EXTENDS DatabaseService, TLC

CONSTANTS users, orders, users1, users2, orders1, one, two

\* Two shapes of one table, one of the other.
SomeTableOf == users1 :> users @@ users2 :> users @@ orders1 :> orders

\* One or two keys, the same twice among them.
SomeBatches == UNION {[1..n -> Keys] : n \in {1, 2}}

TwoKeys == Permutations({one, two})
===============================================================================
