---------------------------- MODULE MCServiceStores ----------------------------
(* A small instance of ServiceStores for TLC. *)
EXTENDS ServiceStores, TLC

CONSTANTS route, topic, object, a, b

\* All but the last, none, one, and the default of ten.
SomeLimits == {-1, 0, 1, 10}

TwoCallers == Permutations({a, b})
================================================================================
