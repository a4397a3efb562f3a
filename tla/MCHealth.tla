------------------------------ MODULE MCHealth ------------------------------
(* Instances of Health for TLC: two objects, so that one is busy, failing  *)
(* or gone while the other is waiting.                                     *)
EXTENDS Health

CONSTANTS o1, o2

\* The rate limiter of controller-runtime doubles its delay.
Doubling == [n \in 0..MaxFails |-> 2 ^ n]
=============================================================================
