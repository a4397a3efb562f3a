-------------------------- MODULE MCLimiterStatus --------------------------
(* Instances of LimiterStatus for TLC.                                     *)
EXTENDS LimiterStatus

CONSTANT p1
=============================================================================
