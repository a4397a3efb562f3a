-------------------------- MODULE MCPodController --------------------------
(* Instances of PodController for TLC.  With byte limits from 1 to 2 and   *)
(* quantities in half bytes, 2 is valid and 3 is a fraction.               *)
EXTENDS PodController, TLC

CONSTANTS l1, l2

Tight == [bps |-> 2, iops |-> 0]
Typo  == [bps |-> 3, iops |-> 1]

OnlyTight == {Tight}
TightTypo == {Tight, Typo}

Swap == Permutations({l1, l2})
=============================================================================
