------------------------------ MODULE MCAgent ------------------------------
(* Instances of Agent for TLC: each volume on a disk of its own (named     *)
(* after it, so that one permutation swaps both), or all volumes but c on  *)
(* one disk, and c on no disk at all.                                      *)
EXTENDS Agent, TLC

CONSTANTS a, b, c, disk

OwnDisk == [v \in Volumes |-> v]
OneDisk == [v \in Volumes |-> IF v = c THEN NoDevice ELSE disk]

\* All specs there are.
AnySpec == [Volumes -> Rule]

\* Rules of a and b of which neither is the tighter, so that the rule of their
\* disk is that of no volume; and a spec that only limits c.
Pair(x, y) == [k \in Keys |-> IF k = "rbps" THEN x ELSE y]
SpecOf(x, y, z) == [v \in Volumes |-> CASE v = a -> x [] v = b -> y [] OTHER -> z]
Crossed ==
    { SpecOf(Pair(1, NoLimit), Pair(2, 1), NoRule),
      SpecOf(NoRule, NoRule, Pair(1, NoLimit)) }

\* DeviceOf is the same under the swap.
Swap == Permutations({a, b})
=============================================================================
