----------------------------- MODULE MCPlacement -----------------------------
(* Instances of Placement for TLC.                                         *)
EXTENDS Placement, TLC

CONSTANTS g1, g2, p1, p2

\* Two tasks in two phases, alone and beside a group of one task on the same node.
TwoPhases == g1 :> <<{1}, {2}>>
TwoGroups == (g1 :> <<{1}, {2}>>) @@ (g2 :> <<{1}>>)

ThreadSymmetry == Permutations(Threads)
=============================================================================
