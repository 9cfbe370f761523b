------------------------------- MODULE MCTriage -------------------------------
\* Small instances of Triage: one long trip, the two it may be split into,
\* and the same two with their boundaries moved.
EXTENDS Triage, TLC

CONSTANTS decide1, decide2, bulk1, attach1, mint1

MCNear(p, q) == TRUE

At(a, b) == [start |-> a, end |-> b, dest |-> 0]

\* Whole, split, and the split drifted.
MCDetections == {{At(0, 8)}, {At(0, 3), At(4, 7)}, {At(1, 4), At(5, 8)}}

MCSymmetry == Permutations(Singles)
=============================================================================
