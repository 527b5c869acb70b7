----------------------------- MODULE MCManager -----------------------------
EXTENDS Manager, TLC

CONSTANTS p1, p2

MCSize == p1 :> 1 @@ p2 :> 2
AttemptSymmetry == Permutations(Attempts)
=============================================================================
