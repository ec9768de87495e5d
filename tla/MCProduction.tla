---------------------------- MODULE MCProduction ----------------------------
\* Small instances of Production: batches of one branch, and one of another.
EXTENDS Production, TLC

CONSTANTS b1, b2, b3, north, south

MCBranchOf == [b \in Batches |-> IF b = b3 THEN south ELSE north]

Symmetry == Permutations({b1, b2}) \union Permutations(Requests)
=============================================================================
