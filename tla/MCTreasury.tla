----------------------------- MODULE MCTreasury ------------------------------
\* Small instances of Treasury.
EXTENDS Treasury, TLC

Symmetry ==
    Permutations(Sessions) \union Permutations(People) \union Permutations(Expenses)
    \union Permutations(Deposits) \union Permutations(Requests)
=============================================================================
