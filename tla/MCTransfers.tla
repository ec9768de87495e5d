----------------------------- MODULE MCTransfers -----------------------------
(* Instances of Transfers for TLC. *)
EXTENDS Transfers, TLC

\* All the stock is in one branch.
AllInFirst(b) ==
    [c \in Branches |-> IF c = b THEN [closed |-> 3, loose |-> 1] ELSE [closed |-> 0, loose |-> 1]]

First == AllInFirst(CHOOSE b \in Branches: TRUE)

Symmetry == Permutations(TransferIds)
=============================================================================
