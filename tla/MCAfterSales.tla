---------------------------- MODULE MCAfterSales -----------------------------
(***************************************************************************)
(* Instances of AfterSales for TLC.                                        *)
(***************************************************************************)
EXTENDS AfterSales, TLC

\* No action singles out a return, a cancellation request or a transaction.
Symmetry == Permutations(Returns) \union Permutations(Cancels) \union Permutations(Requests)
=============================================================================
