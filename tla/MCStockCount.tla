---------------------------- MODULE MCStockCount -----------------------------
(* Instances of StockCount for TLC. *)
EXTENDS StockCount, TLC

\* A product without packages, and one with a package.
AnyStart == {[closed |-> 0, loose |-> 1], [closed |-> 1, loose |-> 1]}
Packaged == {[closed |-> 1, loose |-> 1]}

\* No action singles out a phone, an event or a call (with one call, its
\* permutations are the identity).
Symmetry == Permutations(Phones) \union Permutations(Events)
=============================================================================
