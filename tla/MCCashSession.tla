---------------------------- MODULE MCCashSession ----------------------------
(***************************************************************************)
(* Instances of CashSession for TLC.  Each configuration chooses with      *)
(* Handlers the operations whose interleavings it explores.                *)
(***************************************************************************)
EXTENDS CashSession, TLC

\* The movements of the drawer are outflows.
OutOnly == {-1}

\* Sessions and requests are interchangeable: no action singles one out.
Symmetry == Permutations(Sessions) \union Permutations(Requests)

\* So are the boxes, in the instances with more than one.
BoxSymmetry == Symmetry \union Permutations(Boxes)
=============================================================================
