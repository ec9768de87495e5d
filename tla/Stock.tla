-------------------------------- MODULE Stock --------------------------------
(***************************************************************************)
(* The balance of a group of products that share their stock in a branch   *)
(* (InventoryBalance), as packages and loose units, and what each movement *)
(* of hammer-api/src/modules/inventory/service.ts makes of it.  A product  *)
(* that does not track packages is one whose packages are always zero.     *)
(* The quantity on hand is written with every change of the two parts, and *)
(* from them: here it is OnHand.                                           *)
(***************************************************************************)
EXTENDS Integers

CONSTANTS
    Factor,     \* units in a package (conversionFactorToBase)
    Reserve,    \* packages that are never opened by themselves
    AutoOpen    \* autoOpenForUnitSale

ASSUME StockAssumption ==
    /\ Factor \in Nat \ {0}
    /\ Reserve \in Nat
    /\ AutoOpen \in BOOLEAN

Balances == [closed: Nat, loose: Nat]

\* The products of a group: the closed presentation and the base product.
Members == {"PACKAGE", "BASE"}

OnHand(b) == b.closed * Factor + b.loose

\* What q units of a product are, as a change of each part.
ClosedPart(m, q) == IF m = "PACKAGE" THEN q ELSE 0
LoosePart(m, q) == IF m = "PACKAGE" THEN 0 ELSE q

-----------------------------------------------------------------------------
(* createInventoryMovementTx                                               *)

\* PACKAGES, LOOSE and EXPLICIT: both parts after a change, if it fits.
Fits(b, closedDelta, looseDelta) ==
    /\ b.closed + closedDelta >= 0
    /\ b.loose + looseDelta >= 0

Changed(b, closedDelta, looseDelta) ==
    [closed |-> b.closed + closedDelta, loose |-> b.loose + looseDelta]

\* BASE_AUTO: the packages to open so that q loose units can leave.
PackagesToOpen(b, q) ==
    IF q <= b.loose THEN 0 ELSE (q - b.loose + Factor - 1) \div Factor

CanOpenFor(b, q) ==
    PackagesToOpen(b, q) > 0 =>
        /\ AutoOpen
        /\ PackagesToOpen(b, q) <= b.closed - Reserve

Opened(b, n) == Changed(b, -n, n * Factor)

-----------------------------------------------------------------------------
(* createOpeningBalanceTx of a physical count.                             *)

\* The base product is set to q.  The difference that makes it a change is
\* read before the lock: a balance that is right already may be written or not.
SetToPhysical(b, q) ==
    {[b EXCEPT !.loose = q]} \union (IF OnHand(b) = q THEN {b} ELSE {})
=============================================================================
