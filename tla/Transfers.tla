------------------------------ MODULE Transfers ------------------------------
(***************************************************************************)
(* The stock of a group of products in several branches, and what moves it *)
(* while it exists nowhere but on paper: transfers between branches        *)
(* (transfers/service.ts of hammer-api/src/modules), sales and their       *)
(* cancellation, packages that are opened and made (inventory/service.ts). *)
(*                                                                         *)
(* A handler locks its transfer or its balance before it reads what it     *)
(* decides on, and keeps the lock to the end: each is one action.  What a  *)
(* handler reads before the lock decides nothing that it does not check    *)
(* again.                                                                  *)
(***************************************************************************)
EXTENDS Stock, FiniteSets, Functions

CONSTANTS
    Branches,
    TransferIds,
    SaleIds,
    MaxQuantity,    \* units asked for at a time (a bound)
    MaxEarlier,     \* units in the earlier items of one line of a reception (a bound)
    MaxOpened,      \* packages opened by hand before that stops (a bound)
    Initial         \* branch -> its balance at the start

\* Branches, transfers and sales are rows of tables.
ASSUME TransfersAssumption ==
    /\ Branches # {}
    /\ IsFiniteSet(Branches) /\ IsFiniteSet(TransferIds) /\ IsFiniteSet(SaleIds)
    /\ MaxQuantity \in Nat
    /\ MaxEarlier \in Nat
    /\ MaxOpened \in Nat
    /\ Initial \in [Branches -> Balances]

VARIABLES
    balance,    \* branch -> its balance
    transfer,   \* Transfer and its TransferLines
    sale,       \* the movements of a sale
    opened      \* packages opened so far, less those made

vars == <<balance, transfer, sale, opened>>

-----------------------------------------------------------------------------
(* Data.                                                                   *)

TransferStatuses ==
    {"NONE", "DRAFT", "APPROVED", "IN_TRANSIT", "PARTIALLY_RECEIVED", "RECEIVED", "CANCELLED"}

\* The lines of a transfer, one for a product (the unique key of the table): a
\* line that asks for nothing is one the transfer does not have.  "arrived" is
\* what its TRANSFER_IN movements moved; "repeated" is no column, but remembers
\* that a reception named a line more than once.
TransferRows ==
    [status: TransferStatuses, from: Branches, to: Branches,
     requested: [Members -> Nat], dispatched: [Members -> Nat],
     received: [Members -> Nat], arrived: [Members -> Nat], repeated: BOOLEAN]

\* A sale and the change of each part its movement recorded.
SaleRows ==
    [status: {"NONE", "SOLD", "CANCELLED"}, branch: Branches, closed: Nat, loose: Nat]

None == [m \in Members |-> 0]

NoTransfer ==
    [status |-> "NONE", from |-> CHOOSE b \in Branches: TRUE, to |-> CHOOSE b \in Branches: TRUE,
     requested |-> None, dispatched |-> None, received |-> None, arrived |-> None,
     repeated |-> FALSE]

NoSale ==
    [status |-> "NONE", branch |-> CHOOSE b \in Branches: TRUE, closed |-> 0, loose |-> 0]

TypeOK ==
    /\ balance \in [Branches -> Balances]
    /\ transfer \in [TransferIds -> TransferRows]
    /\ sale \in [SaleIds -> SaleRows]
    /\ opened \in Int

Init ==
    /\ balance = Initial
    /\ transfer = [t \in TransferIds |-> NoTransfer]
    /\ sale = [s \in SaleIds |-> NoSale]
    /\ opened = 0

Present(t) == {m \in Members: transfer[t].requested[m] > 0}

Pending(t, m) == transfer[t].dispatched[m] - transfer[t].received[m]

\* What the quantities of all lines are, as a change of each part.
ClosedOf(quantity) == quantity["PACKAGE"]
LooseOf(quantity) == quantity["BASE"]

-----------------------------------------------------------------------------
(* Transfers.                                                              *)

CreateTransfer(t, from, to, requested) ==
    /\ transfer[t].status = "NONE"
    /\ from # to
    /\ requested # None
    /\ transfer' = [transfer EXCEPT ![t] =
           [status |-> "DRAFT", from |-> from, to |-> to,
            requested |-> requested, dispatched |-> None, received |-> None,
            arrived |-> None, repeated |-> FALSE]]
    /\ UNCHANGED <<balance, sale, opened>>

ApproveTransfer(t) ==
    /\ transfer[t].status = "DRAFT"
    /\ transfer' = [transfer EXCEPT ![t].status = "APPROVED"]
    /\ UNCHANGED <<balance, sale, opened>>

\* All lines leave the branch; with allowAutoOpen, packages are opened for the
\* units that are missing, those in reserve excepted.
Dispatched(t, allowAutoOpen) ==
    LET row == transfer[t]
        b == balance[row.from]
        n == IF allowAutoOpen THEN PackagesToOpen(b, LooseOf(row.requested)) ELSE 0
    IN  /\ n > 0 => CanOpenFor(b, LooseOf(row.requested))
        /\ Fits(Opened(b, n), -ClosedOf(row.requested), -LooseOf(row.requested))
        /\ balance' = [balance EXCEPT ![row.from] =
               Changed(Opened(b, n), -ClosedOf(row.requested), -LooseOf(row.requested))]
        /\ opened' = opened + n
        /\ transfer' = [transfer EXCEPT ![t].status = "IN_TRANSIT",
                                        ![t].dispatched = row.requested]
        /\ UNCHANGED sale

\* Mutants: the status is not read again under the lock; the stock is compared
\* as a whole only.
DispatchAgain(t, allowAutoOpen) ==
    /\ transfer[t].status \in {"APPROVED", "IN_TRANSIT"}
    /\ Dispatched(t, allowAutoOpen)

DispatchWhole(t, allowAutoOpen) ==
    /\ transfer[t].status = "APPROVED"
    /\ LET row == transfer[t]
           b == balance[row.from]
       IN  /\ OnHand(b) >= ClosedOf(row.requested) * Factor + LooseOf(row.requested)
           /\ balance' = [balance EXCEPT ![row.from] =
                  Changed(b, -ClosedOf(row.requested), -LooseOf(row.requested))]
           /\ transfer' = [transfer EXCEPT ![t].status = "IN_TRANSIT",
                                           ![t].dispatched = row.requested]
           /\ UNCHANGED <<sale, opened>>

DispatchTransfer(t, allowAutoOpen) ==
    /\ transfer[t].status = "APPROVED"
    /\ Dispatched(t, allowAutoOpen)

\* Each item is compared with its line as it was before the reception, not with
\* what the items before it left: any number of items of one line pass.
CanReceive(t, items) ==
    /\ transfer[t].status \in {"IN_TRANSIT", "PARTIALLY_RECEIVED"}
    /\ \E m \in Members: items[m].last > 0
    /\ \A m \in Members: items[m].last <= Pending(t, m)

\* Every item moves stock ...
Moved(items) == [m \in Members |-> items[m].before + items[m].last]

\* ... and writes what the line had received plus its own quantity: the last
\* item of a line writes over the earlier ones.
Received(t, items) == [m \in Members |-> transfer[t].received[m] + items[m].last]

ReceivedAs(t, items, status) ==
    /\ balance' = [balance EXCEPT ![transfer[t].to] =
           Changed(@, ClosedOf(Moved(items)), LooseOf(Moved(items)))]
    /\ transfer' = [transfer EXCEPT
           ![t].received = Received(t, items),
           ![t].arrived = [m \in Members |-> @[m] + Moved(items)[m]],
           ![t].repeated = @ \/ \E m \in Members: items[m].before > 0,
           ![t].status = status]
    /\ UNCHANGED <<sale, opened>>

\* Mutant: a reception is complete once every line has an item in it.
ReceiveTransferComplete(t, items) ==
    /\ CanReceive(t, items)
    /\ ReceivedAs(t, items,
           IF \A m \in Present(t): items[m].last > 0 THEN "RECEIVED" ELSE "PARTIALLY_RECEIVED")

ReceiveTransfer(t, items) ==
    /\ CanReceive(t, items)
    /\ ReceivedAs(t, items,
           IF \A m \in Members: Received(t, items)[m] >= transfer[t].dispatched[m]
           THEN "RECEIVED" ELSE "PARTIALLY_RECEIVED")

CancelTransfer(t) ==
    /\ transfer[t].status \in {"DRAFT", "APPROVED"}
    /\ transfer' = [transfer EXCEPT ![t].status = "CANCELLED"]
    /\ UNCHANGED <<balance, sale, opened>>

-----------------------------------------------------------------------------
(* Sales and packages.                                                     *)

\* consumeSharedStockForSaleTx: packages are opened for units that are missing.
Sell(s, b, m, q) ==
    LET n == IF m = "BASE" THEN PackagesToOpen(balance[b], q) ELSE 0
    IN  /\ sale[s].status = "NONE"
        /\ n > 0 => CanOpenFor(balance[b], q)
        /\ Fits(Opened(balance[b], n), -ClosedPart(m, q), -LoosePart(m, q))
        /\ balance' = [balance EXCEPT
               ![b] = Changed(Opened(@, n), -ClosedPart(m, q), -LoosePart(m, q))]
        /\ opened' = opened + n
        /\ sale' = [sale EXCEPT ![s] = [status |-> "SOLD", branch |-> b,
                                        closed |-> ClosedPart(m, q), loose |-> LoosePart(m, q)]]
        /\ UNCHANGED transfer

\* Mutant: the units come back as units, whatever they were sold as.
CancelSaleAsUnits(s) ==
    /\ sale[s].status = "SOLD"
    /\ balance' = [balance EXCEPT
           ![sale[s].branch] = Changed(@, 0, sale[s].closed * Factor + sale[s].loose)]
    /\ sale' = [sale EXCEPT ![s].status = "CANCELLED"]
    /\ UNCHANGED <<transfer, opened>>

\* The reversal in cancelSaleOrderTx: the exact change the sale recorded; the
\* packages opened for it stay open.
CancelSale(s) ==
    /\ sale[s].status = "SOLD"
    /\ balance' = [balance EXCEPT
           ![sale[s].branch] = Changed(@, sale[s].closed, sale[s].loose)]
    /\ sale' = [sale EXCEPT ![s].status = "CANCELLED"]
    /\ UNCHANGED <<transfer, opened>>

\* openStockPackage of a package that holds what it should.
OpenStockPackage(b) ==
    /\ opened < MaxOpened
    /\ balance[b].closed >= 1
    /\ balance' = [balance EXCEPT ![b] = Opened(@, 1)]
    /\ opened' = opened + 1
    /\ UNCHANGED <<transfer, sale>>

\* closeStockPackage of as many units as a package should hold.
CloseStockPackage(b) ==
    /\ balance[b].loose >= Factor
    /\ balance' = [balance EXCEPT ![b] = Opened(@, -1)]
    /\ opened' = opened - 1
    /\ UNCHANGED <<transfer, sale>>

-----------------------------------------------------------------------------
(* The specification.                                                      *)

Quantities == 1..MaxQuantity

Asked == [Members -> 0..MaxQuantity]

\* What the items of a reception come to for each line: the quantity of the last
\* item that names it, 0 if none does, and the sum of the earlier ones.
ItemSums ==
    {i \in [last: 0..MaxQuantity, before: 0..MaxEarlier]: i.last = 0 => i.before = 0}

ItemLists == [Members -> ItemSums]

Next ==
    \/ \E t \in TransferIds:
           \/ \E from, to \in Branches, requested \in Asked: CreateTransfer(t, from, to, requested)
           \/ ApproveTransfer(t)
           \/ \E allowAutoOpen \in BOOLEAN: DispatchTransfer(t, allowAutoOpen)
           \/ \E items \in ItemLists: ReceiveTransfer(t, items)
           \/ CancelTransfer(t)
    \/ \E s \in SaleIds:
           \/ \E b \in Branches, m \in Members, q \in Quantities: Sell(s, b, m, q)
           \/ CancelSale(s)
    \/ \E b \in Branches: OpenStockPackage(b) \/ CloseStockPackage(b)

Spec == Init /\ [][Next]_vars

-----------------------------------------------------------------------------
(* Safety.                                                                 *)

\* What receptions that name a line more than once moved and did not write: the
\* line shows it as still on its way, and it can be received once more.
Surplus(t, m) ==
    IF transfer[t].repeated THEN transfer[t].arrived[m] - transfer[t].received[m] ELSE 0

\* A part of the stock in all branches, that has left one and is not written as
\* received by another, less the surplus, that is sold, and that was there at
\* the start.
InBranches(part) == SumFunction([b \in Branches |-> balance[b][part]])

OnTheWay(m) == SumFunction([t \in TransferIds |-> Pending(t, m) - Surplus(t, m)])

InSales(part) ==
    SumFunction([s \in SaleIds |-> IF sale[s].status = "SOLD" THEN sale[s][part] ELSE 0])

AtStart(part) == SumFunction([b \in Branches |-> Initial[b][part]])

(* Nothing is lost on the way, and nothing made but the surplus of         *)
(* receptions that name a line more than once: packages are in a branch, in*)
(* a transfer, sold, or were opened.  Where no reception does, nothing is  *)
(* made at all.                                                            *)
PackagesConserved ==
    InBranches("closed") + OnTheWay("PACKAGE") + InSales("closed")
        = AtStart("closed") - opened

(* ... and loose units are in a branch, in a transfer or sold, and more by *)
(* what the packages opened held, again but for the surplus.               *)
UnitsConserved ==
    InBranches("loose") + OnTheWay("BASE") + InSales("loose")
        = AtStart("loose") + opened * Factor

(* A transfer none of whose receptions names a line more than once brings  *)
(* just what is written as received.  No more is written than was          *)
(* dispatched; a transfer is RECEIVED just when all of it was, so one on   *)
(* its way can always be received; and one that was cancelled or has not   *)
(* left has taken nothing from its branch.                                 *)
TransfersSound ==
    \A t \in TransferIds:
        /\ \A m \in Members:
               /\ transfer[t].received[m] <= transfer[t].dispatched[m]
               /\ transfer[t].received[m] <= transfer[t].arrived[m]
        /\ ~transfer[t].repeated => transfer[t].arrived = transfer[t].received
        /\ transfer[t].status \in {"IN_TRANSIT", "PARTIALLY_RECEIVED"} =>
               /\ transfer[t].dispatched = transfer[t].requested
               /\ \E m \in Members: Pending(t, m) > 0
        /\ transfer[t].status = "RECEIVED" =>
               transfer[t].received = transfer[t].requested
        /\ transfer[t].status \in {"DRAFT", "APPROVED", "CANCELLED"} =>
               transfer[t].dispatched = None

-----------------------------------------------------------------------------
(* What the repository says and the code does not keep (see the README).   *)

(* "No se puede recibir mas de lo despachado" (receiveTransferTx): no      *)
(* transfer brings more to its branch than left the other.                 *)
NothingBeyondDispatch ==
    \A t \in TransferIds, m \in Members: transfer[t].arrived[m] <= transfer[t].dispatched[m]
=============================================================================
