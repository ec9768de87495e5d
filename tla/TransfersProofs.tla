--------------------------- MODULE TransfersProofs ---------------------------
(***************************************************************************)
(* Proofs about Transfers, for all branches, transfers, sales, quantities  *)
(* and starting balances.                                                  *)
(*                                                                         *)
(* TransfersSound and the types are inductive together, but for one fact:  *)
(* a transfer that was approved and not dispatched asks for something, so  *)
(* that when it leaves something is on its way (AsksForSomething).         *)
(*                                                                         *)
(* That stock is conserved is a fact about three sums.  A step changes one *)
(* balance, one transfer and one sale at most, and each sum by what its    *)
(* row changed (SumChange); Conserved is what is left to add up.           *)
(***************************************************************************)
EXTENDS Transfers, Sums

AsksForSomething ==
    \A t \in TransferIds:
        transfer[t].status \notin {"NONE", "CANCELLED"} =>
            \E m \in Members: transfer[t].requested[m] > 0

NothingBefore ==
    \A t \in TransferIds:
        transfer[t].status \in {"NONE", "DRAFT", "APPROVED", "CANCELLED"} =>
            /\ transfer[t].dispatched = None /\ transfer[t].received = None
            /\ transfer[t].arrived = None /\ ~transfer[t].repeated

Inv == TypeOK /\ TransfersSound /\ AsksForSomething /\ NothingBefore

-----------------------------------------------------------------------------
(* The balances.                                                           *)

\* A change that fits leaves a balance.
LEMMA ChangedType ==
    ASSUME NEW b \in Balances, NEW x \in Int, NEW y \in Int, Fits(b, x, y)
    PROVE  Changed(b, x, y) \in Balances
BY DEF Balances, Fits, Changed

\* Packages that are opened for some units leave a balance.
LEMMA OpenedType ==
    ASSUME NEW b \in Balances, NEW q \in Nat,
           PackagesToOpen(b, q) > 0 => CanOpenFor(b, q)
    PROVE  /\ PackagesToOpen(b, q) \in Nat
           /\ Opened(b, PackagesToOpen(b, q)) \in Balances
<1>. DEFINE n == PackagesToOpen(b, q)
<1>1. n \in Nat
  <2>1. b.loose \in Nat
    BY DEF Balances
  <2>2. Factor \in Nat \ {0}
    BY StockAssumption
  <2>3. CASE q <= b.loose
    BY <2>3 DEF PackagesToOpen
  <2>4. CASE ~(q <= b.loose)
    <3>1. q - b.loose + Factor - 1 \in Nat
      BY <2>1, <2>2, <2>4
    <3>2. (q - b.loose + Factor - 1) \div Factor \in Nat
      BY <3>1, <2>2, Z3
    <3>. QED  BY <3>2, <2>4 DEF PackagesToOpen
  <2>. QED  BY <2>3, <2>4
<1>2. n <= b.closed
  <2>1. CASE n > 0
    BY <2>1, <1>1, StockAssumption DEF CanOpenFor, Balances
  <2>2. CASE n = 0
    BY <2>2 DEF Balances
  <2>. QED  BY <1>1, <2>1, <2>2
<1>3. n * Factor \in Nat
  BY <1>1, StockAssumption
<1>. HIDE DEF n
<1>4. Opened(b, n) \in Balances
  BY <1>1, <1>2, <1>3 DEF Opened, Changed, Balances
<1>. QED  BY <1>1, <1>4 DEF n

-----------------------------------------------------------------------------
(* Init and Next.                                                          *)

LEMMA InitInv == Init => Inv
<1>. SUFFICES ASSUME Init PROVE Inv
  OBVIOUS
<1>1. (CHOOSE b \in Branches: TRUE) \in Branches
  BY TransfersAssumption
<1>2. NoTransfer \in TransferRows
  BY <1>1 DEF NoTransfer, TransferRows, TransferStatuses, None
<1>3. NoSale \in SaleRows
  BY <1>1 DEF NoSale, SaleRows
<1>4. TypeOK
  BY <1>2, <1>3, TransfersAssumption DEF Init, TypeOK
<1>5. TransfersSound /\ AsksForSomething /\ NothingBefore
  BY DEF Init, TransfersSound, AsksForSomething, NothingBefore, NoTransfer, None, Pending
<1>. QED  BY <1>4, <1>5 DEF Inv

\* What a transfer is in a state of the invariant.
RowSound(row) ==
    /\ row \in TransferRows
    /\ \A m \in Members:
           row.received[m] <= row.dispatched[m] /\ row.received[m] <= row.arrived[m]
    /\ ~row.repeated => row.arrived = row.received
    /\ row.status \in {"IN_TRANSIT", "PARTIALLY_RECEIVED"} =>
           /\ row.dispatched = row.requested
           /\ \E m \in Members: row.dispatched[m] - row.received[m] > 0
    /\ row.status = "RECEIVED" => row.received = row.requested
    /\ row.status \in {"NONE", "DRAFT", "APPROVED", "CANCELLED"} =>
           /\ row.dispatched = None /\ row.received = None
           /\ row.arrived = None /\ ~row.repeated
    /\ row.status \notin {"NONE", "CANCELLED"} => \E m \in Members: row.requested[m] > 0

\* The invariant of the whole is that of each transfer, and the types.
LEMMA InvIsRowSound ==
    Inv <=> /\ TypeOK
            /\ \A t \in TransferIds: RowSound(transfer[t])
<1>1. Inv => \A t \in TransferIds: RowSound(transfer[t])
  BY DEF Inv, TypeOK, TransfersSound, AsksForSomething, NothingBefore, RowSound, Pending
<1>2. ASSUME TypeOK, \A t \in TransferIds: RowSound(transfer[t])
      PROVE  Inv
  BY <1>2 DEF Inv, TypeOK, TransfersSound, AsksForSomething, NothingBefore, RowSound, Pending
<1>. QED  BY <1>1, <1>2 DEF Inv

\* A step of one transfer.
LEMMA TransferStep ==
    ASSUME Inv, NEW t \in TransferIds, NEW row, RowSound(row),
           transfer' = [transfer EXCEPT ![t] = row],
           TypeOK'
    PROVE  Inv'
<1>1. \A u \in TransferIds: transfer'[u] = IF u = t THEN row ELSE transfer[u]
  BY DEF Inv, TypeOK
<1>2. \A u \in TransferIds: RowSound(transfer'[u])
  BY <1>1, InvIsRowSound
<1>3. (\A u \in TransferIds: RowSound(transfer[u]))'
  BY <1>2
<1>4. TypeOK' /\ (\A u \in TransferIds: RowSound(transfer[u]))' => Inv'
  BY DEF Inv, TypeOK, TransfersSound, AsksForSomething, NothingBefore, RowSound, Pending
<1>. QED  BY <1>3, <1>4

\* A step that leaves every transfer alone.
LEMMA OtherStep ==
    ASSUME Inv, TypeOK', UNCHANGED transfer
    PROVE  Inv'
BY DEF Inv, TransfersSound, AsksForSomething, NothingBefore, Pending

LEMMA CreateStep ==
    ASSUME Inv, NEW t \in TransferIds, NEW from \in Branches, NEW to \in Branches,
           NEW requested \in Asked, CreateTransfer(t, from, to, requested)
    PROVE  Inv'
<1>. DEFINE row == [status |-> "DRAFT", from |-> from, to |-> to,
                    requested |-> requested, dispatched |-> None, received |-> None,
                    arrived |-> None, repeated |-> FALSE]
<1>1. requested \in [Members -> Nat]
  BY TransfersAssumption DEF Asked
<1>2. \E m \in Members: requested[m] > 0
  BY <1>1 DEF CreateTransfer, None
<1>3. RowSound(row)
  BY <1>1, <1>2 DEF RowSound, TransferRows, TransferStatuses, None
<1>4. transfer' = [transfer EXCEPT ![t] = row]
  BY DEF CreateTransfer
<1>5. TypeOK'
  BY <1>3, <1>4 DEF Inv, TypeOK, CreateTransfer, RowSound
<1>. QED  BY <1>3, <1>4, <1>5, TransferStep

LEMMA StatusStep ==
    ASSUME Inv, NEW t \in TransferIds, ApproveTransfer(t) \/ CancelTransfer(t)
    PROVE  Inv'
<1>0. RowSound(transfer[t])
  BY InvIsRowSound
<1>1. CASE ApproveTransfer(t)
  <2>. DEFINE row == [transfer[t] EXCEPT !.status = "APPROVED"]
  <2>1. RowSound(row)
    BY <1>0, <1>1 DEF ApproveTransfer, RowSound, TransferRows, TransferStatuses
  <2>2. transfer' = [transfer EXCEPT ![t] = row]
    BY <1>1 DEF ApproveTransfer
  <2>. HIDE DEF row
  <2>3. TypeOK'
    BY <1>1, <2>1, <2>2 DEF Inv, TypeOK, ApproveTransfer, RowSound
  <2>. QED  BY <2>1, <2>2, <2>3, TransferStep
<1>2. CASE CancelTransfer(t)
  <2>. DEFINE row == [transfer[t] EXCEPT !.status = "CANCELLED"]
  <2>1. RowSound(row)
    BY <1>0, <1>2 DEF CancelTransfer, RowSound, TransferRows, TransferStatuses
  <2>2. transfer' = [transfer EXCEPT ![t] = row]
    BY <1>2 DEF CancelTransfer
  <2>. HIDE DEF row
  <2>3. TypeOK'
    BY <1>2, <2>1, <2>2 DEF Inv, TypeOK, CancelTransfer, RowSound
  <2>. QED  BY <2>1, <2>2, <2>3, TransferStep
<1>. QED  BY <1>1, <1>2

LEMMA DispatchStep ==
    ASSUME Inv, NEW t \in TransferIds, NEW allowAutoOpen \in BOOLEAN,
           DispatchTransfer(t, allowAutoOpen)
    PROVE  Inv'
<1>. DEFINE row == [transfer[t] EXCEPT !.status = "IN_TRANSIT",
                                       !.dispatched = transfer[t].requested]
            b == balance[transfer[t].from]
            closed == transfer[t].requested["PACKAGE"]
            loose == transfer[t].requested["BASE"]
            n == IF allowAutoOpen THEN PackagesToOpen(b, loose) ELSE 0
<1>1. RowSound(transfer[t]) /\ transfer[t].status = "APPROVED"
  BY InvIsRowSound DEF DispatchTransfer
<1>2. transfer[t].from \in Branches /\ closed \in Nat /\ loose \in Nat
  BY <1>1 DEF RowSound, TransferRows, Members
<1>3. b \in Balances
  BY <1>2 DEF Inv, TypeOK
<1>4. RowSound(row)
  <2>1. \A m \in Members: transfer[t].requested[m] \in Nat /\ transfer[t].received[m] \in Nat
    BY <1>1 DEF RowSound, TransferRows
  <2>2. \A m \in Members: transfer[t].received[m] = 0
    BY <1>1, <2>1 DEF RowSound, None
  <2>3. row \in TransferRows
    BY <1>1 DEF RowSound, TransferRows, TransferStatuses
  <2>. QED  BY <1>1, <2>1, <2>2, <2>3 DEF RowSound
<1>5. /\ n > 0 => CanOpenFor(b, loose)
      /\ Fits(Opened(b, n), -closed, -loose)
      /\ balance' = [balance EXCEPT ![transfer[t].from] =
             Changed(Opened(b, n), -closed, -loose)]
      /\ opened' = opened + n
      /\ transfer' = [transfer EXCEPT ![t] = row]
      /\ UNCHANGED sale
  BY DEF DispatchTransfer, Dispatched, ClosedOf, LooseOf
<1>6. n \in Nat /\ Opened(b, n) \in Balances
  <2>1. CASE allowAutoOpen
    BY <2>1, <1>2, <1>3, <1>5, OpenedType
  <2>2. CASE ~allowAutoOpen
    BY <2>2, <1>3, StockAssumption DEF Opened, Changed, Balances
  <2>. QED  BY <2>1, <2>2
<1>. HIDE DEF row, b, n, closed, loose
<1>7. Changed(Opened(b, n), -closed, -loose) \in Balances
  <2>1. -closed \in Int /\ -loose \in Int
    BY <1>2
  <2>. QED  BY <2>1, <1>5, <1>6, ChangedType
<1>8. TypeOK'
  BY <1>2, <1>4, <1>5, <1>6, <1>7 DEF Inv, TypeOK, RowSound
<1>. QED  BY <1>4, <1>5, <1>8, TransferStep

\* What a reception makes of its transfer.
ReceivedRow(row, items) ==
    LET received == [m \in Members |-> row.received[m] + items[m].last]
    IN  [row EXCEPT
            !.received = received,
            !.arrived = [m \in Members |-> row.arrived[m] + (items[m].before + items[m].last)],
            !.repeated = row.repeated \/ \E m \in Members: items[m].before > 0,
            !.status = IF \A m \in Members: received[m] >= row.dispatched[m]
                       THEN "RECEIVED" ELSE "PARTIALLY_RECEIVED"]

LEMMA ItemsType ==
    ASSUME NEW items \in ItemLists
    PROVE  /\ \A m \in Members: items[m].last \in Nat /\ items[m].before \in Nat
           /\ Moved(items) \in [Members -> Nat]
BY TransfersAssumption DEF ItemLists, ItemSums, Moved

\* The step, in terms of its rows.
LEMMA ReceiveRows ==
    ASSUME Inv, NEW t \in TransferIds, NEW items \in ItemLists, ReceiveTransfer(t, items)
    PROVE  /\ transfer' = [transfer EXCEPT ![t] = ReceivedRow(transfer[t], items)]
           /\ balance' = [balance EXCEPT ![transfer[t].to] =
                  Changed(balance[transfer[t].to], Moved(items)["PACKAGE"], Moved(items)["BASE"])]
           /\ UNCHANGED <<sale, opened>>
           /\ transfer[t].status \in {"IN_TRANSIT", "PARTIALLY_RECEIVED"}
           /\ \A m \in Members:
                  items[m].last <= transfer[t].dispatched[m] - transfer[t].received[m]
<1>. DEFINE status == IF \A m \in Members: Received(t, items)[m] >= transfer[t].dispatched[m]
                      THEN "RECEIVED" ELSE "PARTIALLY_RECEIVED"
            row == [transfer[t] EXCEPT
                       !.received = Received(t, items),
                       !.arrived = [m \in Members |-> transfer[t].arrived[m] + Moved(items)[m]],
                       !.repeated = transfer[t].repeated \/ \E m \in Members: items[m].before > 0,
                       !.status = status]
<1>1. ReceivedAs(t, items, status)
  BY DEF ReceiveTransfer
<1>2. transfer' = [transfer EXCEPT ![t] = row]
  <2>. HIDE DEF status
  <2>. QED  BY <1>1, Zenon DEF ReceivedAs
<1>3. row = ReceivedRow(transfer[t], items)
  <2>1. [m \in Members |-> transfer[t].arrived[m] + Moved(items)[m]]
            = [m \in Members |-> transfer[t].arrived[m] + (items[m].before + items[m].last)]
    BY DEF Moved
  <2>. QED  BY <2>1 DEF ReceivedRow, Received
<1>. HIDE DEF row
<1>. QED  BY <1>1, <1>2, <1>3 DEF ReceiveTransfer, CanReceive, ReceivedAs, Pending, ClosedOf, LooseOf

LEMMA ReceivedRowSound ==
    ASSUME NEW row, RowSound(row), NEW items \in ItemLists,
           row.status \in {"IN_TRANSIT", "PARTIALLY_RECEIVED"},
           \A m \in Members: items[m].last <= row.dispatched[m] - row.received[m]
    PROVE  RowSound(ReceivedRow(row, items))
<1>. DEFINE received == [m \in Members |-> row.received[m] + items[m].last]
            arrived == [m \in Members |-> row.arrived[m] + (items[m].before + items[m].last)]
            repeated == row.repeated \/ \E m \in Members: items[m].before > 0
            complete == \A m \in Members: received[m] >= row.dispatched[m]
            after == ReceivedRow(row, items)
<1>1. \A m \in Members:
          /\ items[m].last \in Nat /\ items[m].before \in Nat
          /\ row.requested[m] \in Nat /\ row.dispatched[m] \in Nat
          /\ row.received[m] \in Nat /\ row.arrived[m] \in Nat
          /\ row.dispatched[m] = row.requested[m]
  BY ItemsType DEF RowSound, TransferRows
<1>2. received \in [Members -> Nat] /\ arrived \in [Members -> Nat] /\ repeated \in BOOLEAN
  BY <1>1
<1>3. \A m \in Members: received[m] <= row.dispatched[m] /\ received[m] <= arrived[m]
  BY <1>1 DEF RowSound
<1>4. ~repeated => arrived = received
  <2>. SUFFICES ASSUME ~repeated PROVE arrived = received
    OBVIOUS
  <2>1. row.arrived = row.received /\ \A m \in Members: items[m].before = 0
    BY <1>1 DEF RowSound
  <2>2. \A m \in Members: arrived[m] = received[m]
    BY <1>1, <2>1
  <2>. QED  BY <2>2
<1>5. /\ after = [row EXCEPT !.received = received, !.arrived = arrived, !.repeated = repeated,
                             !.status = IF complete THEN "RECEIVED" ELSE "PARTIALLY_RECEIVED"]
      /\ row \in TransferRows
  BY DEF ReceivedRow, RowSound
<1>6. complete => received = row.requested
  <2>. SUFFICES ASSUME complete PROVE received = row.requested
    OBVIOUS
  <2>1. \A m \in Members: received[m] = row.requested[m]
    BY <1>1, <1>3
  <2>. QED  BY <2>1, <1>5 DEF TransferRows
<1>7. ~complete => \E m \in Members: row.dispatched[m] - received[m] > 0
  BY <1>1
<1>. HIDE DEF received, arrived, repeated, complete, after
<1>8. /\ after \in TransferRows
      /\ after.received = received /\ after.arrived = arrived /\ after.repeated = repeated
      /\ after.requested = row.requested /\ after.dispatched = row.dispatched
      /\ after.status = IF complete THEN "RECEIVED" ELSE "PARTIALLY_RECEIVED"
  BY <1>2, <1>5 DEF TransferRows, TransferStatuses
<1>9. RowSound(after)
  BY <1>3, <1>4, <1>6, <1>7, <1>8 DEF RowSound
<1>. QED  BY <1>9 DEF after

LEMMA ReceiveStep ==
    ASSUME Inv, NEW t \in TransferIds, NEW items \in ItemLists, ReceiveTransfer(t, items)
    PROVE  Inv'
<1>. DEFINE row == ReceivedRow(transfer[t], items)
            to == transfer[t].to
            after == Changed(balance[to], Moved(items)["PACKAGE"], Moved(items)["BASE"])
<1>1. RowSound(transfer[t])
  BY InvIsRowSound
<1>2. /\ transfer' = [transfer EXCEPT ![t] = row]
      /\ balance' = [balance EXCEPT ![to] = after]
      /\ UNCHANGED <<sale, opened>>
  BY ReceiveRows
<1>3. RowSound(row)
  BY <1>1, ReceiveRows, ReceivedRowSound
<1>4. after \in Balances
  <2>1. balance[to] \in Balances
    BY <1>1 DEF Inv, TypeOK, RowSound, TransferRows
  <2>2. Moved(items)["PACKAGE"] \in Nat /\ Moved(items)["BASE"] \in Nat
    BY ItemsType DEF Members
  <2>. QED  BY <2>1, <2>2 DEF Balances, Changed
<1>. HIDE DEF row, to, after
<1>5. TypeOK'
  BY <1>2, <1>3, <1>4 DEF Inv, TypeOK, RowSound
<1>. QED  BY <1>2, <1>3, <1>5, TransferStep

LEMMA SaleStep ==
    ASSUME Inv, NEW s \in SaleIds,
           \/ \E b \in Branches, m \in Members, q \in Quantities: Sell(s, b, m, q)
           \/ CancelSale(s)
    PROVE  Inv'
<1>1. ASSUME NEW b \in Branches, NEW m \in Members, NEW q \in Quantities, Sell(s, b, m, q)
      PROVE  TypeOK' /\ UNCHANGED transfer
  <2>. DEFINE n == IF m = "BASE" THEN PackagesToOpen(balance[b], q) ELSE 0
              after == Changed(Opened(balance[b], n), -ClosedPart(m, q), -LoosePart(m, q))
              row == [status |-> "SOLD", branch |-> b,
                      closed |-> ClosedPart(m, q), loose |-> LoosePart(m, q)]
  <2>1. q \in Nat /\ balance[b] \in Balances
    BY TransfersAssumption DEF Quantities, Inv, TypeOK
  <2>2. ClosedPart(m, q) \in Nat /\ LoosePart(m, q) \in Nat
    BY <2>1 DEF ClosedPart, LoosePart
  <2>3. /\ n > 0 => CanOpenFor(balance[b], q)
        /\ Fits(Opened(balance[b], n), -ClosedPart(m, q), -LoosePart(m, q))
        /\ balance' = [balance EXCEPT ![b] = after]
        /\ opened' = opened + n
        /\ sale' = [sale EXCEPT ![s] = row]
        /\ UNCHANGED transfer
    BY <1>1 DEF Sell
  <2>4. n \in Nat /\ Opened(balance[b], n) \in Balances
    <3>1. CASE m = "BASE"
      BY <3>1, <2>1, <2>3, OpenedType
    <3>2. CASE m # "BASE"
      BY <3>2, <2>1, StockAssumption DEF Opened, Changed, Balances
    <3>. QED  BY <3>1, <3>2
  <2>5. after \in Balances
    BY <2>2, <2>3, <2>4, ChangedType
  <2>6. row \in SaleRows
    BY <2>2 DEF SaleRows
  <2>. HIDE DEF n, after, row
  <2>. QED  BY <2>3, <2>4, <2>5, <2>6 DEF Inv, TypeOK
<1>2. ASSUME CancelSale(s)
      PROVE  TypeOK' /\ UNCHANGED transfer
  <2>. DEFINE b == sale[s].branch
              after == Changed(balance[b], sale[s].closed, sale[s].loose)
  <2>1. sale[s] \in SaleRows /\ b \in Branches /\ balance[b] \in Balances
    BY DEF Inv, TypeOK, SaleRows
  <2>2. after \in Balances
    BY <2>1 DEF SaleRows, Balances, Changed
  <2>3. [sale[s] EXCEPT !.status = "CANCELLED"] \in SaleRows
    BY <2>1 DEF SaleRows
  <2>4. /\ balance' = [balance EXCEPT ![b] = after]
        /\ sale' = [sale EXCEPT ![s] = [sale[s] EXCEPT !.status = "CANCELLED"]]
        /\ UNCHANGED <<transfer, opened>>
    BY <1>2 DEF CancelSale
  <2>. HIDE DEF after, b
  <2>. QED  BY <2>1, <2>2, <2>3, <2>4 DEF Inv, TypeOK
<1>. QED  BY <1>1, <1>2, OtherStep

LEMMA PackageStep ==
    ASSUME Inv, NEW b \in Branches, OpenStockPackage(b) \/ CloseStockPackage(b)
    PROVE  Inv'
<1>1. balance[b] \in Balances /\ Factor \in Nat \ {0}
  BY StockAssumption DEF Inv, TypeOK
<1>2. CASE OpenStockPackage(b)
  <2>1. Opened(balance[b], 1) \in Balances
    BY <1>1, <1>2 DEF OpenStockPackage, Opened, Changed, Balances
  <2>2. TypeOK' /\ UNCHANGED transfer
    BY <2>1, <1>2 DEF OpenStockPackage, Inv, TypeOK
  <2>. QED  BY <2>2, OtherStep
<1>3. CASE CloseStockPackage(b)
  <2>1. Opened(balance[b], -1) \in Balances
    BY <1>1, <1>3 DEF CloseStockPackage, Opened, Changed, Balances
  <2>2. TypeOK' /\ UNCHANGED transfer
    BY <2>1, <1>3 DEF CloseStockPackage, Inv, TypeOK
  <2>. QED  BY <2>2, OtherStep
<1>. QED  BY <1>2, <1>3

LEMMA NextInv == Inv /\ [Next]_vars => Inv'
<1>. SUFFICES ASSUME Inv, [Next]_vars PROVE Inv'
  OBVIOUS
<1>1. CASE UNCHANGED vars
  BY <1>1 DEF vars, Inv, TypeOK, TransfersSound, AsksForSomething, NothingBefore, Pending
<1>2. CASE Next
  <2>1. ASSUME NEW t \in TransferIds, NEW from \in Branches, NEW to \in Branches,
               NEW requested \in Asked, CreateTransfer(t, from, to, requested)
        PROVE  Inv'
    BY <2>1, CreateStep
  <2>2. ASSUME NEW t \in TransferIds, ApproveTransfer(t) \/ CancelTransfer(t)
        PROVE  Inv'
    BY <2>2, StatusStep
  <2>3. ASSUME NEW t \in TransferIds, NEW allowAutoOpen \in BOOLEAN,
               DispatchTransfer(t, allowAutoOpen)
        PROVE  Inv'
    BY <2>3, DispatchStep
  <2>4. ASSUME NEW t \in TransferIds, NEW items \in ItemLists, ReceiveTransfer(t, items)
        PROVE  Inv'
    BY <2>4, ReceiveStep
  <2>5. ASSUME NEW s \in SaleIds,
               \/ \E b \in Branches, m \in Members, q \in Quantities: Sell(s, b, m, q)
               \/ CancelSale(s)
        PROVE  Inv'
    BY <2>5, SaleStep
  <2>6. ASSUME NEW b \in Branches, OpenStockPackage(b) \/ CloseStockPackage(b)
        PROVE  Inv'
    BY <2>6, PackageStep
  <2>. QED  BY <1>2, <2>1, <2>2, <2>3, <2>4, <2>5, <2>6 DEF Next
<1>. QED  BY <1>1, <1>2

LEMMA SpecInv == Spec => []Inv
<1>. QED  BY InitInv, NextInv, PTL DEF Spec

-----------------------------------------------------------------------------
(* Conservation.                                                           *)

Parts == {"closed", "loose"}

\* What a transfer has sent and its movements have not brought.
Missing(row, m) == row.dispatched[m] - row.arrived[m]

\* It is what is not written as received, less the surplus.
LEMMA NetIsMissing ==
    ASSUME NEW row, RowSound(row), NEW m \in Members
    PROVE  /\ Missing(row, m) \in Int
           /\ (row.dispatched[m] - row.received[m])
                  - (IF row.repeated THEN row.arrived[m] - row.received[m] ELSE 0)
                  = Missing(row, m)
BY DEF RowSound, TransferRows, Missing

Sold(row, part) == IF row.status = "SOLD" THEN row[part] ELSE 0

\* The sums are of integers.
LEMMA SumsAreInts ==
    ASSUME TypeOK, NEW part \in Parts, NEW m \in Members
    PROVE  /\ InBranches(part) \in Int
           /\ OnTheWay(m) \in Int
           /\ InSales(part) \in Int
<1>1. [b \in Branches |-> balance[b][part]] \in [Branches -> Int]
  BY DEF TypeOK, Balances, Parts
<1>2. [t \in TransferIds |-> Pending(t, m) - Surplus(t, m)] \in [TransferIds -> Int]
  BY DEF TypeOK, TransferRows, Pending, Surplus
<1>3. [s \in SaleIds |-> IF sale[s].status = "SOLD" THEN sale[s][part] ELSE 0]
          \in [SaleIds -> Int]
  BY DEF TypeOK, SaleRows, Parts
<1>4. InBranches(part) \in Int
  BY <1>1, TransfersAssumption, SumIsInt DEF InBranches
<1>5. OnTheWay(m) \in Int
  BY <1>2, TransfersAssumption, SumIsInt DEF OnTheWay
<1>6. InSales(part) \in Int
  BY <1>3, TransfersAssumption, SumIsInt DEF InSales
<1>. QED  BY <1>4, <1>5, <1>6

LEMMA StartIsInt == ASSUME NEW part \in Parts PROVE AtStart(part) \in Int
<1>1. [b \in Branches |-> Initial[b][part]] \in [Branches -> Int]
  BY TransfersAssumption DEF Balances, Parts
<1>. QED  BY <1>1, TransfersAssumption, SumIsInt DEF AtStart

\* One balance changes.
LEMMA BalanceChange ==
    ASSUME TypeOK, TypeOK', NEW part \in Parts, NEW b \in Branches, NEW after,
           balance' = [balance EXCEPT ![b] = after]
    PROVE  InBranches(part)' = InBranches(part) - balance[b][part] + after[part]
<1>. DEFINE f == [c \in Branches |-> balance[c][part]]
            g == [c \in Branches |-> balance'[c][part]]
<1>1. f \in [Branches -> Int] /\ g \in [Branches -> Int]
  BY DEF TypeOK, Balances, Parts
<1>2. f[b] = balance[b][part] /\ g[b] = after[part]
  BY DEF TypeOK
<1>3. \A c \in Branches \ {b}: g[c] = f[c]
  BY DEF TypeOK
<1>4. InBranches(part) = SumFunction(f) /\ InBranches(part)' = SumFunction(g)
  BY DEF InBranches
<1>. HIDE DEF f, g
<1>5. SumFunction(g) = SumFunction(f) - f[b] + g[b]
  BY <1>1, <1>3, TransfersAssumption, SumChange
<1>. QED  BY <1>2, <1>4, <1>5

\* One transfer changes.
LEMMA TransferChange ==
    ASSUME Inv, Inv', NEW m \in Members, NEW t \in TransferIds, NEW row,
           transfer' = [transfer EXCEPT ![t] = row]
    PROVE  OnTheWay(m)' = OnTheWay(m) - Missing(transfer[t], m) + Missing(row, m)
<1>. DEFINE f == [u \in TransferIds |-> Missing(transfer[u], m)]
            g == [u \in TransferIds |-> Missing(transfer'[u], m)]
<1>1. \A u \in TransferIds: RowSound(transfer[u]) /\ RowSound(transfer'[u])
  <2>1. \A u \in TransferIds: RowSound(transfer[u])
    BY InvIsRowSound
  <2>2. \A u \in TransferIds: RowSound(transfer'[u])
    BY DEF Inv, TypeOK, TransfersSound, AsksForSomething, NothingBefore, RowSound, Pending
  <2>. QED  BY <2>1, <2>2
<1>2. f \in [TransferIds -> Int] /\ g \in [TransferIds -> Int]
  BY <1>1, NetIsMissing
<1>3. f[t] = Missing(transfer[t], m) /\ g[t] = Missing(row, m)
  BY DEF Inv, TypeOK
<1>4. \A u \in TransferIds \ {t}: g[u] = f[u]
  BY DEF Inv, TypeOK
<1>5. OnTheWay(m) = SumFunction(f) /\ OnTheWay(m)' = SumFunction(g)
  <2>1. \A u \in TransferIds:
            /\ Pending(u, m) - Surplus(u, m) = Missing(transfer[u], m)
            /\ Pending(u, m)' - Surplus(u, m)' = Missing(transfer'[u], m)
    BY <1>1, NetIsMissing DEF Pending, Surplus
  <2>2. /\ [u \in TransferIds |-> Pending(u, m) - Surplus(u, m)] = f
        /\ [u \in TransferIds |-> Pending(u, m)' - Surplus(u, m)'] = g
    BY <2>1
  <2>. HIDE DEF f, g
  <2>. QED  BY <2>2, Zenon DEF OnTheWay
<1>. HIDE DEF f, g
<1>6. SumFunction(g) = SumFunction(f) - f[t] + g[t]
  BY <1>2, <1>4, TransfersAssumption, SumChange
<1>. QED  BY <1>3, <1>5, <1>6

\* One sale changes.
LEMMA SaleChange ==
    ASSUME TypeOK, TypeOK', NEW part \in Parts, NEW s \in SaleIds, NEW row,
           sale' = [sale EXCEPT ![s] = row]
    PROVE  InSales(part)' = InSales(part) - Sold(sale[s], part) + Sold(row, part)
<1>. DEFINE f == [r \in SaleIds |-> IF sale[r].status = "SOLD" THEN sale[r][part] ELSE 0]
            g == [r \in SaleIds |-> IF sale'[r].status = "SOLD" THEN sale'[r][part] ELSE 0]
<1>1. f \in [SaleIds -> Int] /\ g \in [SaleIds -> Int]
  BY DEF TypeOK, SaleRows, Parts
<1>2. f[s] = Sold(sale[s], part) /\ g[s] = Sold(row, part)
  BY DEF TypeOK, Sold
<1>3. \A r \in SaleIds \ {s}: g[r] = f[r]
  BY DEF TypeOK
<1>4. InSales(part) = SumFunction(f) /\ InSales(part)' = SumFunction(g)
  BY DEF InSales
<1>. HIDE DEF f, g
<1>5. SumFunction(g) = SumFunction(f) - f[s] + g[s]
  BY <1>1, <1>3, TransfersAssumption, SumChange
<1>. QED  BY <1>2, <1>4, <1>5

LEMMA BalancesKept ==
    ASSUME NEW part, UNCHANGED balance PROVE InBranches(part)' = InBranches(part)
BY DEF InBranches

LEMMA TransfersKept ==
    ASSUME NEW m, UNCHANGED transfer PROVE OnTheWay(m)' = OnTheWay(m)
BY DEF OnTheWay, Pending, Surplus

LEMMA SalesKept ==
    ASSUME NEW part, UNCHANGED sale PROVE InSales(part)' = InSales(part)
BY DEF InSales

Conserved == PackagesConserved /\ UnitsConserved

\* Whatever a step moves from one of the three to another, or opens.
LEMMA ConservedStep ==
    ASSUME TypeOK, TypeOK', Conserved, NEW n \in Int, opened' = opened + n,
           InBranches("closed")' + OnTheWay("PACKAGE")' + InSales("closed")'
               = InBranches("closed") + OnTheWay("PACKAGE") + InSales("closed") - n,
           InBranches("loose")' + OnTheWay("BASE")' + InSales("loose")'
               = InBranches("loose") + OnTheWay("BASE") + InSales("loose") + n * Factor
    PROVE  Conserved'
<1>. DEFINE packages == InBranches("closed") + OnTheWay("PACKAGE") + InSales("closed")
            units == InBranches("loose") + OnTheWay("BASE") + InSales("loose")
<1>1. opened \in Int /\ Factor \in Int /\ n * Factor \in Int /\ opened * Factor \in Int
  BY StockAssumption DEF TypeOK
<1>2. AtStart("closed") \in Int /\ AtStart("loose") \in Int
  BY StartIsInt DEF Parts
<1>3. AtStart("closed")' = AtStart("closed") /\ AtStart("loose")' = AtStart("loose")
  BY DEF AtStart
<1>4. (opened + n) * Factor = opened * Factor + n * Factor
  BY <1>1
<1>5. packages' = AtStart("closed") - opened - n
  <2>1. packages = AtStart("closed") - opened
    BY DEF Conserved, PackagesConserved
  <2>2. packages' = packages - n
    BY SumsAreInts DEF Parts, Members
  <2>. QED  BY <2>1, <2>2
<1>6. units' = AtStart("loose") + opened * Factor + n * Factor
  BY <1>1, <1>2 DEF Conserved, UnitsConserved
<1>7. packages' = AtStart("closed") - (opened + n)
  BY <1>1, <1>2, <1>5
<1>8. units' = AtStart("loose") + (opened + n) * Factor
  BY <1>1, <1>2, <1>4, <1>6
<1>. QED  BY <1>3, <1>7, <1>8 DEF Conserved, PackagesConserved, UnitsConserved

\* A dispatch: what leaves the branch is on the way, but for what was opened.
LEMMA DispatchConserves ==
    ASSUME Inv, Inv', Conserved, NEW t \in TransferIds, NEW allowAutoOpen \in BOOLEAN,
           DispatchTransfer(t, allowAutoOpen)
    PROVE  Conserved'
<1>. DEFINE row == [transfer[t] EXCEPT !.status = "IN_TRANSIT",
                                       !.dispatched = transfer[t].requested]
            from == transfer[t].from
            closed == transfer[t].requested["PACKAGE"]
            loose == transfer[t].requested["BASE"]
            n == IF allowAutoOpen THEN PackagesToOpen(balance[from], loose) ELSE 0
            after == Changed(Opened(balance[from], n), -closed, -loose)
<1>1. RowSound(transfer[t]) /\ transfer[t].status = "APPROVED"
  BY InvIsRowSound DEF DispatchTransfer
<1>2. from \in Branches /\ closed \in Nat /\ loose \in Nat
  BY <1>1 DEF RowSound, TransferRows, Members
<1>3. balance[from] \in Balances
  BY <1>2 DEF Inv, TypeOK
<1>4. /\ n > 0 => CanOpenFor(balance[from], loose)
      /\ balance' = [balance EXCEPT ![from] = after]
      /\ opened' = opened + n
      /\ transfer' = [transfer EXCEPT ![t] = row]
      /\ UNCHANGED sale
  BY DEF DispatchTransfer, Dispatched, ClosedOf, LooseOf
<1>5. n \in Nat
  BY <1>2, <1>3, <1>4, OpenedType
<1>6. n * Factor \in Nat
  BY <1>5, StockAssumption
<1>7. /\ after.closed = balance[from].closed - n - closed
      /\ after.loose = balance[from].loose + n * Factor - loose
  <2>. HIDE DEF n, closed, loose, from
  <2>. QED  BY <1>2, <1>3, <1>5, <1>6 DEF Changed, Opened, Balances
<1>8. /\ Missing(transfer[t], "PACKAGE") = 0 /\ Missing(row, "PACKAGE") = closed
      /\ Missing(transfer[t], "BASE") = 0 /\ Missing(row, "BASE") = loose
  BY <1>1 DEF RowSound, TransferRows, Members, None, Missing
<1>9. TypeOK /\ TypeOK' /\ "closed" \in Parts /\ "loose" \in Parts
          /\ "PACKAGE" \in Members /\ "BASE" \in Members
  BY DEF Inv, Parts, Members
<1>. HIDE DEF row, from, n, after, closed, loose
<1>10. /\ InBranches("closed")' = InBranches("closed") - balance[from].closed + after.closed
       /\ InBranches("loose")' = InBranches("loose") - balance[from].loose + after.loose
  <2>1. InBranches("closed")' = InBranches("closed") - balance[from]["closed"] + after["closed"]
    BY <1>2, <1>4, <1>9, BalanceChange
  <2>2. InBranches("loose")' = InBranches("loose") - balance[from]["loose"] + after["loose"]
    BY <1>2, <1>4, <1>9, BalanceChange
  <2>. QED  BY <2>1, <2>2
<1>11. /\ OnTheWay("PACKAGE")' = OnTheWay("PACKAGE") - 0 + closed
       /\ OnTheWay("BASE")' = OnTheWay("BASE") - 0 + loose
  <2>1. OnTheWay("PACKAGE")' = OnTheWay("PACKAGE") - Missing(transfer[t], "PACKAGE")
            + Missing(row, "PACKAGE")
    BY <1>4, <1>9, TransferChange
  <2>2. OnTheWay("BASE")' = OnTheWay("BASE") - Missing(transfer[t], "BASE")
            + Missing(row, "BASE")
    BY <1>4, <1>9, TransferChange
  <2>. QED  BY <1>8, <2>1, <2>2
<1>12. /\ InSales("closed")' = InSales("closed")
       /\ InSales("loose")' = InSales("loose")
  BY <1>4, SalesKept
<1>13. /\ InBranches("closed") \in Int /\ OnTheWay("PACKAGE") \in Int /\ InSales("closed") \in Int
       /\ InBranches("loose") \in Int /\ OnTheWay("BASE") \in Int /\ InSales("loose") \in Int
       /\ balance[from].closed \in Int /\ balance[from].loose \in Int
  BY <1>3, <1>9, SumsAreInts DEF Balances
<1>14. InBranches("closed")' + OnTheWay("PACKAGE")' + InSales("closed")'
           = InBranches("closed") + OnTheWay("PACKAGE") + InSales("closed") - n
  BY <1>2, <1>5, <1>7, <1>10, <1>11, <1>12, <1>13
<1>15. InBranches("loose")' + OnTheWay("BASE")' + InSales("loose")'
           = InBranches("loose") + OnTheWay("BASE") + InSales("loose") + n * Factor
  BY <1>2, <1>6, <1>7, <1>10, <1>11, <1>12, <1>13
<1>. QED  BY <1>4, <1>5, <1>9, <1>14, <1>15, ConservedStep

\* A reception: what its movements bring to the branch is no longer missing.
LEMMA ReceiveConserves ==
    ASSUME Inv, Inv', Conserved, NEW t \in TransferIds, NEW items \in ItemLists,
           ReceiveTransfer(t, items)
    PROVE  Conserved'
<1>. DEFINE row == ReceivedRow(transfer[t], items)
            to == transfer[t].to
            closed == Moved(items)["PACKAGE"]
            loose == Moved(items)["BASE"]
            after == Changed(balance[to], closed, loose)
<1>1. RowSound(transfer[t])
  BY InvIsRowSound
<1>2. to \in Branches /\ closed \in Nat /\ loose \in Nat
  BY <1>1, ItemsType DEF RowSound, TransferRows, Members
<1>3. balance[to] \in Balances
  BY <1>2 DEF Inv, TypeOK
<1>4. /\ balance' = [balance EXCEPT ![to] = after]
      /\ transfer' = [transfer EXCEPT ![t] = row]
      /\ UNCHANGED <<sale, opened>>
  BY ReceiveRows
<1>5. after.closed = balance[to].closed + closed /\ after.loose = balance[to].loose + loose
  BY DEF Changed
<1>6. \A m \in Members:
          /\ row.dispatched[m] = transfer[t].dispatched[m]
          /\ row.arrived[m] = transfer[t].arrived[m] + Moved(items)[m]
  BY <1>1 DEF RowSound, TransferRows, ReceivedRow, Moved
<1>7. \A m \in Members: Missing(row, m) = Missing(transfer[t], m) - Moved(items)[m]
  <2>1. \A m \in Members: /\ transfer[t].dispatched[m] \in Nat /\ transfer[t].arrived[m] \in Nat
                          /\ Moved(items)[m] \in Nat
    BY <1>1, ItemsType DEF RowSound, TransferRows
  <2>. HIDE DEF row
  <2>. QED  BY <1>6, <2>1 DEF Missing
<1>8. TypeOK /\ TypeOK' /\ "closed" \in Parts /\ "loose" \in Parts
          /\ "PACKAGE" \in Members /\ "BASE" \in Members
  BY DEF Inv, Parts, Members
<1>9. Missing(transfer[t], "PACKAGE") \in Int /\ Missing(transfer[t], "BASE") \in Int
  BY <1>1, <1>8, NetIsMissing
<1>10. /\ Missing(row, "PACKAGE") = Missing(transfer[t], "PACKAGE") - closed
       /\ Missing(row, "BASE") = Missing(transfer[t], "BASE") - loose
  BY <1>7, <1>8
<1>. HIDE DEF row, to, after, closed, loose
<1>11. /\ InBranches("closed")' = InBranches("closed") - balance[to]["closed"] + after["closed"]
       /\ InBranches("loose")' = InBranches("loose") - balance[to]["loose"] + after["loose"]
  BY <1>2, <1>4, <1>8, BalanceChange
<1>12. /\ OnTheWay("PACKAGE")' = OnTheWay("PACKAGE") - Missing(transfer[t], "PACKAGE")
              + Missing(row, "PACKAGE")
       /\ OnTheWay("BASE")' = OnTheWay("BASE") - Missing(transfer[t], "BASE")
              + Missing(row, "BASE")
  BY <1>4, <1>8, TransferChange
<1>13. /\ InSales("closed")' = InSales("closed")
       /\ InSales("loose")' = InSales("loose")
  BY <1>4, SalesKept
<1>14. /\ InBranches("closed") \in Int /\ OnTheWay("PACKAGE") \in Int /\ InSales("closed") \in Int
       /\ InBranches("loose") \in Int /\ OnTheWay("BASE") \in Int /\ InSales("loose") \in Int
       /\ balance[to].closed \in Int /\ balance[to].loose \in Int
  BY <1>3, <1>8, SumsAreInts DEF Balances
<1>15. InBranches("closed")' + OnTheWay("PACKAGE")' + InSales("closed")'
           = InBranches("closed") + OnTheWay("PACKAGE") + InSales("closed") - 0
  BY <1>2, <1>5, <1>9, <1>10, <1>11, <1>12, <1>13, <1>14
<1>16. InBranches("loose")' + OnTheWay("BASE")' + InSales("loose")'
           = InBranches("loose") + OnTheWay("BASE") + InSales("loose") + 0 * Factor
  BY <1>2, <1>5, <1>9, <1>10, <1>11, <1>12, <1>13, <1>14, StockAssumption
<1>17. opened' = opened + 0
  BY <1>4, <1>8 DEF TypeOK
<1>. QED  BY <1>8, <1>15, <1>16, <1>17, ConservedStep

\* A transfer that is created, approved or cancelled has nothing on the way.
LEMMA PaperConserves ==
    ASSUME Inv, Inv', Conserved, NEW t \in TransferIds,
           \/ \E from, to \in Branches, requested \in Asked: CreateTransfer(t, from, to, requested)
           \/ ApproveTransfer(t)
           \/ CancelTransfer(t)
    PROVE  Conserved'
<1>. DEFINE row == transfer'[t]
<1>1. RowSound(transfer[t]) /\ RowSound(row)
  BY InvIsRowSound DEF Inv, TypeOK, TransfersSound, AsksForSomething, NothingBefore,
      RowSound, Pending
<1>2. transfer' = [transfer EXCEPT ![t] = row] /\ UNCHANGED <<balance, sale, opened>>
  BY DEF CreateTransfer, ApproveTransfer, CancelTransfer, Inv, TypeOK
<1>3. \A m \in Members: Missing(transfer[t], m) = 0 /\ Missing(row, m) = 0
  <2>1. /\ transfer[t].status \in {"NONE", "DRAFT", "APPROVED"}
        /\ row.status \in {"DRAFT", "APPROVED", "CANCELLED"}
    BY DEF CreateTransfer, ApproveTransfer, CancelTransfer, Inv, TypeOK, TransferRows
  <2>. QED  BY <1>1, <2>1 DEF RowSound, TransferRows, None, Missing
<1>4. TypeOK /\ TypeOK' /\ "closed" \in Parts /\ "loose" \in Parts
          /\ "PACKAGE" \in Members /\ "BASE" \in Members
  BY DEF Inv, Parts, Members
<1>. HIDE DEF row
<1>5. \A m \in Members: OnTheWay(m)' = OnTheWay(m) - 0 + 0
  <2>. SUFFICES ASSUME NEW m \in Members PROVE OnTheWay(m)' = OnTheWay(m) - 0 + 0
    OBVIOUS
  <2>1. OnTheWay(m)' = OnTheWay(m) - Missing(transfer[t], m) + Missing(row, m)
    BY <1>2, <1>4, TransferChange
  <2>. QED  BY <1>3, <2>1
<1>6. /\ InBranches("closed") \in Int /\ OnTheWay("PACKAGE") \in Int /\ InSales("closed") \in Int
      /\ InBranches("loose") \in Int /\ OnTheWay("BASE") \in Int /\ InSales("loose") \in Int
  BY <1>4, SumsAreInts
<1>7. /\ InBranches("closed")' = InBranches("closed") /\ InSales("closed")' = InSales("closed")
      /\ InBranches("loose")' = InBranches("loose") /\ InSales("loose")' = InSales("loose")
  BY <1>2, BalancesKept, SalesKept
<1>8. opened' = opened + 0
  BY <1>2, <1>4 DEF TypeOK
<1>9. InBranches("closed")' + OnTheWay("PACKAGE")' + InSales("closed")'
          = InBranches("closed") + OnTheWay("PACKAGE") + InSales("closed") - 0
  BY <1>4, <1>5, <1>6, <1>7
<1>10. InBranches("loose")' + OnTheWay("BASE")' + InSales("loose")'
           = InBranches("loose") + OnTheWay("BASE") + InSales("loose") + 0 * Factor
  BY <1>4, <1>5, <1>6, <1>7, StockAssumption
<1>. QED  BY <1>4, <1>8, <1>9, <1>10, ConservedStep

\* A sale and its reversal move what the sale recorded, and no more.
LEMMA SaleConserves ==
    ASSUME Inv, Inv', Conserved, NEW s \in SaleIds, NEW b \in Branches, NEW row, NEW n \in Nat,
           NEW after,
           balance' = [balance EXCEPT ![b] = after],
           after.closed = balance[b].closed - n + Sold(sale[s], "closed") - Sold(row, "closed"),
           after.loose = balance[b].loose + n * Factor + Sold(sale[s], "loose")
                             - Sold(row, "loose"),
           sale' = [sale EXCEPT ![s] = row], row \in SaleRows,
           opened' = opened + n, UNCHANGED transfer
    PROVE  Conserved'
<1>1. TypeOK /\ TypeOK' /\ "closed" \in Parts /\ "loose" \in Parts
          /\ "PACKAGE" \in Members /\ "BASE" \in Members
  BY DEF Inv, Parts, Members
<1>2. /\ InBranches("closed")' = InBranches("closed") - balance[b]["closed"] + after["closed"]
      /\ InBranches("loose")' = InBranches("loose") - balance[b]["loose"] + after["loose"]
  BY <1>1, BalanceChange
<1>3. /\ InSales("closed")' = InSales("closed") - Sold(sale[s], "closed") + Sold(row, "closed")
      /\ InSales("loose")' = InSales("loose") - Sold(sale[s], "loose") + Sold(row, "loose")
  BY <1>1, SaleChange
<1>4. /\ OnTheWay("PACKAGE")' = OnTheWay("PACKAGE")
      /\ OnTheWay("BASE")' = OnTheWay("BASE")
  BY TransfersKept
<1>5. /\ InBranches("closed") \in Int /\ OnTheWay("PACKAGE") \in Int /\ InSales("closed") \in Int
      /\ InBranches("loose") \in Int /\ OnTheWay("BASE") \in Int /\ InSales("loose") \in Int
  BY <1>1, SumsAreInts
<1>6. /\ Sold(sale[s], "closed") \in Nat /\ Sold(sale[s], "loose") \in Nat
      /\ Sold(row, "closed") \in Nat /\ Sold(row, "loose") \in Nat
      /\ balance[b].closed \in Nat /\ balance[b].loose \in Nat
      /\ n * Factor \in Nat
  BY <1>1, StockAssumption DEF Sold, TypeOK, SaleRows, Balances
<1>7. InBranches("closed")' + OnTheWay("PACKAGE")' + InSales("closed")'
          = InBranches("closed") + OnTheWay("PACKAGE") + InSales("closed") - n
  BY <1>2, <1>3, <1>4, <1>5, <1>6
<1>8. InBranches("loose")' + OnTheWay("BASE")' + InSales("loose")'
          = InBranches("loose") + OnTheWay("BASE") + InSales("loose") + n * Factor
  BY <1>2, <1>3, <1>4, <1>5, <1>6
<1>. QED  BY <1>1, <1>7, <1>8, ConservedStep

LEMMA SellConserves ==
    ASSUME Inv, Inv', Conserved, NEW s \in SaleIds, NEW b \in Branches, NEW m \in Members,
           NEW q \in Quantities, Sell(s, b, m, q)
    PROVE  Conserved'
<1>. DEFINE n == IF m = "BASE" THEN PackagesToOpen(balance[b], q) ELSE 0
            closed == ClosedPart(m, q)
            loose == LoosePart(m, q)
            after == Changed(Opened(balance[b], n), -closed, -loose)
            row == [status |-> "SOLD", branch |-> b, closed |-> closed, loose |-> loose]
<1>1. q \in Nat /\ balance[b] \in Balances
  BY TransfersAssumption DEF Quantities, Inv, TypeOK
<1>2. closed \in Nat /\ loose \in Nat
  BY <1>1 DEF ClosedPart, LoosePart
<1>3. /\ n > 0 => CanOpenFor(balance[b], q)
      /\ balance' = [balance EXCEPT ![b] = after]
      /\ opened' = opened + n
      /\ sale' = [sale EXCEPT ![s] = row]
      /\ UNCHANGED transfer
      /\ sale[s].status = "NONE"
  BY DEF Sell
<1>4. n \in Nat
  BY <1>1, <1>3, OpenedType
<1>5. n * Factor \in Nat
  BY <1>4, StockAssumption
<1>6. row \in SaleRows
  BY <1>2 DEF SaleRows
<1>7. /\ Sold(sale[s], "closed") = 0 /\ Sold(sale[s], "loose") = 0
      /\ Sold(row, "closed") = closed /\ Sold(row, "loose") = loose
  BY <1>3 DEF Sold
<1>. HIDE DEF n, closed, loose, row
<1>8. /\ after.closed = balance[b].closed - n + 0 - closed
      /\ after.loose = balance[b].loose + n * Factor + 0 - loose
  BY <1>1, <1>2, <1>4, <1>5 DEF Changed, Opened, Balances
<1>. HIDE DEF after
<1>. QED  BY <1>3, <1>4, <1>6, <1>7, <1>8, SaleConserves

LEMMA CancelSaleConserves ==
    ASSUME Inv, Inv', Conserved, NEW s \in SaleIds, CancelSale(s)
    PROVE  Conserved'
<1>. DEFINE b == sale[s].branch
            closed == sale[s].closed
            loose == sale[s].loose
            after == Changed(balance[b], closed, loose)
            row == [sale[s] EXCEPT !.status = "CANCELLED"]
<1>1. sale[s] \in SaleRows /\ row \in SaleRows
  BY DEF Inv, TypeOK, SaleRows
<1>2. b \in Branches /\ closed \in Nat /\ loose \in Nat
  BY <1>1 DEF SaleRows
<1>3. balance[b] \in Balances
  BY <1>2 DEF Inv, TypeOK
<1>4. /\ balance' = [balance EXCEPT ![b] = after]
      /\ sale' = [sale EXCEPT ![s] = row]
      /\ UNCHANGED <<transfer, opened>>
      /\ sale[s].status = "SOLD"
  BY DEF CancelSale
<1>5. /\ Sold(sale[s], "closed") = closed /\ Sold(sale[s], "loose") = loose
      /\ Sold(row, "closed") = 0 /\ Sold(row, "loose") = 0
  BY <1>1, <1>4 DEF Sold, SaleRows
<1>. HIDE DEF b, closed, loose, row
<1>6. /\ after.closed = balance[b].closed - 0 + closed - 0
      /\ after.loose = balance[b].loose + 0 * Factor + loose - 0
  BY <1>2, <1>3, StockAssumption DEF Changed, Balances
<1>7. opened' = opened + 0 /\ 0 \in Nat
  BY <1>4 DEF Inv, TypeOK
<1>. HIDE DEF after
<1>. QED  BY <1>1, <1>2, <1>4, <1>5, <1>6, <1>7, SaleConserves

\* Packages that are opened, or made, by hand.
LEMMA PackageConserves ==
    ASSUME Inv, Inv', Conserved, NEW b \in Branches,
           OpenStockPackage(b) \/ CloseStockPackage(b)
    PROVE  Conserved'
<1>. DEFINE after(n) == Opened(balance[b], n)
<1>1. PICK n \in {1, -1}: /\ balance' = [balance EXCEPT ![b] = after(n)]
                          /\ opened' = opened + n
                          /\ UNCHANGED <<transfer, sale>>
  <2>1. CASE OpenStockPackage(b)
    BY <2>1 DEF OpenStockPackage
  <2>2. CASE CloseStockPackage(b)
    <3>1. opened - 1 = opened + (-1)
      BY DEF Inv, TypeOK
    <3>. QED  BY <2>2, <3>1 DEF CloseStockPackage, Inv, TypeOK
  <2>. QED  BY <2>1, <2>2
<1>2. n \in Int /\ n * Factor \in Int
  BY StockAssumption
<1>3. TypeOK /\ TypeOK' /\ "closed" \in Parts /\ "loose" \in Parts
          /\ "PACKAGE" \in Members /\ "BASE" \in Members
  BY DEF Inv, Parts, Members
<1>4. balance[b].closed \in Int /\ balance[b].loose \in Int
  BY <1>3 DEF TypeOK, Balances
<1>5. /\ after(n).closed = balance[b].closed - n
      /\ after(n).loose = balance[b].loose + n * Factor
  BY <1>2, <1>4 DEF Opened, Changed
<1>. HIDE DEF after
<1>6. /\ InBranches("closed")' = InBranches("closed") - balance[b]["closed"] + after(n)["closed"]
      /\ InBranches("loose")' = InBranches("loose") - balance[b]["loose"] + after(n)["loose"]
  BY <1>1, <1>3, BalanceChange
<1>7. /\ OnTheWay("PACKAGE")' = OnTheWay("PACKAGE") /\ OnTheWay("BASE")' = OnTheWay("BASE")
      /\ InSales("closed")' = InSales("closed") /\ InSales("loose")' = InSales("loose")
  BY <1>1, TransfersKept, SalesKept
<1>8. /\ InBranches("closed") \in Int /\ OnTheWay("PACKAGE") \in Int /\ InSales("closed") \in Int
      /\ InBranches("loose") \in Int /\ OnTheWay("BASE") \in Int /\ InSales("loose") \in Int
  BY <1>3, SumsAreInts
<1>9. InBranches("closed")' + OnTheWay("PACKAGE")' + InSales("closed")'
          = InBranches("closed") + OnTheWay("PACKAGE") + InSales("closed") - n
  BY <1>2, <1>4, <1>5, <1>6, <1>7, <1>8
<1>10. InBranches("loose")' + OnTheWay("BASE")' + InSales("loose")'
           = InBranches("loose") + OnTheWay("BASE") + InSales("loose") + n * Factor
  BY <1>2, <1>4, <1>5, <1>6, <1>7, <1>8
<1>. QED  BY <1>1, <1>2, <1>3, <1>9, <1>10, ConservedStep

LEMMA InitConserved == Init => Conserved
<1>. SUFFICES ASSUME Init PROVE Conserved
  OBVIOUS
<1>1. TypeOK
  BY InitInv DEF Inv
<1>2. \A part: InBranches(part) = AtStart(part)
  BY DEF Init, InBranches, AtStart
<1>3. \A part: InSales(part) = 0
  <2>. SUFFICES ASSUME NEW part PROVE InSales(part) = 0
    OBVIOUS
  <2>. DEFINE f == [s \in SaleIds |-> IF sale[s].status = "SOLD" THEN sale[s][part] ELSE 0]
  <2>1. f \in [SaleIds -> Int] /\ \A s \in SaleIds: f[s] = 0
    BY DEF Init, NoSale
  <2>2. InSales(part) = SumFunction(f)
    BY DEF InSales
  <2>. HIDE DEF f
  <2>. QED  BY <2>1, <2>2, TransfersAssumption, SumOfZeros
<1>4. \A m \in Members: OnTheWay(m) = 0
  <2>. SUFFICES ASSUME NEW m \in Members PROVE OnTheWay(m) = 0
    OBVIOUS
  <2>. DEFINE f == [t \in TransferIds |-> Pending(t, m) - Surplus(t, m)]
  <2>1. f \in [TransferIds -> Int] /\ \A t \in TransferIds: f[t] = 0
    BY DEF Init, NoTransfer, None, Pending, Surplus
  <2>2. OnTheWay(m) = SumFunction(f)
    BY DEF OnTheWay
  <2>. HIDE DEF f
  <2>. QED  BY <2>1, <2>2, TransfersAssumption, SumOfZeros
<1>5. AtStart("closed") \in Int /\ AtStart("loose") \in Int
  BY StartIsInt DEF Parts
<1>. QED  BY <1>2, <1>3, <1>4, <1>5, StockAssumption
          DEF Init, Conserved, PackagesConserved, UnitsConserved, Members

LEMMA NextConserved == Inv /\ Inv' /\ Conserved /\ [Next]_vars => Conserved'
<1>. SUFFICES ASSUME Inv, Inv', Conserved, [Next]_vars PROVE Conserved'
  OBVIOUS
<1>1. CASE UNCHANGED vars
  BY <1>1 DEF vars, Conserved, PackagesConserved, UnitsConserved, InBranches, OnTheWay,
      InSales, AtStart, Pending, Surplus
<1>2. CASE Next
  <2>1. ASSUME NEW t \in TransferIds,
               \/ \E from, to \in Branches, requested \in Asked:
                      CreateTransfer(t, from, to, requested)
               \/ ApproveTransfer(t)
               \/ CancelTransfer(t)
        PROVE  Conserved'
    BY <2>1, PaperConserves
  <2>2. ASSUME NEW t \in TransferIds, NEW allowAutoOpen \in BOOLEAN,
               DispatchTransfer(t, allowAutoOpen)
        PROVE  Conserved'
    BY <2>2, DispatchConserves
  <2>3. ASSUME NEW t \in TransferIds, NEW items \in ItemLists, ReceiveTransfer(t, items)
        PROVE  Conserved'
    BY <2>3, ReceiveConserves
  <2>4. ASSUME NEW s \in SaleIds, NEW b \in Branches, NEW m \in Members, NEW q \in Quantities,
               Sell(s, b, m, q)
        PROVE  Conserved'
    BY <2>4, SellConserves
  <2>5. ASSUME NEW s \in SaleIds, CancelSale(s)
        PROVE  Conserved'
    BY <2>5, CancelSaleConserves
  <2>6. ASSUME NEW b \in Branches, OpenStockPackage(b) \/ CloseStockPackage(b)
        PROVE  Conserved'
    BY <2>6, PackageConserves
  <2>. QED  BY <1>2, <2>1, <2>2, <2>3, <2>4, <2>5, <2>6 DEF Next
<1>. QED  BY <1>1, <1>2

LEMMA SpecConserved == Spec => []Conserved
<1>. QED  BY SpecInv, InitConserved, NextConserved, PTL DEF Spec

-----------------------------------------------------------------------------
(* The theorems.                                                           *)

(* No movement of stock leaves a part of a balance below zero, and the     *)
(* rows of transfers and sales keep their types.                           *)
THEOREM TypeCorrect == Spec => []TypeOK
<1>1. Inv => TypeOK
  BY DEF Inv
<1>. QED  BY <1>1, SpecInv, PTL

(* However dispatches, partial receptions and cancellations follow each    *)
(* other, no more is written as received than was dispatched, a transfer is*)
(* RECEIVED when all of it is, and it moves what is written, unless a      *)
(* reception names a line more than once: then it moves at least that.     *)
THEOREM TransfersAreSound == Spec => []TransfersSound
<1>1. Inv => TransfersSound
  BY DEF Inv
<1>. QED  BY <1>1, SpecInv, PTL

(* No package is lost by a transfer in parts, a sale, its cancellation or  *)
(* an opening, and none is made but by a reception that names a line more  *)
(* than once, which makes just the Surplus of its transfer: those of the   *)
(* start are in the branches, on the way, sold or opened.                  *)
THEOREM PackagesAreConserved == Spec => []PackagesConserved
<1>1. Conserved => PackagesConserved
  BY DEF Conserved
<1>. QED  BY <1>1, SpecConserved, PTL

(* ... and the same of loose units, of which the packages opened brought   *)
(* Factor each, whatever Factor is: none is lost, and none made but the    *)
(* Surplus of receptions that name a line more than once.                  *)
THEOREM UnitsAreConserved == Spec => []UnitsConserved
<1>1. Conserved => UnitsConserved
  BY DEF Conserved
<1>. QED  BY <1>1, SpecConserved, PTL
=============================================================================
