----------------------------- MODULE AfterSales ------------------------------
(***************************************************************************)
(* What may happen to a sale order from the moment it awaits payment: the  *)
(* dispatch and its override, returns and cancellation requests with their *)
(* approvals, and the direct cancellation that supersedes them.            *)
(* hammer-api/src/modules/sales-returns, sales, dispatch, approvals.       *)
(*                                                                         *)
(* One order with one line of Sold units.  Amounts are counted in units of *)
(* the line: a return of q units refunds q of the Sold units paid.         *)
(*                                                                         *)
(* As in CashSession, a handler that locks what it reads is one action and *)
(* one that reads without a lock is a read and a commit; Abort rolls any   *)
(* of them back, a refusal after the read included.                        *)
(***************************************************************************)
EXTENDS Integers, FiniteSets, Functions

CONSTANTS
    Returns,        \* SaleReturn rows that may be created (a bound)
    Cancels,        \* SaleCancellation rows that may be created (a bound)
    Requests,       \* transactions in flight at a time (a bound)
    Sold,           \* quantity of the order line
    Override,       \* the approval request of a forced dispatch
    Null

ASSUME AfterSalesAssumption ==
    /\ Sold \in Nat \ {0}
    /\ Returns \intersect Cancels = {}
    /\ Override \notin Returns \union Cancels
    /\ Null \notin Returns \union Cancels

VARIABLES
    order,          \* SaleOrder.status
    payment,        \* Payment.status
    reversals,      \* times the stock of the order was put back by a cancellation
    tickets,        \* DispatchTicket rows of the order
    status,         \* status of each return and each cancellation request
    items,          \* return -> the quantities it lists
    queue,          \* ApprovalRequest.status of each request and of the override
    approvals,      \* return -> SALE_RETURN_APPROVED entries of the audit log
    refunds,        \* return -> Refund rows POSTED for it, each with its stock entry
    req             \* transactions in flight

rows == <<order, payment, reversals, tickets, status, items, queue, approvals, refunds>>
vars == <<rows, req>>

-----------------------------------------------------------------------------
(* Data.                                                                   *)

OrderStatuses == {"PENDING_PAYMENT", "DISPATCH_PENDING", "DISPATCHED", "CANCELLED"}
Cancellable   == {"PENDING_PAYMENT", "DISPATCH_PENDING", "DISPATCHED"}
Returnable    == {"DISPATCH_PENDING", "DISPATCHED"}

Pending  == {"REQUESTED", "APPROVED"}
Statuses == Pending \union {"NONE", "REJECTED", "CANCELLED", "EXECUTED"}
ApprovalStatuses == {"NONE", "REQUESTED", "APPROVED", "REJECTED"}

Files == Returns \union Cancels

\* A request lists the line once (again = 0) or twice: nothing forbids it.
ItemLists == [once: 1..Sold, again: 0..Sold]
NoItems   == [once |-> 1, again |-> 0]
Units(list) == list.once + list.again

Pcs == {"idle", "returnChecked", "approving", "rejecting", "returnRead",
        "cancelRead", "cancelling", "cancellingDirect", "superseding",
        "dispatchRead", "overriding", "forcing"}

\* A transaction in flight: the file it works on, and what it has read (the
\* items it checked; the pending files it is going to supersede).
RequestRows ==
    [pc: Pcs, file: Files \union {Null}, list: ItemLists, pending: SUBSET Files]

Idle == [pc |-> "idle", file |-> Null, list |-> NoItems, pending |-> {}]

TypeOK ==
    /\ order \in OrderStatuses
    /\ payment \in {"NONE", "POSTED", "VOIDED"}
    /\ reversals \in Nat
    /\ tickets \in Nat
    /\ status \in [Files -> Statuses]
    /\ items \in [Returns -> ItemLists]
    /\ queue \in [Files \union {Override} -> ApprovalStatuses]
    /\ approvals \in [Returns -> Nat]
    /\ refunds \in [Returns -> Nat]
    /\ req \in [Requests -> RequestRows]

Init ==
    /\ order = "PENDING_PAYMENT"
    /\ payment = "NONE"
    /\ reversals = 0
    /\ tickets = 0
    /\ status = [f \in Files |-> "NONE"]
    /\ items = [r \in Returns |-> NoItems]
    /\ queue = [f \in Files \union {Override} |-> "NONE"]
    /\ approvals = [r \in Returns |-> 0]
    /\ refunds = [r \in Returns |-> 0]
    /\ req = [t \in Requests |-> Idle]

\* A cancellation holds the row of the order from its first statement on.
OrderLocked ==
    \E t \in Requests: req[t].pc \in {"cancelling", "cancellingDirect", "superseding"}

\* A handler that is one action takes a transaction too, for an instant: with
\* a single one, no two handlers overlap.
AtOnce(t)     == req[t].pc = "idle" /\ UNCHANGED req
Begin(t, row) == req[t].pc = "idle" /\ req' = [req EXCEPT ![t] = row]
End(t)        == req' = [req EXCEPT ![t] = Idle]

\* postSaleOrderPayment holds the order: the stock leaves and, in a branch
\* without dispatch, the order is dispatched at once.
Pay(t, withDispatch) ==
    /\ order = "PENDING_PAYMENT"
    /\ ~OrderLocked
    /\ order' = IF withDispatch THEN "DISPATCH_PENDING" ELSE "DISPATCHED"
    /\ tickets' = IF withDispatch THEN tickets ELSE tickets + 1
    /\ payment' = "POSTED"
    /\ AtOnce(t)
    /\ UNCHANGED <<reversals, status, items, queue, approvals, refunds>>

-----------------------------------------------------------------------------
(* Returns.                                                                *)

\* The returns that alreadyRequestedOrReturnedByLine counts.
Committed == {r \in Returns: status[r] \notin {"NONE", "REJECTED", "CANCELLED"}}

CommittedUnits ==
    FoldFunctionOnSet(+, 0, [r \in Returns |-> Units(items[r])], Committed)

\* requestSaleReturn checks each item against the returns already stored; the
\* items of one request are not added up.
RequestReturnRead(t, list) ==
    /\ order \in Returnable
    /\ payment = "POSTED"
    /\ \A q \in {list.once, list.again}: CommittedUnits + q <= Sold
    /\ Begin(t, [Idle EXCEPT !.pc = "returnChecked", !.list = list])
    /\ UNCHANGED rows

RequestReturnCommit(t, r) ==
    /\ req[t].pc = "returnChecked"
    /\ status[r] = "NONE"
    /\ status' = [status EXCEPT ![r] = "REQUESTED"]
    /\ items' = [items EXCEPT ![r] = req[t].list]
    /\ queue' = [queue EXCEPT ![r] = "REQUESTED"]
    /\ End(t)
    /\ UNCHANGED <<order, payment, reversals, tickets, approvals, refunds>>

\* Mutant: a voided payment can be refunded.
ExecuteReturnReadVoided(t, r) ==
    /\ status[r] = "APPROVED"
    /\ Units(items[r]) <= Sold
    /\ Begin(t, [Idle EXCEPT !.pc = "returnRead", !.file = r])
    /\ UNCHANGED rows

\* executeSaleReturn: the return and the posted payments of its order are read
\* without a lock (a voided payment leaves nothing to refund) ...
ExecuteReturnRead(t, r) ==
    /\ status[r] = "APPROVED"
    /\ Units(items[r]) <= (IF payment = "POSTED" THEN Sold ELSE 0)
    /\ Begin(t, [Idle EXCEPT !.pc = "returnRead", !.file = r])
    /\ UNCHANGED rows

\* Mutant: the last update does not ask for the status.
ExecuteReturnCommitBlind(t) ==
    LET r == req[t].file
    IN  /\ req[t].pc = "returnRead"
        /\ status' = [status EXCEPT ![r] = "EXECUTED"]
        /\ refunds' = [refunds EXCEPT ![r] = @ + 1]
        /\ End(t)
        /\ UNCHANGED <<order, payment, reversals, tickets, items, queue, approvals>>

\* ... and the stock, the refund and EXECUTED commit together if the return is
\* still APPROVED at the conditional update; otherwise all is rolled back.
ExecuteReturnCommit(t) ==
    LET r == req[t].file
    IN  /\ req[t].pc = "returnRead"
        /\ status[r] = "APPROVED"
        /\ status' = [status EXCEPT ![r] = "EXECUTED"]
        /\ refunds' = [refunds EXCEPT ![r] = @ + 1]
        /\ End(t)
        /\ UNCHANGED <<order, payment, reversals, tickets, items, queue, approvals>>

-----------------------------------------------------------------------------
(* Decisions on returns and cancellation requests: the status is read      *)
(* without a lock and written without a condition.                         *)

\* Mutant: only a rejected or cancelled file cannot be approved.
ApproveReadExecuted(t, f) ==
    /\ status[f] \in Pending \union {"EXECUTED"}
    /\ Begin(t, [Idle EXCEPT !.pc = "approving", !.file = f])
    /\ UNCHANGED rows

ApproveRead(t, f) ==
    /\ status[f] = "REQUESTED"
    /\ Begin(t, [Idle EXCEPT !.pc = "approving", !.file = f])
    /\ UNCHANGED rows

ApproveCommit(t) ==
    LET f == req[t].file
    IN  /\ req[t].pc = "approving"
        /\ status' = [status EXCEPT ![f] = "APPROVED"]
        /\ queue' = [queue EXCEPT ![f] = "APPROVED"]
        /\ approvals' = IF f \in Returns THEN [approvals EXCEPT ![f] = @ + 1] ELSE approvals
        /\ End(t)
        /\ UNCHANGED <<order, payment, reversals, tickets, items, refunds>>

RejectRead(t, f) ==
    /\ status[f] \in Pending
    /\ Begin(t, [Idle EXCEPT !.pc = "rejecting", !.file = f])
    /\ UNCHANGED rows

RejectCommit(t) ==
    LET f == req[t].file
    IN  /\ req[t].pc = "rejecting"
        /\ status' = [status EXCEPT ![f] = "REJECTED"]
        /\ queue' = [queue EXCEPT ![f] = "REJECTED"]
        /\ End(t)
        /\ UNCHANGED <<order, payment, reversals, tickets, items, approvals, refunds>>

-----------------------------------------------------------------------------
(* Cancelling the order.                                                   *)

\* Mutant: an approved request does not stand in the way of another.
RequestCancellationTwice(t, c) ==
    /\ order \in Cancellable
    /\ ~OrderLocked
    /\ \A d \in Cancels: status[d] # "REQUESTED"
    /\ status[c] = "NONE"
    /\ status' = [status EXCEPT ![c] = "REQUESTED"]
    /\ queue' = [queue EXCEPT ![c] = "REQUESTED"]
    /\ AtOnce(t)
    /\ UNCHANGED <<order, payment, reversals, tickets, items, approvals, refunds>>

\* requestSaleCancellation locks the order, so it is one action.
RequestCancellation(t, c) ==
    /\ order \in Cancellable
    /\ ~OrderLocked
    /\ \A d \in Cancels: status[d] \notin Pending
    /\ status[c] = "NONE"
    /\ status' = [status EXCEPT ![c] = "REQUESTED"]
    /\ queue' = [queue EXCEPT ![c] = "REQUESTED"]
    /\ AtOnce(t)
    /\ UNCHANGED <<order, payment, reversals, tickets, items, approvals, refunds>>

\* executeSaleCancellation reads its request before cancelSaleOrderTx locks
\* the order.
ExecuteCancelRead(t, c) ==
    /\ status[c] = "APPROVED"
    /\ Begin(t, [Idle EXCEPT !.pc = "cancelRead", !.file = c])
    /\ UNCHANGED rows

\* cancelSaleOrderTx, from its lock to the test of the status.
ExecuteCancelLock(t) ==
    /\ req[t].pc = "cancelRead"
    /\ ~OrderLocked
    /\ order \in Cancellable
    /\ req' = [req EXCEPT ![t].pc = "cancelling"]
    /\ UNCHANGED rows

DirectCancelLock(t) ==
    /\ ~OrderLocked
    /\ order \in Cancellable
    /\ Begin(t, [Idle EXCEPT !.pc = "cancellingDirect"])
    /\ UNCHANGED rows

\* Mutant: the stock is put back whatever was put back before.
CancelOrderAgain ==
    /\ order' = "CANCELLED"
    /\ payment' = IF payment = "NONE" THEN "NONE" ELSE "VOIDED"
    /\ reversals' = IF payment = "NONE" THEN reversals ELSE reversals + 1
    /\ UNCHANGED <<tickets, items, approvals, refunds>>

\* The rest of it: the stock that the payment took is put back unless a
\* cancellation did so before, and the posted payment is voided.
CancelOrder ==
    /\ order' = "CANCELLED"
    /\ payment' = IF payment = "NONE" THEN "NONE" ELSE "VOIDED"
    /\ reversals' = IF payment # "NONE" /\ reversals = 0 THEN 1 ELSE reversals
    /\ UNCHANGED <<tickets, items, approvals, refunds>>

ExecuteCancelCommit(t) ==
    LET c == req[t].file
    IN  /\ req[t].pc = "cancelling"
        /\ status[c] = "APPROVED"
        /\ CancelOrder
        /\ status' = [status EXCEPT ![c] = "EXECUTED"]
        /\ End(t)
        /\ UNCHANGED queue

\* supersedePendingRequestsForOrderTx: reads the pending files, then closes
\* them without a condition; their approvals only if they are unresolved.
SupersedeRead(t) ==
    /\ req[t].pc = "cancellingDirect"
    /\ req' = [req EXCEPT ![t].pc = "superseding",
                          ![t].pending = {f \in Files: status[f] \in Pending}]
    /\ UNCHANGED rows

\* Mutant: the approvals of the superseded files are left in the queue.
DirectCancelCommitKeepingQueue(t) ==
    /\ req[t].pc = "superseding"
    /\ CancelOrder
    /\ status' = [f \in Files |-> IF f \in req[t].pending THEN "CANCELLED" ELSE status[f]]
    /\ End(t)
    /\ UNCHANGED queue

DirectCancelCommit(t) ==
    LET closed == req[t].pending
    IN  /\ req[t].pc = "superseding"
        /\ CancelOrder
        /\ status' = [f \in Files |-> IF f \in closed THEN "CANCELLED" ELSE status[f]]
        /\ queue' = [f \in Files \union {Override} |->
                        IF f \in closed /\ queue[f] = "REQUESTED" THEN "REJECTED"
                                                                  ELSE queue[f]]
        /\ End(t)

-----------------------------------------------------------------------------
(* Dispatch.                                                               *)

\* markOrderDispatched: the tickets are read without a lock ...
DispatchRead(t) ==
    /\ tickets = 0
    /\ Begin(t, [Idle EXCEPT !.pc = "dispatchRead"])
    /\ UNCHANGED rows

\* ... and the status moves by a conditional update.
DispatchCommit(t) ==
    /\ req[t].pc = "dispatchRead"
    /\ ~OrderLocked
    /\ order = "DISPATCH_PENDING"
    /\ order' = "DISPATCHED"
    /\ tickets' = tickets + 1
    /\ End(t)
    /\ UNCHANGED <<payment, reversals, status, items, queue, approvals, refunds>>

\* Refused, the route asks for an override, once while one is unresolved.
RequestOverride(t) ==
    /\ req[t].pc = "dispatchRead"
    /\ ~OrderLocked
    /\ order # "DISPATCH_PENDING"
    /\ queue' = [queue EXCEPT ![Override] = "REQUESTED"]
    /\ End(t)
    /\ UNCHANGED <<order, payment, reversals, tickets, status, items, approvals, refunds>>

\* resolveRequestTx locks the approval; the route then dispatches by force in
\* another transaction, which may never come (a crash, a refusal).
RejectOverride(t) ==
    /\ queue[Override] = "REQUESTED"
    /\ queue' = [queue EXCEPT ![Override] = "REJECTED"]
    /\ AtOnce(t)
    /\ UNCHANGED <<order, payment, reversals, tickets, status, items, approvals, refunds>>

ApproveOverride(t) ==
    /\ queue[Override] = "REQUESTED"
    /\ queue' = [queue EXCEPT ![Override] = "APPROVED"]
    /\ Begin(t, [Idle EXCEPT !.pc = "overriding"])
    /\ UNCHANGED <<order, payment, reversals, tickets, status, items, approvals, refunds>>

\* Mutant: the override does not ask whether the order has left meanwhile.
ForceReadAgain(t) ==
    /\ req[t].pc = "overriding"
    /\ order # "CANCELLED"
    /\ req' = [req EXCEPT ![t].pc = "forcing"]
    /\ UNCHANGED rows

ForceRead(t) ==
    /\ req[t].pc = "overriding"
    /\ tickets = 0
    /\ order # "CANCELLED"
    /\ req' = [req EXCEPT ![t].pc = "forcing"]
    /\ UNCHANGED rows

\* The forced update has no condition.
ForceCommit(t) ==
    /\ req[t].pc = "forcing"
    /\ ~OrderLocked
    /\ order' = "DISPATCHED"
    /\ tickets' = tickets + 1
    /\ End(t)
    /\ UNCHANGED <<payment, reversals, status, items, queue, approvals, refunds>>

-----------------------------------------------------------------------------
(* The specification.                                                      *)

Abort(t) ==
    /\ req[t].pc # "idle"
    /\ End(t)
    /\ UNCHANGED rows

ReturnSteps(t) ==
    \/ \E list \in ItemLists: RequestReturnRead(t, list)
    \/ \E r \in Returns: RequestReturnCommit(t, r) \/ ExecuteReturnRead(t, r)
    \/ ExecuteReturnCommit(t)

DecisionSteps(t) ==
    \/ \E f \in Files: ApproveRead(t, f) \/ RejectRead(t, f)
    \/ ApproveCommit(t) \/ RejectCommit(t)

CancelSteps(t) ==
    \/ \E c \in Cancels: RequestCancellation(t, c) \/ ExecuteCancelRead(t, c)
    \/ ExecuteCancelLock(t) \/ ExecuteCancelCommit(t)
    \/ DirectCancelLock(t) \/ SupersedeRead(t) \/ DirectCancelCommit(t)

DispatchSteps(t) ==
    \/ DispatchRead(t) \/ DispatchCommit(t)
    \/ RequestOverride(t) \/ RejectOverride(t) \/ ApproveOverride(t)
    \/ ForceRead(t) \/ ForceCommit(t)

Next ==
    \E t \in Requests:
        \/ \E withDispatch \in BOOLEAN: Pay(t, withDispatch)
        \/ ReturnSteps(t) \/ DecisionSteps(t) \/ CancelSteps(t) \/ DispatchSteps(t)
        \/ Abort(t)

Spec == Init /\ [][Next]_vars

-----------------------------------------------------------------------------
(* Safety, for any number of transactions in flight.                       *)

(* The stock of the order is put back by a cancellation once, and exactly  *)
(* when its payment is voided, although a forced dispatch that read the    *)
(* order before may bring a cancelled order back, to be cancelled again.   *)
ReversedOnce ==
    /\ reversals <= 1
    /\ reversals = 1 <=> payment = "VOIDED"
    /\ order = "CANCELLED" => payment # "POSTED"

(* No return refunds more often than it was approved: of the executions in *)
(* flight for one approval, the conditional update lets one through.       *)
RefundsApproved == \A r \in Returns: refunds[r] <= approvals[r]

(* The queue of approvals shows as unresolved exactly the returns and the  *)
(* cancellations that are: decided from the queue or from the file itself, *)
(* or superseded by a direct cancellation, none is left behind in it.      *)
QueueMatchesFiles ==
    \A f \in Files: queue[f] = "REQUESTED" <=> status[f] = "REQUESTED"

-----------------------------------------------------------------------------
(* Safety of handlers that do not overlap (one transaction in flight).     *)

(* One execution per return, "si otro request ya ejecuto esta devolucion   *)
(* ... lanzamos error en lugar de sobrescribir" (executeSaleReturn); with  *)
(* approvals that overlap it does not hold (see the README).               *)
ReturnExecutedOnce == \A r \in Returns: refunds[r] <= 1

(* An order never has two cancellation requests that can still be acted on.*)
OnePendingCancellation ==
    \A c, d \in Cancels: status[c] \in Pending /\ status[d] \in Pending => c = d

(* Nothing is refunded of a payment that a cancellation has voided, whether *)
(* the return was approved before the cancellation or is approved after it.*)
VoidedNotRefunded == [][payment = "VOIDED" => refunds' = refunds]_vars

(* The order leaves the store once, by whichever way it leaves: paid in a  *)
(* branch without dispatch, dispatched, or forced by an override that was  *)
(* asked for before it left; and a cancelled order does not leave.         *)
DispatchedOnce ==
    /\ tickets <= 1
    /\ order = "DISPATCHED" => tickets = 1 /\ payment # "VOIDED"

-----------------------------------------------------------------------------
(* What the repository says and the code does not keep (see the README).   *)

(* "El tope real: cantidad ya solicitada O devuelta ... por linea"         *)
(* (sales/service.ts): the returns of a line stay within what was sold.    *)
ReturnedWithinSold == CommittedUnits <= Sold
=============================================================================
