--------------------------- MODULE AfterSalesProofs ---------------------------
(***************************************************************************)
(* Theorems about AfterSales, for every set of returns, cancellation       *)
(* requests and transactions and every quantity sold.                      *)
(***************************************************************************)
EXTENDS AfterSales, TLAPS

-----------------------------------------------------------------------------
(* Types.                                                                  *)

(* A transaction in flight is replaced by a well-formed one.               *)
LEMMA RequestTypes ==
    ASSUME TypeOK, NEW t \in Requests, NEW row \in RequestRows,
           req' = [req EXCEPT ![t] = row]
    PROVE  req' \in [Requests -> RequestRows]
  BY DEF TypeOK

(* The rows that stand for no transaction, or for one that has just begun. *)
LEMMA BeginTypes ==
    /\ NoItems \in ItemLists
    /\ Idle \in RequestRows
    /\ \A pc \in Pcs: [Idle EXCEPT !.pc = pc] \in RequestRows
    /\ \A pc \in Pcs, f \in Files: [Idle EXCEPT !.pc = pc, !.file = f] \in RequestRows
    /\ \A pc \in Pcs, list \in ItemLists:
          [Idle EXCEPT !.pc = pc, !.list = list] \in RequestRows
<1>1. NoItems \in ItemLists
  BY AfterSalesAssumption DEF NoItems, ItemLists
<1>2. Idle \in RequestRows
  BY <1>1 DEF Idle, RequestRows, Pcs
<1> QED
  BY <1>1, <1>2 DEF Idle, RequestRows

(* A handler that ends leaves the idle row.                                *)
LEMMA EndTypes ==
    ASSUME TypeOK, NEW t \in Requests, End(t)
    PROVE  req' \in [Requests -> RequestRows]
  BY BeginTypes DEF TypeOK, End

(* A handler that begins with a well-formed row keeps the types.           *)
LEMMA BeginKeepsTypes ==
    ASSUME TypeOK, NEW t \in Requests, NEW row \in RequestRows, Begin(t, row)
    PROVE  req' \in [Requests -> RequestRows]
  BY DEF TypeOK, Begin

(* A transaction whose handler goes on names what the handler works on.    *)
LEMMA RequestFields ==
    ASSUME TypeOK, NEW t \in Requests
    PROVE  /\ req[t] \in RequestRows
           /\ req[t].file \in Files \union {Null}
           /\ req[t].list \in ItemLists
           /\ req[t].pending \in SUBSET Files
           /\ \A pc \in Pcs, pending \in SUBSET Files:
                 /\ [req[t] EXCEPT !.pc = pc] \in RequestRows
                 /\ [req[t] EXCEPT !.pc = pc, !.pending = pending] \in RequestRows
  BY DEF TypeOK, RequestRows

(* The pc of a handler that works on a file says which one.                *)
OnFile(row) ==
    /\ row.pc \in {"approving", "rejecting"} => row.file \in Files
    /\ row.pc = "returnRead" => row.file \in Returns
    /\ row.pc \in {"cancelRead", "cancelling"} => row.file \in Cancels

FilesKnown == \A t \in Requests: OnFile(req[t])

Types == TypeOK /\ FilesKnown

LEMMA FilesKnownStep ==
    ASSUME Types, NEW t \in Requests, NEW row, OnFile(row),
           req' = [req EXCEPT ![t] = row]
    PROVE  FilesKnown'
  BY DEF Types, TypeOK, FilesKnown

(* A transaction that ends, or that waits for nothing, works on no file.   *)
LEMMA FilesKnownEnd ==
    ASSUME Types, NEW t \in Requests, End(t)
    PROVE  FilesKnown'
  BY FilesKnownStep DEF End, OnFile, Idle

(* The rows of the tables keep their types, action by action.              *)
RowTypes ==
    /\ order \in OrderStatuses
    /\ payment \in {"NONE", "POSTED", "VOIDED"}
    /\ reversals \in Nat
    /\ tickets \in Nat
    /\ status \in [Files -> Statuses]
    /\ items \in [Returns -> ItemLists]
    /\ queue \in [Files \union {Override} -> ApprovalStatuses]
    /\ approvals \in [Returns -> Nat]
    /\ refunds \in [Returns -> Nat]

LEMMA RowTypesStep ==
    ASSUME Types, [Next]_vars
    PROVE  RowTypes'
<1> USE DEF Types, TypeOK, RowTypes
<1>1. CASE UNCHANGED rows
  BY <1>1 DEF rows
<1>2. ASSUME NEW t \in Requests, NEW withDispatch \in BOOLEAN, Pay(t, withDispatch)
      PROVE  RowTypes'
  BY <1>2 DEF Pay, OrderStatuses
<1>3. ASSUME NEW t \in Requests, NEW r \in Returns, RequestReturnCommit(t, r)
      PROVE  RowTypes'
  BY <1>3, RequestFields DEF RequestReturnCommit, Statuses, Pending, ApprovalStatuses, Files
<1>4. ASSUME NEW t \in Requests, ExecuteReturnCommit(t)
      PROVE  RowTypes'
  BY <1>4 DEF ExecuteReturnCommit, Statuses, Pending, ApprovalStatuses, Files, FilesKnown, OnFile
<1>5. ASSUME NEW t \in Requests, ApproveCommit(t)
      PROVE  RowTypes'
  BY <1>5 DEF ApproveCommit, Statuses, Pending, ApprovalStatuses, Files, FilesKnown, OnFile
<1>6. ASSUME NEW t \in Requests, RejectCommit(t)
      PROVE  RowTypes'
  BY <1>6 DEF RejectCommit, Statuses, Pending, ApprovalStatuses, Files, FilesKnown, OnFile
<1>7. ASSUME NEW t \in Requests, NEW c \in Cancels, RequestCancellation(t, c)
      PROVE  RowTypes'
  BY <1>7 DEF RequestCancellation, Statuses, Pending, ApprovalStatuses, Files
<1>8. ASSUME NEW t \in Requests, ExecuteCancelCommit(t)
      PROVE  RowTypes'
  BY <1>8 DEF ExecuteCancelCommit, CancelOrder, Statuses, Pending, ApprovalStatuses, Files, OrderStatuses, FilesKnown, OnFile
<1>9. ASSUME NEW t \in Requests, DirectCancelCommit(t)
      PROVE  RowTypes'
  BY <1>9 DEF DirectCancelCommit, CancelOrder, Statuses, Pending, ApprovalStatuses, Files, OrderStatuses
<1>10. ASSUME NEW t \in Requests, DispatchCommit(t)
      PROVE  RowTypes'
  BY <1>10 DEF DispatchCommit, OrderStatuses
<1>11. ASSUME NEW t \in Requests, RequestOverride(t)
      PROVE  RowTypes'
  BY <1>11 DEF RequestOverride, Statuses, Pending, ApprovalStatuses, Files
<1>12. ASSUME NEW t \in Requests, RejectOverride(t)
      PROVE  RowTypes'
  BY <1>12 DEF RejectOverride, Statuses, Pending, ApprovalStatuses, Files
<1>13. ASSUME NEW t \in Requests, ApproveOverride(t)
      PROVE  RowTypes'
  BY <1>13 DEF ApproveOverride, Statuses, Pending, ApprovalStatuses, Files
<1>14. ASSUME NEW t \in Requests, ForceCommit(t)
      PROVE  RowTypes'
  BY <1>14 DEF ForceCommit, OrderStatuses
<1> QED
  BY <1>1, <1>2, <1>3, <1>4, <1>5, <1>6, <1>7, <1>8, <1>9, <1>10, <1>11, <1>12, <1>13, <1>14
     DEF Next, ReturnSteps, DecisionSteps, CancelSteps, DispatchSteps, vars, rows,
         RequestReturnRead, ExecuteReturnRead, ApproveRead, RejectRead, ExecuteCancelRead, ExecuteCancelLock,
         DirectCancelLock, SupersedeRead, DispatchRead, ForceRead, Abort

(* So do the transactions in flight.                                       *)
LEMMA RequestTypesStep ==
    ASSUME Types, [Next]_vars
    PROVE  req' \in [Requests -> RequestRows] /\ FilesKnown'
<1>1. CASE UNCHANGED req
  BY <1>1 DEF Types, TypeOK, FilesKnown
<1>2. ASSUME NEW t \in Requests, End(t)
      PROVE  req' \in [Requests -> RequestRows] /\ FilesKnown'
  BY <1>2, EndTypes, FilesKnownEnd DEF Types
<1>3. ASSUME NEW t \in Requests, NEW row \in RequestRows, OnFile(row),
             req' = [req EXCEPT ![t] = row]
      PROVE  req' \in [Requests -> RequestRows] /\ FilesKnown'
  BY <1>3, RequestTypes, FilesKnownStep DEF Types
<1>4. ASSUME NEW t \in Requests, NEW list \in ItemLists, RequestReturnRead(t, list)
      PROVE  req' \in [Requests -> RequestRows] /\ FilesKnown'
  <2> DEFINE row == [Idle EXCEPT !.pc = "returnChecked", !.list = list]
  <2>1. row \in RequestRows
    BY BeginTypes DEF Pcs, Files
  <2>2. OnFile(row)
    BY DEF OnFile, Idle, Files
  <2>3. req' = [req EXCEPT ![t] = row]
    BY <1>4 DEF RequestReturnRead, Begin
  <2> HIDE DEF row
  <2> QED
    BY <1>3, <2>1, <2>2, <2>3
<1>5. ASSUME NEW t \in Requests, NEW r \in Returns, ExecuteReturnRead(t, r)
      PROVE  req' \in [Requests -> RequestRows] /\ FilesKnown'
  <2> DEFINE row == [Idle EXCEPT !.pc = "returnRead", !.file = r]
  <2>1. row \in RequestRows
    BY BeginTypes DEF Pcs, Files
  <2>2. OnFile(row)
    BY DEF OnFile, Idle, Files
  <2>3. req' = [req EXCEPT ![t] = row]
    BY <1>5 DEF ExecuteReturnRead, Begin
  <2> HIDE DEF row
  <2> QED
    BY <1>3, <2>1, <2>2, <2>3
<1>6. ASSUME NEW t \in Requests, NEW f \in Files, ApproveRead(t, f)
      PROVE  req' \in [Requests -> RequestRows] /\ FilesKnown'
  <2> DEFINE row == [Idle EXCEPT !.pc = "approving", !.file = f]
  <2>1. row \in RequestRows
    BY BeginTypes DEF Pcs, Files
  <2>2. OnFile(row)
    BY DEF OnFile, Idle, Files
  <2>3. req' = [req EXCEPT ![t] = row]
    BY <1>6 DEF ApproveRead, Begin
  <2> HIDE DEF row
  <2> QED
    BY <1>3, <2>1, <2>2, <2>3
<1>7. ASSUME NEW t \in Requests, NEW f \in Files, RejectRead(t, f)
      PROVE  req' \in [Requests -> RequestRows] /\ FilesKnown'
  <2> DEFINE row == [Idle EXCEPT !.pc = "rejecting", !.file = f]
  <2>1. row \in RequestRows
    BY BeginTypes DEF Pcs, Files
  <2>2. OnFile(row)
    BY DEF OnFile, Idle, Files
  <2>3. req' = [req EXCEPT ![t] = row]
    BY <1>7 DEF RejectRead, Begin
  <2> HIDE DEF row
  <2> QED
    BY <1>3, <2>1, <2>2, <2>3
<1>8. ASSUME NEW t \in Requests, NEW c \in Cancels, ExecuteCancelRead(t, c)
      PROVE  req' \in [Requests -> RequestRows] /\ FilesKnown'
  <2> DEFINE row == [Idle EXCEPT !.pc = "cancelRead", !.file = c]
  <2>1. row \in RequestRows
    BY BeginTypes DEF Pcs, Files
  <2>2. OnFile(row)
    BY DEF OnFile, Idle, Files
  <2>3. req' = [req EXCEPT ![t] = row]
    BY <1>8 DEF ExecuteCancelRead, Begin
  <2> HIDE DEF row
  <2> QED
    BY <1>3, <2>1, <2>2, <2>3
<1>9. ASSUME NEW t \in Requests, ExecuteCancelLock(t)
      PROVE  req' \in [Requests -> RequestRows] /\ FilesKnown'
  <2> DEFINE row == [req[t] EXCEPT !.pc = "cancelling"]
  <2>1. row \in RequestRows
    BY RequestFields DEF Types, Pcs
  <2>2. OnFile(row)
    BY <1>9, RequestFields DEF Types, FilesKnown, OnFile, RequestRows, ExecuteCancelLock
  <2>3. req' = [req EXCEPT ![t] = row]
    BY <1>9 DEF ExecuteCancelLock
  <2> HIDE DEF row
  <2> QED
    BY <1>3, <2>1, <2>2, <2>3
<1>10. ASSUME NEW t \in Requests, DirectCancelLock(t)
      PROVE  req' \in [Requests -> RequestRows] /\ FilesKnown'
  <2> DEFINE row == [Idle EXCEPT !.pc = "cancellingDirect"]
  <2>1. row \in RequestRows
    BY BeginTypes DEF Pcs, Files
  <2>2. OnFile(row)
    BY DEF OnFile, Idle, Files
  <2>3. req' = [req EXCEPT ![t] = row]
    BY <1>10 DEF DirectCancelLock, Begin
  <2> HIDE DEF row
  <2> QED
    BY <1>3, <2>1, <2>2, <2>3
<1>11. ASSUME NEW t \in Requests, SupersedeRead(t)
      PROVE  req' \in [Requests -> RequestRows] /\ FilesKnown'
  <2> DEFINE row == [req[t] EXCEPT !.pc = "superseding",
                                !.pending = {f \in Files: status[f] \in Pending}]
  <2>1. row \in RequestRows
    BY RequestFields DEF Types, Pcs
  <2>2. OnFile(row)
    BY RequestFields DEF Types, OnFile, RequestRows
  <2>3. req' = [req EXCEPT ![t] = row]
    BY <1>11 DEF SupersedeRead
  <2> HIDE DEF row
  <2> QED
    BY <1>3, <2>1, <2>2, <2>3
<1>12. ASSUME NEW t \in Requests, DispatchRead(t)
      PROVE  req' \in [Requests -> RequestRows] /\ FilesKnown'
  <2> DEFINE row == [Idle EXCEPT !.pc = "dispatchRead"]
  <2>1. row \in RequestRows
    BY BeginTypes DEF Pcs, Files
  <2>2. OnFile(row)
    BY DEF OnFile, Idle, Files
  <2>3. req' = [req EXCEPT ![t] = row]
    BY <1>12 DEF DispatchRead, Begin
  <2> HIDE DEF row
  <2> QED
    BY <1>3, <2>1, <2>2, <2>3
<1>13. ASSUME NEW t \in Requests, ApproveOverride(t)
      PROVE  req' \in [Requests -> RequestRows] /\ FilesKnown'
  <2> DEFINE row == [Idle EXCEPT !.pc = "overriding"]
  <2>1. row \in RequestRows
    BY BeginTypes DEF Pcs, Files
  <2>2. OnFile(row)
    BY DEF OnFile, Idle, Files
  <2>3. req' = [req EXCEPT ![t] = row]
    BY <1>13 DEF ApproveOverride, Begin
  <2> HIDE DEF row
  <2> QED
    BY <1>3, <2>1, <2>2, <2>3
<1>14. ASSUME NEW t \in Requests, ForceRead(t)
      PROVE  req' \in [Requests -> RequestRows] /\ FilesKnown'
  <2> DEFINE row == [req[t] EXCEPT !.pc = "forcing"]
  <2>1. row \in RequestRows
    BY RequestFields DEF Types, Pcs
  <2>2. OnFile(row)
    BY RequestFields DEF Types, OnFile, RequestRows
  <2>3. req' = [req EXCEPT ![t] = row]
    BY <1>14 DEF ForceRead
  <2> HIDE DEF row
  <2> QED
    BY <1>3, <2>1, <2>2, <2>3
<1> QED
  BY <1>1, <1>2, <1>3, <1>4, <1>5, <1>6, <1>7, <1>8, <1>9, <1>10, <1>11, <1>12, <1>13, <1>14
     DEF Next, ReturnSteps, DecisionSteps, CancelSteps, DispatchSteps, vars, AtOnce,
         Pay, RequestReturnCommit, ExecuteReturnCommit, ApproveCommit, RejectCommit,
         RequestCancellation, ExecuteCancelCommit, DirectCancelCommit, DispatchCommit,
         RequestOverride, RejectOverride, ForceCommit, Abort

LEMMA TypesStep == Types /\ [Next]_vars => Types'
  BY RowTypesStep, RequestTypesStep DEF Types, TypeOK, RowTypes

LEMMA TypesInit == Init => Types
<1> SUFFICES ASSUME Init
             PROVE  Types
  OBVIOUS
<1>1. TypeOK
  BY BeginTypes DEF Init, TypeOK, OrderStatuses, Statuses, ApprovalStatuses
<1>2. FilesKnown
  BY DEF Init, FilesKnown, OnFile, Idle
<1> QED
  BY <1>1, <1>2 DEF Types

(* The rows of the order, of its returns and cancellation requests, and    *)
(* the transactions in flight keep their types.                            *)
THEOREM TypeCorrect == Spec => []TypeOK
<1>1. Spec => []Types
  BY TypesInit, TypesStep, PTL DEF Spec
<1> QED
  BY <1>1, PTL DEF Types

-----------------------------------------------------------------------------
(* Safety.                                                                 *)

(* What a step does to the order, its payment and its stock.               *)
LEMMA OrderStep ==
    ASSUME [Next]_vars
    PROVE  \/ UNCHANGED <<order, payment, reversals>>
           \/ order' = "DISPATCHED" /\ UNCHANGED <<payment, reversals>>
           \/ order = "PENDING_PAYMENT" /\ order' \in {"DISPATCH_PENDING", "DISPATCHED"}
                 /\ payment' = "POSTED" /\ reversals' = reversals
           \/ CancelOrder
<1>1. ASSUME NEW t \in Requests, NEW withDispatch \in BOOLEAN, Pay(t, withDispatch)
      PROVE  /\ order = "PENDING_PAYMENT" /\ order' \in {"DISPATCH_PENDING", "DISPATCHED"}
             /\ payment' = "POSTED" /\ reversals' = reversals
  BY <1>1 DEF Pay
<1>2. ASSUME NEW t \in Requests, ReturnSteps(t) \/ DecisionSteps(t)
      PROVE  UNCHANGED <<order, payment, reversals>>
  BY <1>2 DEF rows, ReturnSteps, DecisionSteps,
         RequestReturnRead, RequestReturnCommit, ExecuteReturnRead,
         ExecuteReturnCommit, ApproveRead, ApproveCommit, RejectRead, RejectCommit
<1>3. ASSUME NEW t \in Requests, CancelSteps(t)
      PROVE  UNCHANGED <<order, payment, reversals>> \/ CancelOrder
  BY <1>3 DEF rows, CancelSteps, RequestCancellation, ExecuteCancelRead,
         ExecuteCancelLock, ExecuteCancelCommit, DirectCancelLock, SupersedeRead,
         DirectCancelCommit
<1>4. ASSUME NEW t \in Requests, DispatchSteps(t)
      PROVE  \/ UNCHANGED <<order, payment, reversals>>
             \/ order' = "DISPATCHED" /\ UNCHANGED <<payment, reversals>>
  BY <1>4 DEF rows, DispatchSteps, DispatchRead, DispatchCommit, RequestOverride,
         RejectOverride, ApproveOverride, ForceRead, ForceCommit
<1> QED
  BY <1>1, <1>2, <1>3, <1>4 DEF Next, vars, rows, Abort

(* An order awaiting payment has none, nor had one: it is not awaited again.*)
AwaitsPayment == order = "PENDING_PAYMENT" => payment = "NONE"

(* The stock is put back by a cancellation once, when the payment is voided:*)
(* an order that awaits payment has no payment to void yet.                *)
THEOREM OrderReversedOnce == Spec => []ReversedOnce
<1>1. Init => AwaitsPayment /\ ReversedOnce
  BY DEF Init, AwaitsPayment, ReversedOnce
<1>2. ASSUME TypeOK, AwaitsPayment, ReversedOnce, [Next]_vars
      PROVE  AwaitsPayment' /\ ReversedOnce'
  BY <1>2, OrderStep DEF TypeOK, AwaitsPayment, ReversedOnce, CancelOrder
<1> QED
  BY <1>1, <1>2, TypeCorrect, PTL DEF Spec

(* What a step does to the refunds of a return and to the approvals they   *)
(* need: an execution takes its return out of APPROVED.                    *)
LEMMA RefundStep ==
    ASSUME Types, [Next]_vars, NEW r \in Returns
    PROVE  \/ /\ UNCHANGED <<approvals[r], refunds[r]>>
              /\ status'[r] = "APPROVED" => status[r] = "APPROVED"
           \/ approvals'[r] = approvals[r] + 1 /\ refunds'[r] = refunds[r]
           \/ /\ status[r] = "APPROVED" /\ status'[r] = "EXECUTED"
              /\ refunds'[r] = refunds[r] + 1 /\ approvals'[r] = approvals[r]
<1> USE DEF Types, TypeOK
<1>1. CASE UNCHANGED <<status, approvals, refunds>>
  BY <1>1
<1>2. ASSUME NEW t \in Requests, NEW s \in Returns, RequestReturnCommit(t, s)
      PROVE  UNCHANGED <<approvals, refunds>> /\ (status'[r] = "APPROVED" => status[r] = "APPROVED")
  BY <1>2 DEF RequestReturnCommit, Files
<1>3. ASSUME NEW t \in Requests, ExecuteReturnCommit(t)
      PROVE  \/ UNCHANGED <<status[r], approvals[r], refunds[r]>>
             \/ /\ status[r] = "APPROVED" /\ status'[r] = "EXECUTED"
                /\ refunds'[r] = refunds[r] + 1 /\ approvals'[r] = approvals[r]
  BY <1>3 DEF ExecuteReturnCommit, Files, FilesKnown, OnFile
<1>4. ASSUME NEW t \in Requests, ApproveCommit(t)
      PROVE  \/ UNCHANGED <<status[r], approvals[r], refunds[r]>>
             \/ approvals'[r] = approvals[r] + 1 /\ refunds'[r] = refunds[r]
  BY <1>4 DEF ApproveCommit, Files, FilesKnown, OnFile
<1>5. ASSUME NEW t \in Requests, RejectCommit(t)
      PROVE  UNCHANGED <<approvals, refunds>> /\ (status'[r] = "APPROVED" => status[r] = "APPROVED")
  BY <1>5 DEF RejectCommit, Files, FilesKnown, OnFile
<1>6. ASSUME NEW t \in Requests, NEW c \in Cancels, RequestCancellation(t, c)
      PROVE  UNCHANGED <<approvals, refunds>> /\ (status'[r] = "APPROVED" => status[r] = "APPROVED")
  BY <1>6 DEF RequestCancellation, Files
<1>7. ASSUME NEW t \in Requests, ExecuteCancelCommit(t)
      PROVE  UNCHANGED <<approvals, refunds>> /\ (status'[r] = "APPROVED" => status[r] = "APPROVED")
  BY <1>7 DEF ExecuteCancelCommit, CancelOrder, Files, FilesKnown, OnFile
<1>8. ASSUME NEW t \in Requests, DirectCancelCommit(t)
      PROVE  UNCHANGED <<approvals, refunds>> /\ (status'[r] = "APPROVED" => status[r] = "APPROVED")
  BY <1>8 DEF DirectCancelCommit, CancelOrder, Files
<1> QED
  BY ZenonT(40), <1>1, <1>2, <1>3, <1>4, <1>5, <1>6, <1>7, <1>8
     DEF Next, vars, rows, ReturnSteps, DecisionSteps, CancelSteps, DispatchSteps,
         Pay, RequestReturnRead, ExecuteReturnRead, ApproveRead, RejectRead,
         ExecuteCancelRead, ExecuteCancelLock, DirectCancelLock, SupersedeRead,
         DispatchRead, DispatchCommit, RequestOverride, RejectOverride,
         ApproveOverride, ForceRead, ForceCommit, Abort

(* A return that is APPROVED has an approval that no refund has used up.   *)
ApprovalsLeft ==
    \A r \in Returns:
        IF status[r] = "APPROVED" THEN refunds[r] < approvals[r]
                                  ELSE refunds[r] <= approvals[r]

(* No return refunds more often than it was approved, whatever executions  *)
(* are in flight.                                                          *)
THEOREM EveryRefundApproved == Spec => []RefundsApproved
<1>1. Init => ApprovalsLeft
  BY DEF Init, ApprovalsLeft, Files
<1>2. ASSUME Types, ApprovalsLeft, [Next]_vars
      PROVE  ApprovalsLeft'
  <2> SUFFICES ASSUME NEW r \in Returns
               PROVE  IF status'[r] = "APPROVED" THEN refunds'[r] < approvals'[r]
                                                 ELSE refunds'[r] <= approvals'[r]
    BY DEF ApprovalsLeft
  <2>1. refunds[r] \in Nat /\ approvals[r] \in Nat
    BY <1>2 DEF Types, TypeOK
  <2> QED
    BY <1>2, <2>1, RefundStep DEF ApprovalsLeft
<1>3. ASSUME TypeOK, ApprovalsLeft
      PROVE  RefundsApproved
  BY <1>3 DEF TypeOK, ApprovalsLeft, RefundsApproved
<1>4. Spec => []Types
  BY TypesInit, TypesStep, PTL DEF Spec
<1> QED
  BY <1>1, <1>2, <1>3, <1>4, TypeCorrect, PTL DEF Spec

(* The queue of approvals holds exactly the unresolved files.              *)
THEOREM QueueComplete == Spec => []QueueMatchesFiles
<1>1. Init => QueueMatchesFiles
  BY DEF Init, QueueMatchesFiles
<1>2. ASSUME Types, QueueMatchesFiles, [Next]_vars
      PROVE  QueueMatchesFiles'
  <2> SUFFICES ASSUME NEW f \in Files
               PROVE  queue'[f] = "REQUESTED" <=> status'[f] = "REQUESTED"
    BY DEF QueueMatchesFiles
  <2> USE AfterSalesAssumption, <1>2 DEF Types, TypeOK, QueueMatchesFiles, Files
  <2>1. CASE UNCHANGED <<status, queue>>
    BY <2>1
  <2>2. ASSUME NEW t \in Requests, NEW r \in Returns, RequestReturnCommit(t, r)
        PROVE  queue'[f] = "REQUESTED" <=> status'[f] = "REQUESTED"
    BY <2>2 DEF RequestReturnCommit
  <2>3. ASSUME NEW t \in Requests, ExecuteReturnCommit(t)
        PROVE  queue'[f] = "REQUESTED" <=> status'[f] = "REQUESTED"
    BY <2>3 DEF ExecuteReturnCommit, FilesKnown, OnFile
  <2>4. ASSUME NEW t \in Requests, ApproveCommit(t)
        PROVE  queue'[f] = "REQUESTED" <=> status'[f] = "REQUESTED"
    BY <2>4 DEF ApproveCommit, FilesKnown, OnFile
  <2>5. ASSUME NEW t \in Requests, RejectCommit(t)
        PROVE  queue'[f] = "REQUESTED" <=> status'[f] = "REQUESTED"
    BY <2>5 DEF RejectCommit, FilesKnown, OnFile
  <2>6. ASSUME NEW t \in Requests, NEW c \in Cancels, RequestCancellation(t, c)
        PROVE  queue'[f] = "REQUESTED" <=> status'[f] = "REQUESTED"
    BY <2>6 DEF RequestCancellation
  <2>7. ASSUME NEW t \in Requests, ExecuteCancelCommit(t)
        PROVE  queue'[f] = "REQUESTED" <=> status'[f] = "REQUESTED"
    BY <2>7 DEF ExecuteCancelCommit, FilesKnown, OnFile
  <2>8. ASSUME NEW t \in Requests, DirectCancelCommit(t)
        PROVE  queue'[f] = "REQUESTED" <=> status'[f] = "REQUESTED"
    BY <2>8 DEF DirectCancelCommit
  <2>9. ASSUME UNCHANGED status, NEW q, queue' = [queue EXCEPT ![Override] = q]
        PROVE  queue'[f] = "REQUESTED" <=> status'[f] = "REQUESTED"
    BY <2>9
  <2> QED
    BY <2>1, <2>2, <2>3, <2>4, <2>5, <2>6, <2>7, <2>8, <2>9
       DEF Next, vars, rows, ReturnSteps, DecisionSteps, CancelSteps, DispatchSteps,
           Pay, RequestReturnRead, ExecuteReturnRead, ApproveRead, RejectRead,
           ExecuteCancelRead, ExecuteCancelLock, DirectCancelLock, SupersedeRead,
           DispatchRead, DispatchCommit, RequestOverride, RejectOverride,
           ApproveOverride, ForceRead, ForceCommit, Abort
<1>3. Spec => []Types
  BY TypesInit, TypesStep, PTL DEF Spec
<1> QED
  BY <1>1, <1>2, <1>3, PTL DEF Spec

-----------------------------------------------------------------------------
(* Handlers that do not overlap.                                           *)

(* At most one transaction is in flight.                                   *)
OneAtATime == \A t, u \in Requests: t = u

(* What a handler has read is still so when it goes on.                    *)
StillReads(t) ==
    LET f == req[t].file
    IN  /\ req[t].pc = "approving" => status[f] = "REQUESTED"
        /\ req[t].pc = "rejecting" => status[f] \in Pending
        /\ req[t].pc = "returnRead" => status[f] = "APPROVED" /\ payment = "POSTED"
        /\ req[t].pc \in {"cancelRead", "cancelling"} => status[f] = "APPROVED"
        /\ req[t].pc = "superseding" => req[t].pending = {g \in Files: status[g] \in Pending}
        /\ req[t].pc \in {"dispatchRead", "forcing"} => tickets = 0
        /\ req[t].pc = "forcing" => order # "CANCELLED"

(* A return is refunded when it is executed, and stays executed.           *)
RefundedIfExecuted ==
    \A r \in Returns: refunds[r] = IF status[r] = "EXECUTED" THEN 1 ELSE 0

(* An order that has left has its ticket, one that has not has none; a     *)
(* cancelled order stays cancelled.                                        *)
LeftOnce ==
    /\ order \in {"PENDING_PAYMENT", "DISPATCH_PENDING"} => tickets = 0
    /\ order = "DISPATCHED" => tickets = 1
    /\ order = "CANCELLED" => tickets <= 1
    /\ payment = "VOIDED" => order = "CANCELLED"

Alone ==
    /\ \A t \in Requests: StillReads(t)
    /\ RefundedIfExecuted
    /\ OnePendingCancellation
    /\ LeftOnce

LEMMA AloneInit == Init => Alone
<1> SUFFICES ASSUME Init
             PROVE  Alone
  OBVIOUS
<1>1. \A t \in Requests: StillReads(t)
  BY DEF Init, StillReads, Idle
<1>2. RefundedIfExecuted /\ OnePendingCancellation /\ LeftOnce
  BY DEF Init, RefundedIfExecuted, OnePendingCancellation, LeftOnce, Pending, Files
<1> QED
  BY <1>1, <1>2 DEF Alone

(* A handler goes on in the state that it left.                            *)
LEMMA StillReadsStep ==
    ASSUME OneAtATime, Types, Alone, [Next]_vars
    PROVE  \A t \in Requests: StillReads(t)'
<1> USE DEF Types, TypeOK
<1>1. CASE UNCHANGED vars
  BY <1>1 DEF vars, rows, Alone, StillReads
<1>2. ASSUME NEW t \in Requests, End(t)
      PROVE  StillReads(t)'
  <2>1. req'[t].pc = "idle"
    BY <1>2 DEF End, Idle
  <2> QED
    BY <2>1 DEF StillReads
<1>3. ASSUME NEW t \in Requests, AtOnce(t)
      PROVE  StillReads(t)'
  BY <1>3 DEF AtOnce, StillReads
<1>4. ASSUME NEW t \in Requests, NEW list \in ItemLists, RequestReturnRead(t, list)
      PROVE  StillReads(t)'
  <2>1. req'[t].pc = "returnChecked"
    BY <1>4 DEF RequestReturnRead, Begin, Idle
  <2> QED
    BY <2>1 DEF StillReads
<1>5. ASSUME NEW t \in Requests, NEW r \in Returns, ExecuteReturnRead(t, r)
      PROVE  StillReads(t)'
  <2>1. req'[t].pc = "returnRead" /\ req'[t].file = r
    BY <1>5 DEF ExecuteReturnRead, Begin, Idle
  <2>2. status' = status /\ payment' = payment /\ status[r] = "APPROVED"
    BY <1>5 DEF ExecuteReturnRead, rows
  <2>3. payment = "POSTED"
    <3>1. Units(items[r]) \in Nat \ {0}
      BY AfterSalesAssumption DEF Units, ItemLists
    <3> QED
      BY <1>5, <3>1 DEF ExecuteReturnRead
  <2> QED
    BY <2>1, <2>2, <2>3 DEF StillReads
<1>6. ASSUME NEW t \in Requests, NEW f \in Files, ApproveRead(t, f)
      PROVE  StillReads(t)'
  <2>1. req'[t].pc = "approving" /\ req'[t].file = f
    BY <1>6 DEF ApproveRead, Begin, Idle
  <2> QED
    BY <1>6, <2>1 DEF ApproveRead, rows, StillReads
<1>7. ASSUME NEW t \in Requests, NEW f \in Files, RejectRead(t, f)
      PROVE  StillReads(t)'
  <2>1. req'[t].pc = "rejecting" /\ req'[t].file = f
    BY <1>7 DEF RejectRead, Begin, Idle
  <2> QED
    BY <1>7, <2>1 DEF RejectRead, rows, StillReads
<1>8. ASSUME NEW t \in Requests, NEW c \in Cancels, ExecuteCancelRead(t, c)
      PROVE  StillReads(t)'
  <2>1. req'[t].pc = "cancelRead" /\ req'[t].file = c
    BY <1>8 DEF ExecuteCancelRead, Begin, Idle
  <2> QED
    BY <1>8, <2>1 DEF ExecuteCancelRead, rows, StillReads
<1>9. ASSUME NEW t \in Requests, ExecuteCancelLock(t)
      PROVE  StillReads(t)'
  <2>1. /\ req[t].pc = "cancelRead" /\ req'[t].pc = "cancelling"
        /\ req'[t].file = req[t].file
    BY <1>9 DEF ExecuteCancelLock, RequestRows
  <2> QED
    BY <1>9, <2>1 DEF ExecuteCancelLock, rows, StillReads, Alone
<1>10. ASSUME NEW t \in Requests, DirectCancelLock(t)
      PROVE  StillReads(t)'
  <2>1. req'[t].pc = "cancellingDirect"
    BY <1>10 DEF DirectCancelLock, Begin, Idle
  <2> QED
    BY <2>1 DEF StillReads
<1>11. ASSUME NEW t \in Requests, SupersedeRead(t)
      PROVE  StillReads(t)'
  <2>1. /\ req'[t].pc = "superseding"
        /\ req'[t].pending = {f \in Files: status[f] \in Pending}
    BY <1>11 DEF SupersedeRead, RequestRows
  <2> QED
    BY <1>11, <2>1 DEF SupersedeRead, rows, StillReads
<1>12. ASSUME NEW t \in Requests, DispatchRead(t)
      PROVE  StillReads(t)'
  <2>1. req'[t].pc = "dispatchRead"
    BY <1>12 DEF DispatchRead, Begin, Idle
  <2> QED
    BY <1>12, <2>1 DEF DispatchRead, rows, StillReads
<1>13. ASSUME NEW t \in Requests, ApproveOverride(t)
      PROVE  StillReads(t)'
  <2>1. req'[t].pc = "overriding"
    BY <1>13 DEF ApproveOverride, Begin, Idle
  <2> QED
    BY <2>1 DEF StillReads
<1>14. ASSUME NEW t \in Requests, ForceRead(t)
      PROVE  StillReads(t)'
  <2>1. req'[t].pc = "forcing"
    BY <1>14 DEF ForceRead, RequestRows
  <2> QED
    BY <1>14, <2>1 DEF ForceRead, rows, StillReads
<1>15. ASSUME NEW t \in Requests, StillReads(t)'
       PROVE  \A u \in Requests: StillReads(u)'
  BY <1>15 DEF OneAtATime
<1> QED
  <2>1. \/ UNCHANGED vars
        \/ \E t \in Requests: StillReads(t)'
    BY <1>2, <1>3, <1>4, <1>5, <1>6, <1>7, <1>8, <1>9, <1>10, <1>11, <1>12, <1>13, <1>14
       DEF Next, ReturnSteps, DecisionSteps, CancelSteps, DispatchSteps,
           Pay, RequestReturnCommit, ExecuteReturnCommit, ApproveCommit, RejectCommit,
           RequestCancellation, ExecuteCancelCommit, DirectCancelCommit, DispatchCommit,
           RequestOverride, RejectOverride, ForceCommit, Abort
  <2> QED
    BY <1>1, <1>15, <2>1

(* A step leaves the status of a file, or moves it as its handler read it. *)
LEMMA FileStep ==
    ASSUME Types, Alone, [Next]_vars, NEW f \in Files
    PROVE  \/ status'[f] = status[f] /\ (f \in Returns => refunds'[f] = refunds[f])
           \/ /\ status[f] \in Pending \union {"NONE"}
              /\ status'[f] \in Pending \union {"REJECTED", "CANCELLED"}
              /\ f \in Returns => refunds'[f] = refunds[f]
           \/ /\ status[f] = "APPROVED" /\ status'[f] = "EXECUTED"
              /\ f \in Returns => refunds'[f] = refunds[f] + 1 /\ payment = "POSTED"
<1> DEFINE Moves ==
           \/ status'[f] = status[f] /\ (f \in Returns => refunds'[f] = refunds[f])
           \/ /\ status[f] \in Pending \union {"NONE"}
              /\ status'[f] \in Pending \union {"REJECTED", "CANCELLED"}
              /\ f \in Returns => refunds'[f] = refunds[f]
           \/ /\ status[f] = "APPROVED" /\ status'[f] = "EXECUTED"
              /\ f \in Returns => refunds'[f] = refunds[f] + 1 /\ payment = "POSTED"
<1> USE DEF Types, TypeOK
<1>1. CASE UNCHANGED <<status, refunds>>
  BY <1>1
<1>2. ASSUME NEW t \in Requests, NEW r \in Returns, RequestReturnCommit(t, r)
      PROVE  Moves
  BY <1>2 DEF RequestReturnCommit, Pending, Files
<1>3. ASSUME NEW t \in Requests, ExecuteReturnCommit(t)
      PROVE  Moves
  <2>1. req[t].file \in Returns /\ payment = "POSTED"
    BY <1>3 DEF ExecuteReturnCommit, FilesKnown, OnFile, Alone, StillReads
  <2> QED
    BY <1>3, <2>1 DEF ExecuteReturnCommit, Files
<1>4. ASSUME NEW t \in Requests, ApproveCommit(t)
      PROVE  Moves
  <2>1. req[t].file \in Files /\ status[req[t].file] = "REQUESTED"
    BY <1>4 DEF ApproveCommit, FilesKnown, OnFile, Alone, StillReads
  <2> QED
    BY <1>4, <2>1 DEF ApproveCommit, Pending
<1>5. ASSUME NEW t \in Requests, RejectCommit(t)
      PROVE  Moves
  <2>1. req[t].file \in Files /\ status[req[t].file] \in Pending
    BY <1>5 DEF RejectCommit, FilesKnown, OnFile, Alone, StillReads
  <2> QED
    BY <1>5, <2>1 DEF RejectCommit
<1>6. ASSUME NEW t \in Requests, NEW c \in Cancels, RequestCancellation(t, c)
      PROVE  Moves
  BY <1>6 DEF RequestCancellation, Pending, Files
<1>7. ASSUME NEW t \in Requests, ExecuteCancelCommit(t)
      PROVE  Moves
  <2>1. req[t].file \in Cancels
    BY <1>7 DEF ExecuteCancelCommit, FilesKnown, OnFile
  <2>2. req[t].file \notin Returns
    BY <2>1, AfterSalesAssumption
  <2> QED
    BY <1>7, <2>1, <2>2 DEF ExecuteCancelCommit, CancelOrder, Files
<1>8. ASSUME NEW t \in Requests, DirectCancelCommit(t)
      PROVE  Moves
  <2>1. req[t].pending = {g \in Files: status[g] \in Pending}
    BY <1>8 DEF DirectCancelCommit, Alone, StillReads
  <2> QED
    BY <1>8, <2>1 DEF DirectCancelCommit, CancelOrder
<1> QED
  BY <1>1, <1>2, <1>3, <1>4, <1>5, <1>6, <1>7, <1>8
     DEF Next, vars, rows, ReturnSteps, DecisionSteps, CancelSteps, DispatchSteps,
         Pay, RequestReturnRead, ExecuteReturnRead, ApproveRead, RejectRead,
         ExecuteCancelRead, ExecuteCancelLock, DirectCancelLock, SupersedeRead,
         DispatchRead, DispatchCommit, RequestOverride, RejectOverride,
         ApproveOverride, ForceRead, ForceCommit, Abort

LEMMA RefundedStep ==
    ASSUME Types, Alone, [Next]_vars
    PROVE  RefundedIfExecuted'
<1> SUFFICES ASSUME NEW r \in Returns
             PROVE  refunds'[r] = IF status'[r] = "EXECUTED" THEN 1 ELSE 0
  BY DEF RefundedIfExecuted
<1>1. r \in Files /\ refunds[r] = IF status[r] = "EXECUTED" THEN 1 ELSE 0
  BY DEF Alone, RefundedIfExecuted, Files
<1>2. /\ "EXECUTED" \notin Pending \union {"NONE"}
      /\ "EXECUTED" \notin Pending \union {"REJECTED", "CANCELLED"}
  BY DEF Pending
<1> QED
  BY <1>1, <1>2, FileStep

(* A request becomes pending only where none is.                           *)
LEMMA PendingStep ==
    ASSUME Types, Alone, [Next]_vars
    PROVE  OnePendingCancellation'
<1>1. CASE \A c \in Cancels: status'[c] \in Pending => status[c] \in Pending
  BY <1>1 DEF Alone, OnePendingCancellation
<1>2. CASE \E t \in Requests, c \in Cancels: RequestCancellation(t, c)
  BY <1>2 DEF RequestCancellation, OnePendingCancellation, Types, TypeOK, Files
<1>3. CASE UNCHANGED status
  BY <1>3 DEF Alone, OnePendingCancellation
<1>4. ASSUME NEW t \in Requests,
             \/ \E r \in Returns: RequestReturnCommit(t, r)
             \/ ExecuteReturnCommit(t) \/ ApproveCommit(t) \/ RejectCommit(t)
             \/ ExecuteCancelCommit(t) \/ DirectCancelCommit(t),
             NEW c \in Cancels, status'[c] \in Pending
      PROVE  status[c] \in Pending
  <2> USE AfterSalesAssumption, <1>4 DEF Types, TypeOK, Files, Pending
  <2>1. ASSUME NEW r \in Returns, RequestReturnCommit(t, r)
        PROVE  status[c] \in Pending
    BY <2>1 DEF RequestReturnCommit
  <2>2. CASE ExecuteReturnCommit(t)
    BY <2>2 DEF ExecuteReturnCommit
  <2>3. CASE ApproveCommit(t)
    BY <2>3 DEF ApproveCommit, Alone, StillReads
  <2>4. CASE RejectCommit(t)
    BY <2>4 DEF RejectCommit
  <2>5. CASE ExecuteCancelCommit(t)
    BY <2>5 DEF ExecuteCancelCommit
  <2>6. CASE DirectCancelCommit(t)
    BY <2>6 DEF DirectCancelCommit
  <2> QED
    BY <2>1, <2>2, <2>3, <2>4, <2>5, <2>6
<1> QED
  BY <1>1, <1>2, <1>3, <1>4
     DEF Next, vars, rows, ReturnSteps, DecisionSteps, CancelSteps, DispatchSteps,
         Pay, RequestReturnRead, ExecuteReturnRead, ApproveRead, RejectRead,
         ExecuteCancelRead, ExecuteCancelLock, DirectCancelLock, SupersedeRead,
         DispatchRead, DispatchCommit, RequestOverride, RejectOverride,
         ApproveOverride, ForceRead, ForceCommit, Abort

(* Every way out finds the order without a ticket.                         *)
LEMMA LeftStep ==
    ASSUME Types, Alone, [Next]_vars
    PROVE  LeftOnce'
<1> USE DEF Types, TypeOK, Alone, LeftOnce
<1>1. CASE UNCHANGED <<order, payment, tickets>>
  BY <1>1
<1>2. ASSUME NEW t \in Requests, NEW withDispatch \in BOOLEAN, Pay(t, withDispatch)
      PROVE  LeftOnce'
  BY <1>2 DEF Pay
<1>3. ASSUME CancelOrder
      PROVE  LeftOnce'
  BY <1>3 DEF CancelOrder, OrderStatuses
<1>4. ASSUME NEW t \in Requests, DispatchCommit(t)
      PROVE  LeftOnce'
  BY <1>4 DEF DispatchCommit
<1>5. ASSUME NEW t \in Requests, ForceCommit(t)
      PROVE  LeftOnce'
  BY <1>5 DEF ForceCommit, StillReads
<1> QED
  BY <1>1, <1>2, <1>3, <1>4, <1>5
     DEF Next, vars, rows, ReturnSteps, DecisionSteps, CancelSteps, DispatchSteps,
         RequestReturnRead, RequestReturnCommit, ExecuteReturnRead, ExecuteReturnCommit,
         ApproveRead, ApproveCommit, RejectRead, RejectCommit,
         RequestCancellation, ExecuteCancelRead, ExecuteCancelLock, ExecuteCancelCommit,
         DirectCancelLock, SupersedeRead, DirectCancelCommit,
         DispatchRead, RequestOverride, RejectOverride, ApproveOverride, ForceRead, Abort

LEMMA AloneKept ==
    ASSUME OneAtATime
    PROVE  Spec => [](Types /\ Alone)
<1>1. ASSUME Types, Alone, [Next]_vars
      PROVE  Alone'
  BY <1>1, StillReadsStep, RefundedStep, PendingStep, LeftStep DEF Alone
<1> QED
  BY TypesInit, TypesStep, AloneInit, <1>1, PTL DEF Spec

(* Where handlers do not overlap, a return is refunded once: an executed   *)
(* return is never approved again (executeSaleReturn).                     *)
THEOREM RefundedOnceAlone ==
    ASSUME OneAtATime
    PROVE  Spec => []ReturnExecutedOnce
<1>1. ASSUME Types, Alone
      PROVE  ReturnExecutedOnce
  BY <1>1 DEF Alone, RefundedIfExecuted, ReturnExecutedOnce
<1> QED
  BY AloneKept, <1>1, PTL

(* Where handlers do not overlap, an order has one cancellation request    *)
(* that can be acted on (requestSaleCancellation).                         *)
THEOREM OnePendingAlone ==
    ASSUME OneAtATime
    PROVE  Spec => []OnePendingCancellation
<1>1. ASSUME Types, Alone
      PROVE  OnePendingCancellation
  BY <1>1 DEF Alone
<1> QED
  BY AloneKept, <1>1, PTL

(* Where handlers do not overlap, an order leaves once, paid, dispatched   *)
(* or forced, and not when it is cancelled.                                *)
THEOREM LeavesOnceAlone ==
    ASSUME OneAtATime
    PROVE  Spec => []DispatchedOnce
<1>1. ASSUME Types, Alone
      PROVE  DispatchedOnce
  BY <1>1 DEF Alone, LeftOnce, DispatchedOnce, Types, TypeOK, OrderStatuses
<1> QED
  BY AloneKept, <1>1, PTL

(* Where handlers do not overlap, a voided payment is not refunded: the    *)
(* execution finds no posted payment.                                      *)
THEOREM NoRefundOfVoidedAlone ==
    ASSUME OneAtATime
    PROVE  Spec => VoidedNotRefunded
<1>1. ASSUME Types, Alone, [Next]_vars
      PROVE  [payment = "VOIDED" => refunds' = refunds]_vars
  <2> SUFFICES ASSUME payment = "VOIDED", Next
               PROVE  refunds' = refunds
    BY <1>1 DEF vars, rows
  <2>1. \A t \in Requests: ~ExecuteReturnCommit(t)
    BY <1>1 DEF Alone, StillReads, ExecuteReturnCommit
  <2> QED
    BY <2>1
       DEF Next, rows, ReturnSteps, DecisionSteps, CancelSteps, DispatchSteps,
           Pay, RequestReturnRead, RequestReturnCommit, ExecuteReturnRead,
           ApproveRead, ApproveCommit, RejectRead, RejectCommit,
           RequestCancellation, ExecuteCancelRead, ExecuteCancelLock, ExecuteCancelCommit,
           CancelOrder, DirectCancelLock, SupersedeRead, DirectCancelCommit,
           DispatchRead, DispatchCommit, RequestOverride, RejectOverride,
           ApproveOverride, ForceRead, ForceCommit, Abort
<1> QED
  BY AloneKept, <1>1, PTL DEF Spec, VoidedNotRefunded
=============================================================================
