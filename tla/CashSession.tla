----------------------------- MODULE CashSession -----------------------------
(***************************************************************************)
(* The cash drawer of one branch: cash sessions, the sale payments and the *)
(* cash movements posted to them, and the handlers that open, close,       *)
(* auto-close and review them, on top of the branch's operational day      *)
(* (module OperationalDay).  hammer-api/src/modules/cash-session,          *)
(* payments, sales, operations, payroll.                                   *)
(*                                                                         *)
(* Every handler is one database transaction at READ COMMITTED.  A handler *)
(* that reads the session under SELECT ... FOR UPDATE and writes it before *)
(* it commits is one action.  A handler that reads it without a lock is    *)
(* split: the read (pc "...Read"), the statements that insert its rows and *)
(* aggregate the new expected cash (pc "synced"), and the commit.  What it *)
(* inserts is invisible to the others until the commit, but from the       *)
(* insert on it holds the foreign-key share lock on the session row, which *)
(* FOR UPDATE waits for.  Abort is the roll back of any transaction (an    *)
(* error, a timeout, a deadlock victim).                                   *)
(*                                                                         *)
(* A sweep reads its sessions without a lock and is one action all the     *)
(* same: it holds the row of the day from its first statement, and every   *)
(* handler that writes a session updates that row before it commits        *)
(* (refreshOperationalDaySummaryTx), so none commits in the middle of it.  *)
(***************************************************************************)
EXTENDS OperationalDay

CONSTANTS
    Boxes,          \* physical cash boxes of the branch
    Sessions,       \* cash session rows that may be created (a bound)
    Orders,         \* sale orders (a bound)
    Requests,       \* transactions in flight at a time (a bound)
    Price,          \* what an order paid in cash brings to the drawer
    Opening,        \* the opening amount of a session
    Counts,         \* amounts a cashier may count
    Moves,          \* net effect of a cash movement: inflow > 0, outflow < 0
    MaxRows,        \* cash movements of a session before MoveRead stops (a bound)
    PayrollAmount,  \* cash owed by a payroll disbursement group
    Handlers        \* the optional operations an instance exercises

ASSUME CashAssumption ==
    /\ Price \in Nat \ {0}
    /\ Opening \in Int
    /\ Counts \subseteq Int
    /\ Moves \subseteq Int
    /\ MaxRows \in Nat
    /\ PayrollAmount \in Nat \ {0}
    /\ Null \notin Boxes \union Sessions \union Orders

VARIABLES
    session,        \* CashSession rows
    tendered,       \* session -> sum of the CASH tenders of its POSTED payments
    moved,          \* session -> net of its CashMovement rows
    rows,           \* session -> number of its CashMovement rows
    voided,         \* session -> it has a Payment that is not POSTED
    order,          \* SaleOrder rows
    paid,           \* order -> its POSTED payment, or Null
    payroll,        \* the payroll disbursement group awaiting its cash-out
    cashedOut,      \* EXPENSE_OUT rows created for that group
    req             \* transactions in flight

tables == <<session, tendered, moved, rows, voided, order, paid, payroll, cashedOut>>
cashVars == <<tables, req>>
vars == <<dayVars, cashVars>>

-----------------------------------------------------------------------------
(* Data.                                                                   *)

Statuses == {"ABSENT", "OPEN", "RECONCILING", "CLOSED",
             "AUTO_CLOSED_PENDING_REVIEW", "AUTO_CLOSED"}
Counted    == {"CLOSED", "AUTO_CLOSED"}
Unresolved == {"OPEN", "RECONCILING", "AUTO_CLOSED_PENDING_REVIEW"}

\* SETTLED stands for DISPATCH_PENDING and DISPATCHED.
OrderStatuses == {"NONE", "DRAFT", "PENDING_PAYMENT", "SETTLED", "CANCELLED"}

Amounts == Int \union {Null}

SessionRows ==
    [status: Statuses, box: Boxes \union {Null}, day: Days \union {Null},
     key: Boxes \union {Null}, opening: Int, expected: Amounts,
     counted: Amounts, difference: Amounts, requiresReview: BOOLEAN]

NoSession ==
    [status |-> "ABSENT", box |-> Null, day |-> Null, key |-> Null,
     opening |-> 0, expected |-> Null, counted |-> Null, difference |-> Null,
     requiresReview |-> FALSE]

Plans == {"NONE", "VOID_ONLY", "CREATE_DRAWER_REFUND", "MANUAL_FOLLOWUP"}
Pcs   == {"idle", "openChecked", "openResolved", "draftResolved", "submitRead",
          "directRead", "moveRead", "payrollRead", "cancelPlanned", "synced"}

\* A transaction in flight: what it has read, and what it will have written at
\* its commit (amt, inserted: net and number of its movement rows; ord with pc
\* "synced": the order it cancels; sum, diff: the snapshot it computed).
RequestRows ==
    [pc: Pcs, sess: Sessions \union {Null}, box: Boxes \union {Null},
     ord: Orders \union {Null}, plan: Plans, amt: Int, inserted: Nat,
     forPayroll: BOOLEAN, sum: Int, diff: Amounts]

Idle ==
    [pc |-> "idle", sess |-> Null, box |-> Null, ord |-> Null, plan |-> "NONE",
     amt |-> 0, inserted |-> 0, forPayroll |-> FALSE, sum |-> 0, diff |-> Null]

TypeOK ==
    /\ DayTypeOK
    /\ session \in [Sessions -> SessionRows]
    /\ tendered \in [Sessions -> Int]
    /\ moved \in [Sessions -> Int]
    /\ rows \in [Sessions -> Nat]
    /\ voided \in [Sessions -> BOOLEAN]
    /\ order \in [Orders -> [status: OrderStatuses, day: Days \union {Null}]]
    /\ paid \in [Orders -> [sess: Sessions, cash: {0, Price}] \union {Null}]
    /\ payroll \in {"NONE", "DUE", "APPLIED"}
    /\ cashedOut \in Nat
    /\ req \in [Requests -> RequestRows]

Init ==
    /\ DayInit
    /\ session = [s \in Sessions |-> NoSession]
    /\ tendered = [s \in Sessions |-> 0]
    /\ moved = [s \in Sessions |-> 0]
    /\ rows = [s \in Sessions |-> 0]
    /\ voided = [s \in Sessions |-> FALSE]
    /\ order = [o \in Orders |-> [status |-> "NONE", day |-> Null]]
    /\ paid = [o \in Orders |-> Null]
    /\ payroll = "NONE"
    /\ cashedOut = 0
    /\ req = [r \in Requests |-> Idle]

-----------------------------------------------------------------------------
(* Locks.                                                                  *)

\* A transaction has inserted a movement of s and not committed: SELECT ... FOR
\* UPDATE of the session row waits for it.
KeyShared(s) ==
    \E r \in Requests: req[r].pc = "synced" /\ req[r].sess = s /\ req[r].inserted > 0

\* cancelSaleOrderTx holds the order row from its first statement on.
Cancelling(r, o) == req[r].pc \in {"cancelPlanned", "synced"} /\ req[r].ord = o

\* Mutant: the order row is let go once the payment is voided.
OrderLockedUntilVoid(o) == \E r \in Requests: req[r].pc = "cancelPlanned" /\ req[r].ord = o

OrderLocked(o) == \E r \in Requests: Cancelling(r, o)

-----------------------------------------------------------------------------
(* Expected cash.                                                          *)

\* calculateExpectedCashForSessionTx over the committed rows.
Formula(s) == session[s].opening + tendered[s] + moved[s]

\* Mutant: an absent count read as zero.
SyncDifferenceOfNothing(s, sum) ==
    IF session[s].status # "AUTO_CLOSED_PENDING_REVIEW"
      THEN (IF session[s].counted = Null THEN 0 ELSE session[s].counted) - sum
      ELSE Null

\* syncCashSessionSnapshotTx: the difference it writes, Null when it writes none.
SyncDifference(s, sum) ==
    IF session[s].counted # Null /\ session[s].status # "AUTO_CLOSED_PENDING_REVIEW"
      THEN session[s].counted - sum ELSE Null

Synced(row, sum, diff) ==
    [row EXCEPT !.expected = sum, !.difference = IF diff = Null THEN @ ELSE diff]

\* Mutant: the unique key is not released.
AutoClosedKeepingKey(row, sum) ==
    [row EXCEPT !.status = "AUTO_CLOSED_PENDING_REVIEW", !.expected = sum,
                !.counted = Null, !.difference = Null, !.requiresReview = TRUE]

\* The row of a session closed without a count: cron, sweep and forced close.
AutoClosed(row, sum) ==
    [row EXCEPT !.status = "AUTO_CLOSED_PENDING_REVIEW", !.expected = sum,
                !.counted = Null, !.difference = Null, !.requiresReview = TRUE,
                !.key = Null]

\* The row of a session closed with a count.
CountedRow(row, status, sum, count) ==
    [row EXCEPT !.status = status, !.expected = sum, !.counted = count,
                !.difference = count - sum, !.requiresReview = FALSE]

\* Mutants: the sweep takes every session of the day; only the OPEN ones.
OrphanAnyStatus(s, days) == session[s].status # "ABSENT" /\ session[s].day \in days
OrphanOpenOnly(s, days)  == session[s].status = "OPEN" /\ session[s].day \in days

\* closeOrphanedCashSessionsForDayTx over the days being swept.
Orphan(s, days) ==
    session[s].status \in {"OPEN", "RECONCILING"} /\ session[s].day \in days

SweptSessions(days) ==
    [s \in Sessions |-> IF Orphan(s, days) THEN AutoClosed(session[s], Formula(s))
                                           ELSE session[s]]

\* Clearing a session's unique key waits for the share locks on its row; a
\* RECONCILING session has no key to clear.
SweepWaits(days) ==
    \E s \in Sessions: Orphan(s, days) /\ session[s].key # Null /\ KeyShared(s)

\* The days a sweep of these candidates really claims.
Claimed(days) == {d \in days: life[d] = "ACTIVE"}

-----------------------------------------------------------------------------
(* Opening a session (openCashSession): the unlocked check of the box, the *)
(* resolver's read of the day, and the commit.                             *)

OpenRead(r, b) ==
    /\ req[r].pc = "idle"
    /\ \A s \in Sessions: session[s].box = b => session[s].status \notin Unresolved
    /\ req' = [req EXCEPT ![r] = [Idle EXCEPT !.pc = "openChecked", !.box = b]]
    /\ UNCHANGED <<dayVars, tables>>

\* Mutant: the day is resolved without the branch lock.
OpenResolveUnlocked(r) ==
    /\ req[r].pc = "openChecked"
    /\ resolving' = DayRead(today, TRUE)
    /\ req' = [req EXCEPT ![r].pc = "openResolved"]
    /\ UNCHANGED <<today, life, signed, tables>>

OpenResolve(r) ==
    /\ req[r].pc = "openChecked"
    /\ ResolveRead
    /\ req' = [req EXCEPT ![r].pc = "openResolved"]
    /\ UNCHANGED tables

\* Mutant: the session is created without its unique key.
OpenedRowKeyless(b, d, due) ==
    [NoSession EXCEPT !.status = "OPEN", !.box = b, !.day = d, !.opening = Opening,
                      !.expected = IF due THEN Opening - PayrollAmount ELSE Null]

\* The row openCashSession creates, after applyPendingPayrollCashOuts when a
\* payroll group is due (which syncs the snapshot, else it has none).
OpenedRow(b, d, due) ==
    [NoSession EXCEPT !.status = "OPEN", !.box = b, !.day = d, !.key = b,
                      !.opening = Opening,
                      !.expected = IF due THEN Opening - PayrollAmount ELSE Null]

\* The unique activeSessionKey makes a second OPEN session of the box fail.
OpenCommit(r, s) ==
    LET b     == req[r].box
        stale == Claimed(StaleDays)
        swept == SweptSessions(stale)
        due   == payroll = "DUE"
    IN  /\ req[r].pc = "openResolved"
        /\ session[s].status = "ABSENT"
        /\ ~SweepWaits(stale)
        /\ \A t \in Sessions: swept[t].key # b
        /\ session' = [swept EXCEPT ![s] = OpenedRow(b, resolving.day, due)]
        /\ moved' = [moved EXCEPT ![s] = IF due THEN -PayrollAmount ELSE 0]
        /\ rows' = [rows EXCEPT ![s] = IF due THEN 1 ELSE 0]
        /\ payroll' = IF due THEN "APPLIED" ELSE payroll
        /\ cashedOut' = IF due THEN cashedOut + 1 ELSE cashedOut
        /\ ResolveCommit
        /\ req' = [req EXCEPT ![r] = Idle]
        /\ UNCHANGED <<tendered, voided, order, paid>>

-----------------------------------------------------------------------------
(* Sale orders and their payments.                                         *)

\* createDraftSaleOrder: resolves the day too.
DraftResolve(r, o) ==
    /\ "Sale" \in Handlers
    /\ req[r].pc = "idle"
    /\ order[o].status = "NONE"
    /\ ResolveRead
    /\ req' = [req EXCEPT ![r] = [Idle EXCEPT !.pc = "draftResolved", !.ord = o]]
    /\ UNCHANGED tables

DraftCommit(r) ==
    /\ req[r].pc = "draftResolved"
    /\ ~SweepWaits(Claimed(StaleDays))
    /\ session' = SweptSessions(Claimed(StaleDays))
    /\ order' = [order EXCEPT ![req[r].ord] = [status |-> "DRAFT", day |-> resolving.day]]
    /\ ResolveCommit
    /\ req' = [req EXCEPT ![r] = Idle]
    /\ UNCHANGED <<tendered, moved, rows, voided, paid, payroll, cashedOut>>

\* submitSaleOrderToPendingPayment: reads DRAFT without a lock, then updates.
SubmitRead(r, o) ==
    /\ "Sale" \in Handlers
    /\ req[r].pc = "idle"
    /\ order[o].status = "DRAFT"
    /\ req' = [req EXCEPT ![r] = [Idle EXCEPT !.pc = "submitRead", !.ord = o]]
    /\ UNCHANGED <<dayVars, tables>>

SubmitCommit(r) ==
    /\ req[r].pc = "submitRead"
    /\ ~OrderLocked(req[r].ord)
    /\ order' = [order EXCEPT ![req[r].ord].status = "PENDING_PAYMENT"]
    /\ req' = [req EXCEPT ![r] = Idle]
    /\ UNCHANGED <<dayVars, session, tendered, moved, rows, voided, paid, payroll,
                   cashedOut>>

\* validateCashSessionForOrderTx, and the same tests in submitDirectSale.
AcceptsPayments(s) ==
    /\ session[s].status = "OPEN"
    /\ session[s].key # Null
    /\ life[session[s].day] = "ACTIVE"

\* postSaleOrderPayment: order and session locked, snapshot synced at the end.
PayOrder(o, s, cash) ==
    LET sum == Formula(s) + cash
    IN  /\ "Sale" \in Handlers
        /\ order[o].status = "PENDING_PAYMENT"
        /\ paid[o] = Null
        /\ ~OrderLocked(o)
        /\ AcceptsPayments(s)
        /\ ~KeyShared(s)
        /\ order' = [order EXCEPT ![o].status = "SETTLED"]
        /\ paid' = [paid EXCEPT ![o] = [sess |-> s, cash |-> cash]]
        /\ tendered' = [tendered EXCEPT ![s] = @ + cash]
        /\ session' = [session EXCEPT ![s] = Synced(@, sum, SyncDifference(s, sum))]
        /\ UNCHANGED <<dayVars, moved, rows, voided, payroll, cashedOut, req>>

\* submitDirectSale: order and session read without a lock ...
DirectRead(r, o, s) ==
    /\ "Direct" \in Handlers
    /\ req[r].pc = "idle"
    /\ order[o].status = "DRAFT"
    /\ AcceptsPayments(s)
    /\ req' = [req EXCEPT ![r] = [Idle EXCEPT !.pc = "directRead", !.ord = o, !.sess = s]]
    /\ UNCHANGED <<dayVars, tables>>

\* Mutant: the payment is inserted whatever became of the order.
DirectCommitKeepingOrder(r, cash) ==
    LET o == req[r].ord
        s == req[r].sess
    IN  /\ req[r].pc = "directRead"
        /\ ~OrderLocked(o)
        /\ paid[o] = Null
        /\ order' = [order EXCEPT ![o].status = IF @ = "DRAFT" THEN "SETTLED" ELSE @]
        /\ paid' = [paid EXCEPT ![o] = [sess |-> s, cash |-> cash]]
        /\ tendered' = [tendered EXCEPT ![s] = @ + cash]
        /\ req' = [req EXCEPT ![r] = Idle]
        /\ UNCHANGED <<dayVars, session, moved, rows, voided, payroll, cashedOut>>

\* ... then the order is updated and the payment inserted (at most one POSTED
\* per order, by the partial unique index); the session snapshot is not synced.
DirectCommit(r, cash) ==
    LET o == req[r].ord
        s == req[r].sess
    IN  /\ req[r].pc = "directRead"
        /\ ~OrderLocked(o)
        /\ paid[o] = Null
        /\ order' = [order EXCEPT ![o].status = "SETTLED"]
        /\ paid' = [paid EXCEPT ![o] = [sess |-> s, cash |-> cash]]
        /\ tendered' = [tendered EXCEPT ![s] = @ + cash]
        /\ req' = [req EXCEPT ![r] = Idle]
        /\ UNCHANGED <<dayVars, session, moved, rows, voided, payroll, cashedOut>>

-----------------------------------------------------------------------------
(* Cancelling an order (cancelSaleOrderTx).                                *)

\* An order without a posted payment: only its status changes.
CancelUnpaid(o) ==
    /\ "Cancel" \in Handlers
    /\ order[o].status = "PENDING_PAYMENT"
    /\ paid[o] = Null
    /\ ~OrderLocked(o)
    /\ order' = [order EXCEPT ![o].status = "CANCELLED"]
    /\ UNCHANGED <<dayVars, session, tendered, moved, rows, voided, paid, payroll,
                   cashedOut, req>>

\* resolveCancellationCashPlan
CashPlan(o, refunded) ==
    IF paid[o].cash = 0 THEN "NONE"
    ELSE IF session[paid[o].sess].status # "OPEN" THEN "MANUAL_FOLLOWUP"
    ELSE IF refunded THEN "CREATE_DRAWER_REFUND" ELSE "VOID_ONLY"

\* The order is locked; its payment's session is read without a lock.
CancelPlan(r, o, refunded) ==
    /\ "Cancel" \in Handlers
    /\ req[r].pc = "idle"
    /\ order[o].status \in {"PENDING_PAYMENT", "SETTLED"}
    /\ paid[o] # Null
    /\ ~OrderLocked(o)
    /\ req' = [req EXCEPT ![r] = [Idle EXCEPT !.pc = "cancelPlanned", !.ord = o,
                                              !.sess = paid[o].sess,
                                              !.plan = CashPlan(o, refunded)]]
    /\ UNCHANGED <<dayVars, tables>>

\* Rows inserted by a request (net and number) and the snapshot computed with
\* them; `cash' leaves the posted tenders.
ComputesSnapshot(r, s, net, number, cash) ==
    LET sum == Formula(s) + net - cash
    IN  req' = [req EXCEPT ![r].pc = "synced", ![r].sess = s, ![r].amt = net,
                           ![r].inserted = number, ![r].sum = sum,
                           ![r].diff = SyncDifference(s, sum)]

\* The void, the CASH_IN and REFUND_OUT pair when the cash left the drawer (net
\* zero: the void already lowers the expected cash), and the snapshot.
CancelSync(r) ==
    /\ req[r].pc = "cancelPlanned"
    /\ ComputesSnapshot(r, req[r].sess, 0,
                        IF req[r].plan = "CREATE_DRAWER_REFUND" THEN 2 ELSE 0,
                        paid[req[r].ord].cash)
    /\ UNCHANGED <<dayVars, tables>>

-----------------------------------------------------------------------------
(* Cash movements.                                                         *)

\* createCashMovement and sendCashOutToCustodyTx: the session must be OPEN.
MoveRead(r, s, a) ==
    /\ "Move" \in Handlers
    /\ req[r].pc = "idle"
    /\ session[s].status = "OPEN"
    /\ rows[s] < MaxRows
    /\ req' = [req EXCEPT ![r] = [Idle EXCEPT !.pc = "moveRead", !.sess = s, !.amt = a]]
    /\ UNCHANGED <<dayVars, tables>>

\* createCashPurchase and the expense of the pricing module take the active
\* session of the branch, OPEN or RECONCILING, read before their transaction.
ExpenseRead(r, s, a) ==
    /\ "Move" \in Handlers
    /\ req[r].pc = "idle"
    /\ session[s].status = "RECONCILING"
    /\ a < 0
    /\ rows[s] < MaxRows
    /\ req' = [req EXCEPT ![r] = [Idle EXCEPT !.pc = "moveRead", !.sess = s, !.amt = a]]
    /\ UNCHANGED <<dayVars, tables>>

MoveSync(r) ==
    /\ req[r].pc = "moveRead"
    /\ ComputesSnapshot(r, req[r].sess, req[r].amt, 1, 0)
    /\ UNCHANGED <<dayVars, tables>>

\* RECALCULATE_CASH_SESSION: a snapshot of any session, nothing inserted.
Recalculate(r, s) ==
    /\ "Recalculate" \in Handlers
    /\ req[r].pc = "idle"
    /\ session[s].status # "ABSENT"
    /\ ComputesSnapshot(r, s, 0, 0, 0)
    /\ UNCHANGED <<dayVars, tables>>

\* A payroll group is disbursed and waits for its cash-out.
PayrollPaid ==
    /\ "Payroll" \in Handlers
    /\ payroll = "NONE"
    /\ payroll' = "DUE"
    /\ UNCHANGED <<dayVars, session, tendered, moved, rows, voided, order, paid,
                   cashedOut, req>>

\* tryApplyPayrollCashOutNow: the OPEN session and the pending group are read ...
PayrollRead(r, s) ==
    /\ "Payroll" \in Handlers
    /\ req[r].pc = "idle"
    /\ session[s].status = "OPEN"
    /\ payroll = "DUE"
    /\ req' = [req EXCEPT ![r] = [Idle EXCEPT !.pc = "payrollRead", !.sess = s,
                                              !.forPayroll = TRUE]]
    /\ UNCHANGED <<dayVars, tables>>

\* ... and applied without looking at either again.
PayrollSync(r) ==
    /\ req[r].pc = "payrollRead"
    /\ ComputesSnapshot(r, req[r].sess, -PayrollAmount, 1, 0)
    /\ UNCHANGED <<dayVars, tables>>

-----------------------------------------------------------------------------
(* The commit of a transaction that has computed a snapshot.               *)

\* A movement, a payroll cash-out or a recalculation.
SyncCommit(r) ==
    LET s == req[r].sess
    IN  /\ req[r].pc = "synced"
        /\ req[r].ord = Null
        /\ session' = [session EXCEPT ![s] = Synced(@, req[r].sum, req[r].diff)]
        /\ moved' = [moved EXCEPT ![s] = @ + req[r].amt]
        /\ rows' = [rows EXCEPT ![s] = @ + req[r].inserted]
        /\ payroll' = IF req[r].forPayroll THEN "APPLIED" ELSE payroll
        /\ cashedOut' = IF req[r].forPayroll THEN cashedOut + 1 ELSE cashedOut
        /\ req' = [req EXCEPT ![r] = Idle]
        /\ UNCHANGED <<dayVars, tendered, voided, order, paid>>

\* A cancellation.
CancelCommit(r) ==
    LET s == req[r].sess
        o == req[r].ord
    IN  /\ req[r].pc = "synced"
        /\ o # Null
        /\ session' = [session EXCEPT ![s] = Synced(@, req[r].sum, req[r].diff)]
        /\ tendered' = [tendered EXCEPT ![s] = @ - paid[o].cash]
        /\ rows' = [rows EXCEPT ![s] = @ + req[r].inserted]
        /\ voided' = [voided EXCEPT ![s] = TRUE]
        /\ order' = [order EXCEPT ![o].status = "CANCELLED"]
        /\ paid' = [paid EXCEPT ![o] = Null]
        /\ req' = [req EXCEPT ![r] = Idle]
        /\ UNCHANGED <<dayVars, moved, payroll, cashedOut>>

\* Any transaction in flight rolls back.
Abort(r) ==
    /\ req[r].pc # "idle"
    /\ req' = [req EXCEPT ![r] = Idle]
    /\ IF req[r].pc \in {"openResolved", "draftResolved"}
         THEN ResolveAbort ELSE UNCHANGED dayVars
    /\ UNCHANGED tables

-----------------------------------------------------------------------------
(* Closing with a count.                                                   *)

\* An order awaiting payment created in today's operational window.
PendingToday ==
    \E o \in Orders: order[o].status = "PENDING_PAYMENT" /\ order[o].day = today

\* requestCloseCashSession: `voided' is its count of payments not POSTED.
RequestClose(s) ==
    /\ "Count" \in Handlers
    /\ session[s].status = "OPEN"
    /\ ~KeyShared(s)
    /\ ~PendingToday
    /\ ~voided[s]
    /\ session' = [session EXCEPT ![s].status = "RECONCILING", ![s].key = Null]
    /\ UNCHANGED <<dayVars, tendered, moved, rows, voided, order, paid, payroll,
                   cashedOut, req>>

\* closeCashSession
Close(s, count) ==
    /\ session[s].status = "RECONCILING"
    /\ ~KeyShared(s)
    /\ ~PendingToday
    /\ ~voided[s]
    /\ session' = [session EXCEPT ![s] = CountedRow(@, "CLOSED", Formula(s), count)]
    /\ UNCHANGED <<dayVars, tendered, moved, rows, voided, order, paid, payroll,
                   cashedOut, req>>

-----------------------------------------------------------------------------
(* Closing without a count, and the review that supplies one.              *)

\* Mutant: the cron looks at today's sessions only.
AutoCloseToday(s) ==
    /\ session[s].status = "OPEN"
    /\ session[s].day = today
    /\ ~KeyShared(s)
    /\ session' = [session EXCEPT ![s] = AutoClosed(@, Formula(s))]
    /\ UNCHANGED <<dayVars, tendered, moved, rows, voided, order, paid, payroll,
                   cashedOut, req>>

\* autoCloseExpiredCashSessions, for one session past the closing time.
AutoClose(s) ==
    /\ session[s].status = "OPEN"
    /\ ~KeyShared(s)
    /\ session' = [session EXCEPT ![s] = AutoClosed(@, Formula(s))]
    /\ UNCHANGED <<dayVars, tendered, moved, rows, voided, order, paid, payroll,
                   cashedOut, req>>

\* forceCleanupBranch, action 1: an OPEN session of another day than today's.
\* It leaves the count and the difference alone, which an OPEN session has not.
ForceClose(s) ==
    /\ "Force" \in Handlers
    /\ session[s].day # today
    /\ AutoClose(s)

\* reviewAutoClosedCashSession takes the expected cash the session was closed
\* with; confirmOk takes it as the count, and so does forceCleanupBranch's
\* action 2 (without looking at requiresReview).
ReviewBase(s) ==
    IF session[s].expected = Null THEN Formula(s) ELSE session[s].expected

Review(s, count) ==
    /\ "Review" \in Handlers
    /\ session[s].status = "AUTO_CLOSED_PENDING_REVIEW"
    /\ session[s].requiresReview
    /\ ~KeyShared(s)
    /\ session' = [session EXCEPT ![s] = CountedRow(@, "AUTO_CLOSED", ReviewBase(s), count)]
    /\ UNCHANGED <<dayVars, tendered, moved, rows, voided, order, paid, payroll,
                   cashedOut, req>>

ForceResolve(s) ==
    LET count == IF session[s].expected = Null THEN 0 ELSE session[s].expected
    IN  /\ "Force" \in Handlers
        /\ session[s].status = "AUTO_CLOSED_PENDING_REVIEW"
        /\ ~KeyShared(s)
        /\ session' = [session EXCEPT ![s].status = "AUTO_CLOSED", ![s].counted = count,
                                      ![s].difference = 0, ![s].requiresReview = FALSE]
        /\ UNCHANGED <<dayVars, tendered, moved, rows, voided, order, paid, payroll,
                       cashedOut, req>>

-----------------------------------------------------------------------------
(* The day's handlers, with what they do to the sessions of the day.       *)

\* A sweep closes the orphan sessions of the days it claims.
SweepsSessions(days) ==
    /\ ~SweepWaits(Claimed(days))
    /\ session' = SweptSessions(Claimed(days))
    /\ UNCHANGED <<tendered, moved, rows, voided, order, paid, payroll, cashedOut, req>>

EndShift(d)   == "EndShift" \in Handlers /\ DayEndShift(d) /\ SweepsSessions({d})
SweepStale(d) == DaySweepStale(d) /\ SweepsSessions({d})
Confirm(d)    == "Sign" \in Handlers /\ DayConfirm(d) /\ SweepsSessions({d})

\* Cancelling a day leaves its sessions as they are.
Revert(d)    == "Sign" \in Handlers /\ DayRevert(d) /\ UNCHANGED cashVars
CancelDay(d) == "CancelDay" \in Handlers /\ DayCancel(d) /\ UNCHANGED cashVars
Reopen(d)    == "Reopen" \in Handlers /\ DayReopen(d) /\ UNCHANGED cashVars

\* The manual opening holds the branch lock as the resolver does.
OpenDayRead(d) == "Reopen" \in Handlers /\ DayOpenRead(d) /\ UNCHANGED cashVars

OpenDayCommit ==
    /\ resolving # Null
    /\ ~resolving.sweeps
    /\ ResolveCommit
    /\ UNCHANGED cashVars

OpenDayAbort ==
    /\ resolving # Null
    /\ ~resolving.sweeps
    /\ ResolveAbort
    /\ UNCHANGED cashVars

DayPasses == NextDay /\ UNCHANGED cashVars

-----------------------------------------------------------------------------
(* The specification.                                                      *)

OpenSteps(r) ==
    \/ \E b \in Boxes: OpenRead(r, b)
    \/ OpenResolve(r)
    \/ \E s \in Sessions: OpenCommit(r, s)

SaleSteps(r) ==
    \/ \E o \in Orders: DraftResolve(r, o) \/ SubmitRead(r, o)
    \/ DraftCommit(r)
    \/ SubmitCommit(r)
    \/ \E o \in Orders, s \in Sessions, cash \in {0, Price}: PayOrder(o, s, cash)

DirectSteps(r) ==
    \/ \E o \in Orders, s \in Sessions: DirectRead(r, o, s)
    \/ \E cash \in {0, Price}: DirectCommit(r, cash)

CancelSteps(r) ==
    \/ \E o \in Orders: CancelUnpaid(o)
    \/ \E o \in Orders, refunded \in BOOLEAN: CancelPlan(r, o, refunded)
    \/ CancelSync(r)
    \/ CancelCommit(r)

MoveSteps(r) ==
    \/ \E s \in Sessions, a \in Moves: MoveRead(r, s, a) \/ ExpenseRead(r, s, a)
    \/ MoveSync(r)

PayrollSteps(r) ==
    \/ PayrollPaid
    \/ \E s \in Sessions: PayrollRead(r, s)
    \/ PayrollSync(r)

CountSteps(s) == RequestClose(s) \/ \E count \in Counts: Close(s, count)

ReviewSteps(s) ==
    \/ \E count \in Counts: Review(s, count)
    \/ session[s].expected # Null /\ Review(s, session[s].expected)  \* confirmOk

Next ==
    \/ \E r \in Requests:
          \/ OpenSteps(r) \/ SaleSteps(r) \/ DirectSteps(r) \/ CancelSteps(r)
          \/ MoveSteps(r) \/ PayrollSteps(r)
          \/ \E s \in Sessions: Recalculate(r, s)
          \/ SyncCommit(r)
          \/ Abort(r)
    \/ \E s \in Sessions:
          \/ CountSteps(s)
          \/ AutoClose(s)
          \/ ReviewSteps(s)
          \/ ForceClose(s) \/ ForceResolve(s)
    \/ \E d \in Days:
          \/ EndShift(d) \/ SweepStale(d)
          \/ Confirm(d) \/ Revert(d)
          \/ CancelDay(d) \/ Reopen(d)
          \/ OpenDayRead(d)
    \/ OpenDayCommit
    \/ OpenDayAbort
    \/ DayPasses

Spec == Init /\ [][Next]_vars

\* The cron retries every open session and every stale day on each run, ten
\* minutes apart; a transaction in flight ends (Prisma bounds its time); and
\* the movements of one drawer, keyed in by its cashiers, do not overlap for
\* ever (a stream of share locks would hold off FOR UPDATE).
Fairness ==
    /\ \A s \in Sessions: []<>~KeyShared(s)
    /\ \A s \in Sessions: SF_vars(AutoClose(s))
    /\ \A d \in Days: SF_vars(SweepStale(d))
    /\ \A r \in Requests: WF_vars(Abort(r) \/ SyncCommit(r) \/ CancelCommit(r))

FairSpec == Spec /\ Fairness

-----------------------------------------------------------------------------
(* Safety.                                                                 *)

(* The unique key is held exactly by the OPEN session of its box: every    *)
(* handler that takes a session out of OPEN clears it, the sweep and the   *)
(* opening that runs inside another transaction included.                  *)
KeyMatchesStatus ==
    \A s \in Sessions:
        session[s].key = IF session[s].status = "OPEN" THEN session[s].box ELSE Null

(* A physical cash box never has two OPEN sessions, although openCashSession *)
(* looks for one without a lock and commits several statements later.      *)
OneOpenPerBox ==
    \A s, t \in Sessions:
        /\ session[s].status = "OPEN" /\ session[t].status = "OPEN"
        /\ session[s].box = session[t].box
        => s = t

(* A session awaits review exactly while nobody has counted its drawer:    *)
(* whatever snapshot commits late, it has no count and no difference until *)
(* the review, and every closed session has all three figures.             *)
ReviewStateSound ==
    \A s \in Sessions:
        /\ session[s].requiresReview <=> session[s].status = "AUTO_CLOSED_PENDING_REVIEW"
        /\ session[s].counted # Null <=> session[s].status \in Counted
        /\ session[s].difference # Null <=> session[s].status \in Counted
        /\ session[s].status \in Counted \union {"AUTO_CLOSED_PENDING_REVIEW"}
              => session[s].expected # Null

(* A drawer is counted once: no handler, snapshot or sweep that started    *)
(* before the count moves a counted session again or changes its count.    *)
CountIsFinal ==
    [][\A s \in Sessions: session[s].status \in Counted
          => /\ session'[s].status = session[s].status
             /\ session'[s].counted = session[s].counted]_vars

(* The difference of a counted session is its count less its expected      *)
(* cash, also after a snapshot taken before the count commits after it.    *)
DifferenceMatchesCount ==
    \A s \in Sessions: session[s].status \in Counted
        => session[s].difference = session[s].counted - session[s].expected

\* What the status of a session says of its drawer.
PhaseOf ==
    [ABSENT |-> "UNUSED", OPEN |-> "HELD", RECONCILING |-> "COUNTING",
     AUTO_CLOSED_PENDING_REVIEW |-> "UNCOUNTED", CLOSED |-> "COUNTED",
     AUTO_CLOSED |-> "COUNTED"]

Drawers == INSTANCE CashDrawers WITH
    phase <- [s \in Sessions |-> PhaseOf[session[s].status]],
    box   <- [s \in Sessions |-> session[s].box],
    count <- [s \in Sessions |-> session[s].counted]

(* The sessions implement the drawers: whatever opens, sweeps, forced      *)
(* closings, late snapshots and reviews do, in whatever order, a drawer is *)
(* taken when no other session has it, let go once and counted once.       *)
ImplementsDrawers == Drawers!DrawerSpec

(* A cancelled order keeps no posted payment, although direct sales and    *)
(* payments of the same order are in flight while it is cancelled.         *)
CancelledOrdersUnpaid ==
    \A o \in Orders: order[o].status = "CANCELLED" => paid[o] = Null

\* A transaction in flight names the rows that its next step uses, and no
\* order unless it handles one.
RefersToRows(row) ==
    /\ row.pc \in {"directRead", "moveRead", "payrollRead", "cancelPlanned", "synced"}
          => row.sess # Null
    /\ row.pc \in {"draftResolved", "submitRead", "directRead", "cancelPlanned"}
          => row.ord # Null
    /\ row.pc \in {"idle", "moveRead", "payrollRead"} => row.ord = Null
    /\ row.pc \in {"openChecked", "openResolved"} => row.box # Null

(* What a transaction in flight decided on stays true until it commits: an *)
(* order is being cancelled once at a time, its payment stays posted to the*)
(* session the plan was made for, and a snapshot that carries a difference *)
(* is of a session that has been counted.                                  *)
InFlightSound ==
    /\ \A r \in Requests: RefersToRows(req[r])
    /\ \A r \in Requests, o \in Orders: Cancelling(r, o)
          => /\ paid[o] # Null
             /\ paid[o].sess = req[r].sess
             /\ \A q \in Requests: Cancelling(q, o) => q = r
    /\ \A r \in Requests: req[r].pc = "synced" /\ req[r].diff # Null
          => session[req[r].sess].status \in Counted

-----------------------------------------------------------------------------
(* Liveness.                                                               *)

(* An OPEN session does not stay OPEN: the cron closes it at the latest,   *)
(* whatever movements and payments keep arriving.                          *)
OpenSessionIsClosed ==
    \A s \in Sessions: (session[s].status = "OPEN") ~> (session[s].status # "OPEN")

(* A session of an ACTIVE day whose date has passed does not stay OPEN or  *)
(* RECONCILING: the sweep of its day resolves it, unless the day itself is *)
(* cancelled under it.                                                     *)
StaleSessionIsResolved ==
    \A s \in Sessions:
        (/\ session[s].status \in {"OPEN", "RECONCILING"}
         /\ life[session[s].day] = "ACTIVE" /\ session[s].day < today)
        ~> (\/ session[s].status \notin {"OPEN", "RECONCILING"}
            \/ life[session[s].day] = "CANCELLED")

-----------------------------------------------------------------------------
(* What docs, comments and tests of the repository say, which the code     *)
(* does not keep (see the findings in the README).                         *)

(* "Si la sesion sigue OPEN, su dia por construccion deberia seguir        *)
(* ACTIVE" (sales/service.ts, payments/service.ts).                        *)
OpenSessionHasActiveDay ==
    \A s \in Sessions: session[s].status = "OPEN" => life[session[s].day] = "ACTIVE"

(* "El cierre historico no se modifica": the follow-up the cancellation of *)
(* an order paid in a closed session leaves (cancelSaleOrderTx).           *)
ClosedFiguresFrozen ==
    [][\A s \in Sessions: session[s].status = "CLOSED"
          => /\ session'[s].expected = session[s].expected
             /\ session'[s].difference = session[s].difference]_vars

(* "En un unico EXPENSE_OUT por grupo" (payroll-cash-sync.ts).             *)
PayrollAppliedOnce == cashedOut <= 1

(* "Hay pagos pendientes en esta sesion. Procesalos antes de cerrar."      *)
(* (pos-ui.ts): a session with no order awaiting payment and nothing in    *)
(* flight can be closed by its cashier.                                    *)
SettledSessionCloses ==
    \A s \in Sessions:
        /\ session[s].status = "OPEN"
        /\ \A o \in Orders: order[o].status # "PENDING_PAYMENT"
        /\ \A r \in Requests: req[r].pc = "idle"
        => ENABLED RequestClose(s)

(* "Apertura + tenders CASH posteados + neto de movimientos"               *)
(* (expected-cash.ts): the expected cash of a session that no longer       *)
(* operates, once nothing is in flight.                                    *)
ClosedExpectedIsFormula ==
    (\A r \in Requests: req[r].pc = "idle") =>
        \A s \in Sessions:
            session[s].status \in Counted \union {"AUTO_CLOSED_PENDING_REVIEW"}
                => session[s].expected = Formula(s)
=============================================================================
