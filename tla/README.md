# Hammer POS: a TLA+ verification of the day, the drawer, the stock and the safe

Hammer is a point-of-sale and light ERP system for hardware stores in several
branches. The repository has a Next.js API over Prisma and PostgreSQL
(`hammer-api`), a Next.js frontend (`hammer-frontend`), an agent on the branch
PC that talks to cameras (`hammer-agent`), and documentation. All the state
that matters is in the database; every handler is one interactive transaction
at READ COMMITTED, and many instances of the API run at once. What can go wrong
is therefore what goes wrong between transactions: a row read without a lock
and used afterwards, a cron that works on what a person is working on, a
snapshot that commits late, a call that is repeated or stops half-way.

This directory models the parts of the system where that matters:

- the **operational day** of a branch and its **cash drawer** (sessions, sales,
  payments, movements, cancellations, payroll cash-outs, automatic closing, review);
- **offline sales** and their upload;
- what happens to an **order after its payment** (dispatch, returns, cancellation
  requests, approvals);
- the **stock** (entries of several lines, physical counts, transfers, sales,
  packages) and **production**;
- the **treasury** (declared cash, custodies, safe, bank, card settlement).

Paths below are relative to `src/hammer-api/src/modules/` unless they start with `src/`.

## 1. Inventory

| Component | State | Operations | Interacts with |
|---|---|---|---|
| Operational day (`operations/day-lifecycle.ts`, `day-resolver.ts`) | `OperationalDay`: lifecycle (ACTIVE, AWAITING_REVIEW, CANCELLED), reviewStatus (PENDING, CONFIRMED), one row per branch and date | resolve (at every operation), open by hand, end shift, sweep by cron, confirm, revert, cancel, reopen | Sweeping and confirming close the orphan sessions of the day; opening a session and creating an order resolve it |
| Cash session (`cash-session/`) | `CashSession`: status, box, day, `activeSessionKey` (unique), opening, expected, counted and difference amounts, requiresReview | open, request close, close with a count, auto-close (cron), review, forced clean-up, snapshot | Reads payments and movements; is locked by payments; is closed by the day |
| Cash movements (`cash-session/service.ts`, `finance/`, `treasury/cash-monitor.ts`, `pricing/`) | `CashMovement` rows | manual movement, custody hand-over, purchase, expense | Insert a row and sync the snapshot of the session |
| Sale orders and payments (`sales/`, `payments/`) | `SaleOrder` status; `Payment`, `PaymentTender` | draft, submit, pay in the queue, direct sale | Need an OPEN session of an ACTIVE day; resolve the day; take stock |
| Cancellation (`sales/service.ts`, `sales/cancellation-cash-policy.ts`) | the order, its payment, the drawer | plan from the status of the session, void, refund pair, snapshot, cancel, supersede requests | Sessions in any status; inventory; pending requests |
| Payroll cash-out (`payroll/payroll-cash-sync.ts`) | `PayrollDisbursement.cashMovementId` | apply a pending group to an OPEN session | Called by the opening of a session and after a payment of payroll |
| Brain actions (`brain/actions/`) | decisions | recalculate a session, create a transfer, ... | Snapshot of any session |
| Offline sync (`sales/offline-sync.service.ts`, `src/hammer-frontend/src/hooks/use-offline-mode.ts`, `lib/offline-db.ts`) | the queue in IndexedDB, orders by `offlineClientId` (unique) | sell, upload, answer, retry | Posts to sessions that may be closed, of days that may be signed |
| Returns, cancellation requests, approvals, dispatch (`sales-returns/`, `approvals/`, `dispatch/`) | `SaleReturn`, `SaleCancellation`, `ApprovalRequest`, `DispatchTicket` | request, approve, reject, execute, supersede, dispatch, force | Orders, drawer, stock |
| Inventory (`inventory/service.ts`) | `InventoryBalance` (packages, loose units) | movement, automatic opening, open and make packages, opening balance | Called by everything that moves stock |
| Entries of several lines (`inventory/multi-branch-intake-service.ts`) | progress of each branch, lines left | create, continue, retry, edit, discard | A movement per line |
| Stock counts (`inventory/stock-count-service.ts`) | status, lines, scan events | scan, correct, submit, approve, reject, reopen | Becomes an entry |
| Transfers (`transfers/`) | status, requested, dispatched, received | draft, approve, dispatch, receive in parts, cancel | Stock of two branches |
| Production (`production/`) | status, reserved and actual inputs, cost log | plan, complete, cancel, reverse | Stock, branch cost and price, price of the product |
| Treasury (`treasury/`) | ledger entries of accounts, declarations, deposits, expenses | declare, hand over, confirm, deposit, annul, adjust, spend, settle | Closed sessions; the drawer side of a hand-over is a cash movement |
| Purchase orders, auth, RBAC, catalogue, pricing, reports, cameras, printing, frontend | see `PROJECT.json` | CRUD, arithmetic, presentation | - |

`PROJECT.json` lists every component with its status, and the hazards, each at
the line where it bites, with the properties that would catch it.

**What is hard here.** The day is read by its opener under the lock of the
*branch*, while its other handlers lock the *day*. Sessions are opened after an
unlocked check. Movements, direct sales, payroll and snapshots read the session
without a lock and commit later; payments, closes, the cron and the review
lock it. A cancellation reaches back to sessions that have long been counted and to
requests that are being decided. Approvals read and overwrite without a condition.
An upload may be repeated while its first attempt still runs. A long entry is applied in batches by
calls that stop for lack of time and are taken up again, while its lines are edited.
A count is of stock that keeps moving. An expense and a direct deposit lock in
opposite orders. Production batches reserve stock that nobody locks, and put back prices that
others may have written.

**What makes each part correct.**
- Day: a signed day is never cancelled; a past day does not stay ACTIVE.
- Session: one OPEN session per box, the key held exactly by it; a count is
  final; a session awaits review exactly while nobody has counted it; no
  session stays open for ever.
- Order: cancelled once, by one transaction; no posted payment afterwards; stock
  put back once; only approved returns refunded; the approval queue in step with its files.
- Offline sale: posted once, never when it is refused for good; SYNCED only if posted; not left waiting for ever by failures.
- Entry: each batch applied once, in order; a discarded one moves nothing; every call ends.
- Count: each scan counted once; the movements since the scan are kept.
- Stock: packages and units conserved; no more written as received than was dispatched.
- Production: stock follows the batches; a reservation ends with its batch; cost
  and price of a branch are those of its last batch not reversed.
- Treasury: no custody overdrawn, no retained cash used twice, the ledger agrees with the rows.

## 2. Modules

| Module | Models |
|---|---|
| `OperationalDay` | The day: `today`, `life[d]` (lifecycle, `NONE` without a row), `signed[d]` (reviewStatus CONFIRMED), `resolving` (what the holder of the branch lock has read) |
| `CashSession` | EXTENDS `OperationalDay`: the session rows, the books (`tendered`, `moved`, `rows`, `voided`), orders and their posted payment, the payroll group, and `req`, the transactions in flight |
| `CashDrawers` | What the sessions promise of the drawers: held by one session, let go, counted once |
| `AfterSales` | One order from its payment on: `order`, `payment`, `tickets`, the files (returns and cancellation requests: `status`, `items`), the `queue` of approvals, and `req` |
| `Stock` | A balance (packages, loose units) and what a movement makes of it; no variables |
| `Intake` | An entry in one branch: `status`, `processed`, the lines left (`revision`), what was `applied`, and the calls in progress |
| `StockCount` | EXTENDS `Intake` and `Stock`: a count of one product, its phones and its approval; its entry is the entry of `Intake` |
| `Transfers` | EXTENDS `Stock`: the balance of each branch, transfers, sales, packages |
| `OfflineSync` | The queue of a device, the loop of each tab, the requests at the server, the orders, the session and the day |
| `SaleDelivery` | What the offline mode promises of a sale: posted at most once, never if it is refused for good, taken for posted only if it is |
| `Production` | Batches, stock, reservations, cost and prices, and the log of cost injections |
| `Treasury` | The ledger balance of each account, declarations, expenses, deposits, card sales |
| `MC...` | Sets and symmetries for TLC |
| `...Proofs` | Theorems; those of the day are in `CashSessionProofs`, those of the entry in `StockCountProofs` |
| `Sums` | Lemmas on sums over finite sets of rows, used by the proofs of `Intake`, `Transfers`, `Treasury` and `Production` |

**Compositions.** `CashSession` conjoins its day actions with those of `OperationalDay`, and
`DaySpec` is the specification that the composed system is shown to
implement. `CashDrawers` is abstract: `Drawers == INSTANCE CashDrawers WITH ...`
maps a row that is AUTO_CLOSED or CANCELLED without a count to UNCOUNTED, one
with a count to COUNTED, and so on, and `ImplementsDrawers` says that locking,
sweeping, reviewing and snapshots of `CashSession` implement it. `SaleDelivery` is abstract too:
`ImplementsDelivery` maps the queue and the orders of `OfflineSync` to it. `StockCount`
conjoins the steps of its entry with those of `Intake` (`EntryStep`, `ApplyCount`)
and is shown to implement `IntakeSpec`. `Transfers` and `StockCount` move the balances
of `Stock` with the same operators.

### Transactions and locks

- A handler that locks the row it reads and writes it before its commit is **one
  action**: the payment (`PayOrder`), `RequestClose`, `Close`, `Review`,
  `AutoClose`, the forced clean-up, every lifecycle handler of the day, every handler of
  `Transfers`, most of `Treasury`.
- A handler that reads without a lock is **two or three**: the read, the inserts
  with what was committed at that moment, and the
  commit. In between, `req[r]` (`request`, `phone`, `call`, `upload`) holds exactly what the transaction has read and
  will write: `OpenRead`/`OpenResolve`/`OpenCommit`,
  `DirectRead`/`DirectCommit`, `MoveRead`/`MoveSync`/`SyncCommit`,
  `CancelPlan`/`CancelSync`/`CancelCommit`, `ApproveRead`/`ApproveCommit`,
  `ScanRead`/`ScanStore`, `PlanRead`/`PlanCommit`, `CompleteRead`/`CompleteMove`/`CompleteCommit`,
  `EditOpen`/`EditCommit`.
  `Abort` rolls any of them back at any point; `Crash`, `PhoneStop` and
  `ApproveStop` end a sequence of *several* transactions between two of them, and
  what was committed stays.
- Inserting a `Payment` or a `CashMovement` takes PostgreSQL's FOR KEY SHARE lock
  on the session row until the commit (`KeyShared`), which FOR UPDATE waits for; an
  UPDATE that changes a key column (`activeSessionKey`, unique) waits too, an
  UPDATE that does not change one does not (`SweepWaits`). The foreign key of an
  `OperatingExpense` makes an expense wait for the row of its branch in the same
  way (`ExpenseLock`, `ExpenseCommit`).
- A sweep selects its sessions without locking them, yet is one action: it holds the
  day row from its first statement, and every handler that writes a session
  updates that row before it commits (`refreshOperationalDaySummaryTx`).
- The resolver sweeps past days and reactivates today's in one transaction. Its
  effects are placed at its commit, its read of the day before it (`resolving`);
  the branch row lock admits one resolver or manual opening at a time.
- `openCashSession` applies the payroll groups that are due inside its own
  transaction, after creating the session; the read of the group and its
  application are merged into `OpenCommit`. The read of the active session and the read of the pending
  group in `tryApplyPayrollCashOutNow` are merged into `PayrollRead`, and the
  session and order reads of a direct sale into `DirectRead`. Merging only
  removes interleavings, and no disagreement of section 5 depends on it.
- The row of a balance stays locked from the first movement of a production
  transaction to its end; `BalancesLocked` makes one lock of the balances of a branch.

### Abstractions

- **Cash**: one branch. Amounts are integers; a payment brings `Price` in cash or nothing
  (card). `SETTLED` is DISPATCH_PENDING or DISPATCHED. A payroll group is one row.
  The deadline of the auto-close is left out: it may fire
  on any OPEN session, which includes every schedule. Who may act (operators, roles)
  is left out: anybody may. `Handlers` chooses which optional operations an
  instance explores; the auto-close, the cron sweep, opening and aborting are always there.
- **AfterSales**: one order of one line; an amount is a number of its units. A
  refusal after the read (the day is CONFIRMED, the drawer does not take the refund)
  is `Abort`; where the money and the units of a return go is not told apart. A PAID
  order is never stored: the payment puts it in DISPATCH_PENDING or DISPATCHED at once.
  The override of one dispatch is one request, asked for again after a rejection. A handler that is one action takes a
  free transaction (`AtOnce`), so that an instance with one transaction is one without overlaps.
- **Stock**: a transfer has one line per product at most (its unique key); freight and costs are left out. The list of items of a
  reception, which the route passes on unchecked, comes to two figures for each line, for the handler uses no other: the last quantity and the sum of the earlier ones.
- **Treasury**: one branch with one bank account, whole amounts, empty accounts at the start; the tolerance of
  one cent is none. A session sends cash out before it is closed (`SendCashOut`); a closing
  count is any amount up to the bound. The accumulated cash has a cut-off in time (`getLastDepositCutoff`), which no
  event moves since the model of the safe was switched; all rows are later than it.
- **OfflineSync**: a sale is its id. Whether it was made before its session was closed is
  fixed at the sale (`late`), as the handler compares times. What else the handler refuses is in `objection`: the
  policy of discounts and costs, which moves as prices, costs and roles do; a total that does not agree, for good; a product that
  was deleted, for good. The user of the cookie (`operator`) changes and must be the seller. `Rollback` is only what
  need not fail the next time, and its answer ("failed") is another than that of a refusal ("refused"), so that fairness can speak of one and not of the other.
- **Production**: one input, one finished product, one of second quality. What a
  batch consumes and makes is chosen freely up to `MaxUnits`; a cost is the batch that it came from, so
  two batches never write the same figure. Manual price edits, product merges and
  sales of second quality are left out.

## 3. Runs

| Run | Question | Distinct states |
|---|---|---|
| `cash_sessions` | Two openings in flight over two boxes while sessions are counted, reviewed, forced and their day is swept, signed, cancelled, reopened; refinement of `DaySpec` and of `CashDrawers` | 208 thousand |
| `cash_sales` | One order paid in the queue, paid directly, cancelled, by two transactions in flight, while its session is counted, reviewed, recalculated and charged the payroll | 1.1 million |
| `cash_live` | Liveness of the session and the day with the cron | 27 thousand |
| `after_sales` | A return, a cancellation request and a forced dispatch with two transactions that overlap | 424 thousand |
| `after_sales_alone` | Two returns and two cancellation requests, one transaction at a time: what the order of the checks is worth without races | 184 thousand |
| `intake` | Five lines in batches of two by two calls, with edition, retry and discard; termination | 99 thousand |
| `stock_count` | Two phones, two scan events, a correction, two movements of the stock, and the entry | 1.2 million |
| `transfers` | Two transfers of two products between two branches, a sale and its cancellation, receptions that name a line once or more often, packages of two | 673 thousand |
| `treasury` | One session, two people, two expenses, two deposits, two transactions | 357 thousand |
| `offline_sync` | One sale, two users, two tabs, two requests at the server, a policy that moves and products that go; arrival; refinement of `SaleDelivery` | 257 thousand |
| `production` | Three batches in two branches, two transactions, one recipe with second quality | 580 thousand |
| `card_fee` | The disagreement of section 5 that has a run of its own | stops at the counterexample |

**Bounds, and why they are enough.**
- `MaxDay` dates: today and a past one are what the code tells apart. Two
  sessions in `cash_sessions`, so that a session of a box follows another or
  two openings race; one in `cash_sales` and `cash_live`, whose questions are
  about one session. Two `Requests` in flight, the
  least at which two handlers that read without a lock race, each with any number
  of the handlers that are one action. One order, since no handler relates
  two orders other than through the cash of their session. `MaxRows` bounds when a new movement
  starts (one in flight still commits). `Counts` is one amount,
  short of what most histories expect, and the review with
  `confirmOk` counts the expected cash itself.
- `AfterSales`: `Sold = 2`, so that a return may be of a part. `after_sales` has one
  file of each kind and two transactions; `after_sales_alone` two files of each kind and one transaction.
- `Intake`: five lines in batches of two, so the last batch is short; two editions, so that
  one follows another; a call may be started until `MaxProcessed` (more than every line once), two at a time.
- `StockCount`: `Factor = 3`, scans of one unit, two events so that each phone may
  repeat its own or the other's; the entry has one line and, as its theorem says, is an `Intake` of any size.
- `Transfers`: `Factor = 2`, up to two units per line, one reserved package, so that
  opening is both possible and refused; one unit in the earlier items of a line (`MaxEarlier`), so that a line is named twice.
- `Treasury`: amounts up to 2, `Fund` and `Cap` 1, so that the fund, the
  excess over it and an expense over the cap each occur.
- `OfflineSync`: two requests for one sale are a lost one still running and its retry, or one of each tab. A third would
  wait for the key as the second does; the theorems hold for any number. Two users are the seller and another. Sales
  meet only in the loop of a tab, which handles one at a time and goes on after a failure.
- `Production`: two batches of one branch (to reserve and to reverse out of order) and one of another (the shared price).
  `Trading` names the branches whose stock moves outside of production too: the one with two batches.

The proofs have none of these bounds but those that a module names in its constants for all values.

**Deadlock.** It is checked where something can always move: `cash_sessions`, `cash_sales`,
`transfers`, `offline_sync` and `production`. It is not in the other runs, whose systems do stop: rows are never
deleted, so once the bounded rows are used up and resolved and nothing is in
flight, no handler is enabled; their configurations say so. A database deadlock is
not a deadlock of the model: PostgreSQL ends one of the transactions (`Abort`), as in
`Treasury`, where the expense and the direct deposit can wait for each other.

**Fairness.**
- `cash_live`: `src/hammer-api/vercel.json` runs the automation every ten minutes. Each run retries every open session and
  every stale day, one transaction each, so a session that is closable again and
  again is closed: SF on `AutoClose(s)` and `SweepStale(d)` (on the day alone WF is
  enough, nobody else holds its row for ever). A transaction in flight ends, since Prisma bounds
  its time: WF on `Abort \/ SyncCommit \/ CancelCommit`. And one assumption on
  the environment: the movements of one drawer do not overlap for ever
  (`[]<>~KeyShared(s)`), because PostgreSQL does not make a later share lock wait
  behind a FOR UPDATE that is only queued on the tuple.
- `intake`: WF on the steps of each call (`Running`), which is a loop on a server. `EveryCallEnds` needs nothing of
  the time limit: two calls that race for the batches of one branch still end, because a call that
  loses the claim reads the progress again.
- `offline_sync`: WF on the start of a loop, which the `online` event
  or a person's button brings again after a failure, on the handler, and on the delivery of its answer (or its
  disappearance, when the tab that asked is gone); SF on `Send`, because two loops take turns on the bounded requests;
  and the fault steps (`Trouble`: giving up, a closed tab, a failure of the server) stop at some time. Without the
  last assumption nothing can arrive. Refusals are no faults and are not assumed to stop: nor do logins, prices and costs.
  `EverySaleArrives` is of the sales for which they do (`<>[]Welcome(s)`): from some time on the seller stays
  logged in and nothing is against the sale, or only a policy that is not asked about a sale already posted. Every other sale is
  refused on every retry and stays SYNC_FAILED: the queue carries no `overrideReason`, and nothing calls `removeFromQueue`.

**Mutants.** Each property of a passing run has a mutant in `PROJECT.json`: a
plausible bug in one mapped definition (the definitions marked "Mutant") that makes
TLC find the property violated under the same configuration.

## 4. Proofs

Proved with TLAPS for every value of the constants that satisfies the named
assumption of each module (`DayAssumption`, `CashAssumption`, `AfterSalesAssumption`,
`IntakeAssumption`, `StockAssumption`, `StockCountAssumption`, `TransfersAssumption`, `TreasuryAssumption`, `OfflineAssumption`,
`ProductionAssumption`). They say that bounds and amounts are numbers, that `Null` and the accounts are not
mistaken for each other, and, where rows are added up, that a table is finite. Every safety property of a passing run has a theorem:

| Theorem | States |
|---|---|
| `DayTypeCorrect`, `SignedDaysNeverCancelled` | The day's types; a signed day is never cancelled |
| `ImplementsOperationalDay` | `Spec => DaySpec`: the cash handlers touch the day only by its own steps |
| `SessionsImplementDrawers` | `Spec => ImplementsDrawers`: the sessions implement the abstract drawers |
| `CashSessionProofs!TypeCorrect`, `InFlightCorrect`, `ReviewStateCorrect`, `CountsAreFinal`, `KeysMatchStatus`, `OneOpenSessionPerBox`, `CancelledOrdersStayUnpaid` | `TypeOK`, `InFlightSound`, `ReviewStateSound`, `CountIsFinal`, `KeyMatchesStatus`, `OneOpenPerBox`, `CancelledOrdersUnpaid` |
| `AfterSalesProofs!TypeCorrect`, `OrderReversedOnce`, `EveryRefundApproved`, `QueueComplete` | `TypeOK`, `ReversedOnce`, `RefundsApproved`, `QueueMatchesFiles`, with any number of overlapping transactions |
| `RefundedOnceAlone`, `OnePendingAlone`, `LeavesOnceAlone`, `NoRefundOfVoidedAlone` | `ReturnExecutedOnce`, `OnePendingCancellation`, `DispatchedOnce`, `VoidedNotRefunded`, assuming `OneAtATime`: at most one transaction runs at a time |
| `IntakeTypeCorrect`, `LinesAppliedInOrder`, `ProgressIsCounted`, `DiscardMovesNothing` | `IntakeTypeOK`, `AppliedInOrder`, `ProgressCountsMovements`, `DiscardedIsEmpty`, for any number of lines, batch size and calls |
| `StockCountTypeCorrect`, `EveryScanCountedOnce`, `EntryOfApprovedCount`, `CountKeepsMovements` | `StockCountTypeOK`, `ScansCountedOnce`, `OnlyApprovedApplied`, `MovementsKept` |
| `CountEntryIsIntake` | `StockCountSpec => IntakeSpec`: the entry of a count is an entry |
| `TransfersProofs!TypeCorrect`, `TransfersAreSound`, `PackagesAreConserved`, `UnitsAreConserved` | `TypeOK` (no quantity negative), `TransfersSound`, `PackagesConserved`, `UnitsConserved` |
| `TreasuryProofs!TypeCorrect`, `CustodiesAreCovered`, `LedgerAgrees`, `RetainedIsCovered` | `TypeOK`, `CustodyCovered`, `LedgerMatchesRows`, `RetainedCovered` |
| `SalePostedOnce`, `NoSaleIsLost` | `PostedOnce`, `SyncedIsPosted`, which TLC checks as parts of `ImplementsDelivery` |
| `SalesAreDelivered` | `Spec => ImplementsDelivery`: the offline mode implements `SaleDelivery` |
| `TypesAreKept`, `ReservationsEnd`, `BranchesFollow`, `StockFollows` | `TypeOK`, `ReservedWhileOpen`, `BranchFollowsLastBatch`, `StockFollowsBatches` of `Production` |
| `SoleBranchPrices` | `PriceFollowsSoleBranch`: `ProductFollowsLastBatch` of section 5 as long as one branch completed batches |

**The arguments.**

*Cash.* `ReviewStateSound` is not inductive by itself: a snapshot in flight
carries a difference it decided to write from a status it read earlier, and to
write it must still be right at its commit. The inductive invariant is
`Inv == TypeOK /\ InFlightSound /\ ReviewStateSound`: `InFlightSound` says that
a snapshot carries a difference only of a session that was counted, and since a
count is final the session still is when the snapshot commits. The proof goes
through lemmas that list every way a row
can change: `SessionStep` and `RequestStep`; `BooksStep` gives the remaining types. Each property then
follows by cases over those lists
and not over every action again. `OneOpenPerBox` is inductive only together with
`KeyMatchesStatus`: from it, and the uniqueness of the key at the opening, two
OPEN sessions of one box would hold one key. The unlocked check of `openCashSession` is
not used, which shows that it is a courtesy to the user and not what keeps the box
safe. The refinement of `CashDrawers` uses the same list: a step opens one session after others let go
(the resolver sweeps the past day in the same transaction), or changes one.

*After sales.* `ReversedOnce` needs that an order that awaits its payment has none
(`AwaitsPayment`); `RefundsApproved` counts: the approvals of a return not spent by a refund
are at least one exactly while it may still be executed (`ApprovalsLeft`), since the conditional update
spends the status it tests. `QueueMatchesFiles` is inductive alone.
The theorems for handlers that do not overlap have `OneAtATime` as a hypothesis, which the
instance of `after_sales_alone` satisfies. Their invariant `Alone` says that what the one transaction read is still so
(`StillReads`), that a return was refunded once if it is EXECUTED and not otherwise (`RefundedIfExecuted`), and that the tickets
agree with the status of the order (`LeftOnce`). So items 8 and 10 of section 5 are races, and not a matter of the order of the checks.

*Entry and count.* The proof of `AppliedInOrder` carries what each call in progress knows
(its lines and the progress it has read); the conditional update of the batch makes
that knowledge either current or harmless. `MovementsKept` relates the
balance to the start, all movements, and those applied since the read: the invariant `CInv` states it at
each point of the approval.

*Offline.* A request that has inserted holds the unique key until it commits or is
rolled back, so two inserted requests of one sale do not coexist, nor one with a posted order; an answer "ok" exists only
of a posted sale, and a tab marks SYNCED only from it.

For the refinement of `SaleDelivery`, `DInv` adds that whatever is uploaded was put in the queue before (`MadeFirst`) and
that an admitted request is of a sale made in time, one past the policy is of a sale that adds up, and one inserted keeps the products
of its sale from being deleted (`InTime`). An inserted request finds no order of its sale
(`InsertedAlone`), so its commit is a `Post`; a product deleted is a `Refuse`; an answer "ok" is then a `Learn`, and any other a `Doubt`.

*Sums.* Conservation and agreement are about sums over the rows of a table. The induction theorems of the library take an
operator, which the provers cannot instantiate, so `Sums` puts sets in the place of predicates: set inclusion is well-founded on the subsets of a
finite set, and a claim about sums that fails has a least subset for which it fails (`LeastSubset`, `PickInduction`).
The lemma cited most is `SumChange`: if a function changes at one row, its sum changes by the difference there. With it
each action moves the two sides of an equation by the same amount.

*Transfers.* Dispatching takes a quantity from a balance and adds it to what is on its way, receiving moves it on, a sale and
its cancellation move it to and from what was sold, opening and packing change packages for units: one lemma for each action.
That the sale gives back what it took and a line is never written as having more than was dispatched comes from `TypeOK` and `TransfersSound`.
A reception that names a line more than once moves more than it writes: the difference is the `Surplus` of its transfer, 0 for all others,
and conservation is proved up to it. So without such a reception nothing is made or lost, and with one just that is made.

*Treasury.* `LedgerMatchesRows` rests on what the rows may be (`Sound`): a session is declared once, an expense needs a safe,
and a deposit left from a custody, or from the safe if there is one. `RetainedCovered` rests on two amounts in flight that no
other step can take (`Funded`): an expense holds the safe since it compared its balance, a direct deposit holds the
branch, which every other use of retained cash needs. With a safe, what is retained is its balance and what custodies returned.

*Production.* `Held` is what the locks give to a transaction until it ends: no other has its batch, which stays open; and from its
first movement on no other has its branch, so that the price it read is the one it writes over. Hence each
batch is completed once and has one event (`Logged`). From there, the last event of a branch decides
its figures (`LastFollowed`): a reversal that finds no later event is of the last one, a completion adds the last one. A completion and a
reversal change the totals of one branch by what their batch took and made (`Balanced`). If the events so far
are of the branch of a transaction, the price of the product that it read is current as well (`CurrentRead`), which gives `PriceFollowsSoleBranch`.

**Only model-checked**: the liveness properties (`OpenSessionIsClosed`, `StaleSessionIsResolved`, `StaleDayLeavesActive`,
`EveryCallEnds`, `EverySaleArrives`), since fairness is out of the prover's reach, and `SettledSessionCloses` (ENABLED), with
the other disagreements of section 5. No recursive operator is used.

## 5. Disagreements found

`card_fee` is a run of its own (its quotes are in `PROJECT.json`): settling a card sale
takes the gross *and* the fee out of the settlement account, which then owes the fee.

The others are stated as definitions under the heading "What the repository says and
the code does not keep" of their modules, or at the end of them. Adding the definition to the named
configuration makes TLC print the behaviour.

Cash (`CashSession`, `OperationalDay`):

1. `ReactivationRevertsSignature` (MCCashSessions.cfg): the resolver decides to drop a signature from an unlocked read;
   a confirmation in between leaves an ACTIVE day signed, though "si ya estaba CONFIRMED, la
   reactivación revierte la firma a PENDING" (`operations/day-resolver.ts:50-52`).
2. `OpenSessionHasActiveDay` (MCCashSessions.cfg): cancelling a day leaves its OPEN sessions on a day that is not
   ACTIVE, which two comments call impossible (`payments/service.ts:158`, `sales/service.ts:911`).
3. `ClosedFiguresFrozen` (MCCashSales.cfg): cancelling an order paid in a CLOSED session rewrites its
   expected cash and difference, while the decision it creates says "El cierre histórico no
   se modifica" (`sales/service.ts:1490`).
4. `PayrollAppliedOnce` (MCCashSales.cfg): two attempts to apply one payroll group both take the cash
   out ("un único EXPENSE_OUT por grupo", `payroll/payroll-cash-sync.ts:18-19`).
5. `SettledSessionCloses` (MCCashSales.cfg): a voided payment counts as pending for ever and the session
   cannot be closed with a count.
6. `ClosedExpectedIsFormula` (MCCashSales.cfg): a direct sale posts to a session auto-closed after the check, and the
   expected cash misses it (`cash-session/expected-cash.ts:86-87`).
7. `DifferenceMatchesCount` (MCCashSales.cfg): a cancellation that read a session pending review commits
   after the review and leaves a difference that is not count - expected.

After sales (`AfterSales`, MCAfterSales.cfg, where transactions overlap):

8. `ReturnExecutedOnce`: "si otro request ya ejecutó esta devolución, updateMany retorna count=0 y
   lanzamos error" (`sales-returns/service.ts:727-728`) holds against a second execution,
   but an approval that read REQUESTED writes APPROVED without a condition
   (`:357-366`) over an EXECUTED return, which is then executed again.
9. `ReturnedWithinSold`: the units already asked for are added up without a lock, and
   the items of one request that name one line twice are each checked alone; the "tope real" of
   `sales/service.ts:1775-1778` is passed.
10. `DispatchedOnce`: the tickets are read without a lock, and a forced dispatch writes DISPATCHED over a
    cancellation that committed in between.

Stock:

11. `AppliedOnce` (`Intake`, MCIntake.cfg): "Nunca reprocesa una tanda ya confirmada". An edition
    replaces the lines left by those its form was opened with: a form opened before
    a retry applied a batch brings the batch back; and when a call stops (time, failure) after
    an edition, the next one starts the edited lines over, because the baseline is the
    progress at that moment.
12. `ExactlyCounted`, `CountErasesNothing` (`StockCount`, MCStockCount.cfg): "Si no hubo ningún movimiento posterior, esto es
    exactamente 'contado'" fails when a correction reads before a scan of another phone commits, or the
    scan stores the stock it read before; a count that finds less than what was sold
    meanwhile is cut at zero.
13. `ConfirmedDayIsFrozen` (`OfflineSync`, MCOfflineSync.cfg): "nunca se altera un día confirmado"
    (`sales/offline-sync.service.ts:94`): the day is read before the transaction. Also, the test of
    the day comes before the test of the duplicate: a sale that was posted and whose
    answer was lost is answered OFFLINE_SALE_DAY_APPROVED once the day is confirmed,
    and stays SYNC_FAILED on the device (`EverySaleArrives` excepts it).
    So is, for good, a sale that is refused for another reason (`offline-sync.service.ts:103-206`, and the 403 of
    `sales/sync-offline/route.ts:45` while another user is logged in): see the fairness of `offline_sync`.
14. `NothingBeyondDispatch` (`Transfers`, MCTransfers.cfg): "No se puede recibir mas de lo despachado"
    (`transfers/service.ts:337`): each item is checked against, and added to, the quantity read at the start. Two
    items of one line both move stock, and the line keeps the last only.

Production (`Production`, MCProduction.cfg):

15. `ProductFollowsLastBatch`: the price is put back "SOLO si ningún lote posterior ya volvió
    a inyectar algo nuevo"; the later batch is looked for in one branch, and the
    price of the product is of all. (As long as one branch completes batches it holds: `PriceFollowsSoleBranch`.)
16. `ReservesFreeStock`: reserving reads what others reserved "sin restarlo, dos lotes podrían
    reservar el mismo stock físico dos veces", and locks nothing: two planners read the same free stock.
17. `NothingUnseen`: "nadie inyecta sin ver": the preview whose hash is compared is read before the balances are locked.
18. `ReversalLeavesNothing`: the reversal takes the good units back and leaves those of second quality.

Treasury, read in the code and visible in the model without a property of their own: the
replacement of an auto-default declaration by a real one is written (`treasury/service.ts:1876-1884`) but the test before it refuses
sessions that are not CLOSED, and only those have an auto-default; a cancelled sale leaves its SALE_CARD entry; cash returned to retained leaves the custody and enters no account; an
expense and a direct deposit can deadlock.

## 6. Not modelled, and the plan

Not modelled for good: CRUD (catalogue, users, branches, suppliers), arithmetic
and heuristics (payroll tables, pricing, WAC, analytics), presentation (frontend,
printing, reports), device I/O (cameras, agent). These are most of the lines of the
repository: pages, reports and forms have no state of their own that outlives a request.
`OneOpenPerBox` is about the
operational handlers: the maintenance route that consolidates duplicate boxes
(`src/hammer-api/src/app/api/master/cash-boxes/consolidate/route.ts:112`) moves
sessions between boxes and is outside it.

Left out of what is modelled, with the reason in `PROJECT.json`: purchase orders (the shape of
transfers), groups of transfers, the other kinds of approval, supplier payables and reconciliation in the treasury,
the recipes and the change of a planned quantity in production, MFA tokens.

What would come next:

1. What remains true in the cash drawer where section 5 says that a figure may be wrong: `PayrollAppliedOnce` and
   `ClosedExpectedIsFormula` for handlers that do not overlap, as in `after_sales_alone`.
2. The box consolidation as an action of `CashSession`, with the weaker statement that then holds.
3. Purchase orders over `Stock`, with payables against `Treasury`, and their conservation by the lemmas of `Sums`.
