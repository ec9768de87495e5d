------------------------------ MODULE Production ------------------------------
(***************************************************************************)
(* Production batches in several branches: one input product, the finished *)
(* product, and a product of second quality                                *)
(* (hammer-api/src/modules/production/service.ts, reservations.ts).        *)
(*                                                                         *)
(* A batch reserves its input when it is planned, takes it when it is      *)
(* completed, and writes the cost and the price of the finished product:   *)
(* the cost and the price of the branch, and the price of the product,     *)
(* which all branches share.  Its reversal undoes the stock, and puts cost *)
(* and price back when no later batch of the branch wrote them.            *)
(*                                                                         *)
(* updateBatchTx, completeBatchTx and reverseBatchTx hold the row of their *)
(* batch from the start; the rows of the balances of the branch from the   *)
(* first movement on.  What they read before that, and of other branches,  *)
(* may have changed when they write.                                       *)
(***************************************************************************)
EXTENDS Integers, Sequences, FiniteSetsExt

CONSTANTS
    Batches,
    Branches,
    BranchOf,       \* the branch of each batch
    SecondGrade,    \* the batches of recipes with a product of second quality
    Requests,       \* transactions at one time (a bound)
    MaxUnits,       \* units of one batch (a bound)
    MaxStock,       \* units of a product in a branch (a bound)
    Trading,        \* branches that buy, sell and transfer, too (a bound)
    Null

ASSUME ProductionAssumption ==
    /\ IsFiniteSet(Batches)
    /\ BranchOf \in [Batches -> Branches]
    /\ SecondGrade \subseteq Batches
    /\ Trading \subseteq Branches
    /\ MaxUnits \in Nat /\ MaxStock \in Nat

VARIABLES
    batch,          \* ProductionBatch with its ProductionBatchInput
    request,        \* the running transactions
    stock,          \* InventoryBalance of the three products in each branch
    moved,          \* what sales, purchases and transfers brought to it, in all
    setting,        \* BranchProductSetting of the finished product
    standard,       \* Product.standardSalePrice of it
    log             \* the PRODUCTION_COST_INJECTED events, in order

stockVars == <<stock, moved>>
priceVars == <<setting, standard, log>>
vars == <<batch, request, stockVars, priceVars>>

-----------------------------------------------------------------------------
(* Data.                                                                   *)

Statuses == {"NONE", "DRAFT", "PLANNED", "IN_PROGRESS", "COMPLETED", "CANCELLED", "REVERSED"}

Units == 0..MaxUnits

Stocks == [input: Int, finished: Int, second: Int]

\* What a batch takes and makes.
Made == [used: Units, good: Units, second: Units]

Nothing == [used |-> 0, good |-> 0, second |-> 0]

BatchRows ==
    [status: Statuses, planned: Units, reserved: Units, made: Made]

NoBatch == [status |-> "NONE", planned |-> 0, reserved |-> 0, made |-> Nothing]

\* Costs and prices by the batch whose unit cost they come from.  A setting
\* that is there may lack either; "NOROW" is a setting that is not there.
Figures == Batches \union {"INITIAL"}

Settings == [cost: Figures \union {"UNSET"}, price: Figures \union {"UNSET", "NOROW"}]

\* The snapshots before and after an injection.
Snapshots == [standard: Figures, cost: Figures \union {"UNSET"}, price: Figures \union {"UNSET"}]

Events == [batch: Batches, before: Snapshots, after: Snapshots]

\* A transaction: the status and the reservation that it will write, what its
\* batch makes, and the snapshot that it read last.
RequestRows ==
    [pc: {"idle", "planning", "completing", "producing"}, batch: Batches \union {Null},
     status: Statuses, reserve: Units, made: Made, read: Snapshots \union {Null}]

Idle ==
    [pc |-> "idle", batch |-> Null, status |-> "NONE", reserve |-> 0, made |-> Nothing,
     read |-> Null]

TypeOK ==
    /\ batch \in [Batches -> BatchRows]
    /\ request \in [Requests -> RequestRows]
    /\ stock \in [Branches -> Stocks]
    /\ moved \in [Branches -> Stocks]
    /\ setting \in [Branches -> Settings]
    /\ standard \in Figures
    /\ log \in Seq(Events)

Init ==
    /\ batch = [b \in Batches |-> NoBatch]
    /\ request = [r \in Requests |-> Idle]
    /\ stock = [br \in Branches |-> [input |-> MaxStock, finished |-> 0, second |-> 0]]
    /\ moved = stock
    /\ \E s \in {[cost |-> "INITIAL", price |-> "INITIAL"], [cost |-> "UNSET", price |-> "NOROW"]}:
           setting = [br \in Branches |-> s]
    /\ standard = "INITIAL"
    /\ log = <<>>

-----------------------------------------------------------------------------
(* Locks.                                                                  *)

BatchLocked(b) == \E r \in Requests: request[r].batch = b

\* The balances of a branch, from the first movement of a batch on.
BalancesLocked(br) ==
    \E r \in Requests:
        request[r].pc = "producing" /\ BranchOf[request[r].batch] = br

Begin(r, rec) ==
    /\ request[r] = Idle
    /\ ~BatchLocked(rec.batch)
    /\ request' = [request EXCEPT ![r] = rec]

End(r) == request' = [request EXCEPT ![r] = Idle]

Abort(r) ==
    /\ request[r] # Idle
    /\ End(r)
    /\ UNCHANGED <<batch, stockVars, priceVars>>

-----------------------------------------------------------------------------
(* Planning (createBatch, updateBatchTx).                                  *)

CreateBatch(b, n) ==
    /\ batch[b].status = "NONE"
    /\ batch' = [batch EXCEPT ![b].status = "DRAFT", ![b].planned = n]
    /\ UNCHANGED <<request, stockVars, priceVars>>

\* What the other open batches of the branch reserve of the input.
ReservedByOthers(b) ==
    LET others == {c \in Batches \ {b}: BranchOf[c] = BranchOf[b]
                                        /\ batch[c].status \in {"PLANNED", "IN_PROGRESS"}}
    IN  SumFunction([c \in others |-> batch[c].reserved])

\* The input that is free is read, and reserved as far as the plan needs it, ...
PlanRead(r, b, status) ==
    /\ batch[b].status = "DRAFT"
    /\ LET free == stock[BranchOf[b]].input - ReservedByOthers(b)
           reserve == Min({batch[b].planned, Max({0, free})})
       IN  Begin(r, [Idle EXCEPT !.pc = "planning", !.batch = b, !.status = status,
                                 !.reserve = reserve])
    /\ UNCHANGED <<batch, stockVars, priceVars>>

\* ... while other batches read the same.
PlanCommit(r) ==
    /\ request[r].pc = "planning"
    /\ batch' = [batch EXCEPT ![request[r].batch].status = request[r].status,
                              ![request[r].batch].reserved = request[r].reserve]
    /\ End(r)
    /\ UNCHANGED <<stockVars, priceVars>>

StartPlanned(b) ==
    /\ batch[b].status = "PLANNED"
    /\ ~BatchLocked(b)
    /\ batch' = [batch EXCEPT ![b].status = "IN_PROGRESS"]
    /\ UNCHANGED <<request, stockVars, priceVars>>

\* Mutant: the cancelled batch keeps its input apart.
CancelBatchReserving(b) ==
    /\ batch[b].status \in {"DRAFT", "PLANNED", "IN_PROGRESS"}
    /\ ~BatchLocked(b)
    /\ batch' = [batch EXCEPT ![b].status = "CANCELLED"]
    /\ UNCHANGED <<request, stockVars, priceVars>>

CancelBatch(b) ==
    /\ batch[b].status \in {"DRAFT", "PLANNED", "IN_PROGRESS"}
    /\ ~BatchLocked(b)
    /\ batch' = [batch EXCEPT ![b].status = "CANCELLED", ![b].reserved = 0]
    /\ UNCHANGED <<request, stockVars, priceVars>>

-----------------------------------------------------------------------------
(* Completion (completeBatchTx, applyProductionCostsTx).                   *)

\* The cost and the price that a snapshot has of the branch, and of the product.
Snapshot(br) ==
    [standard |-> standard, cost |-> setting[br].cost,
     price |-> IF setting[br].price = "NOROW" THEN "UNSET" ELSE setting[br].price]

\* The preview is made again, and is the one that the request saw.
CompleteRead(r, b) ==
    /\ batch[b].status \in {"DRAFT", "PLANNED", "IN_PROGRESS"}
    /\ Begin(r, [Idle EXCEPT !.pc = "completing", !.batch = b, !.read = Snapshot(BranchOf[b])])
    /\ UNCHANGED <<batch, stockVars, priceVars>>

\* The stock after what a batch takes and makes (sign = 1), or after that is
\* undone (sign = -1): the units of second quality are not taken back.
After(s, made, sign) ==
    [input |-> s.input - sign * made.used,
     finished |-> s.finished + sign * made.good,
     second |-> IF sign = 1 THEN s.second + made.second ELSE s.second]

\* No balance goes below zero, nor beyond the bound.
Holds(s) == {s.input, s.finished, s.second} \subseteq 0..MaxStock

\* Mutant: cost and price are the ones of the preview.
CompleteMoveAsSeen(r, made) ==
    LET br == BranchOf[request[r].batch]
    IN  /\ request[r].pc = "completing"
        /\ ~BalancesLocked(br)
        /\ made.second > 0 => request[r].batch \in SecondGrade
        /\ Holds(After(stock[br], made, 1))
        /\ request' = [request EXCEPT ![r].pc = "producing", ![r].made = made]
        /\ UNCHANGED <<batch, stockVars, priceVars>>

\* The movements lock the balances; cost and price are read again behind them.
CompleteMove(r, made) ==
    LET br == BranchOf[request[r].batch]
    IN  /\ request[r].pc = "completing"
        /\ ~BalancesLocked(br)
        /\ made.second > 0 => request[r].batch \in SecondGrade
        /\ Holds(After(stock[br], made, 1))
        /\ request' = [request EXCEPT ![r].pc = "producing", ![r].made = made,
                                      ![r].read = Snapshot(br)]
        /\ UNCHANGED <<batch, stockVars, priceVars>>

\* resolveProductionPricing: the recalculated price, the current one, or the
\* current one until somebody approves.
Policies == {"RECALCULATE", "KEEP_CURRENT", "APPROVAL_REQUIRED"}

\* The cost is always written, the price unless it needs an approval; but a
\* setting that was not there gets the current price even then.
Inject(b, policy, before) ==
    LET br == BranchOf[b]
        current == IF before.price = "UNSET" THEN before.standard ELSE before.price
        next == IF policy = "RECALCULATE" THEN b ELSE current
        written == policy # "APPROVAL_REQUIRED"
        after == [standard |-> IF written THEN next ELSE before.standard, cost |-> b,
                  price |-> IF written THEN next ELSE before.price]
    IN  /\ standard' = IF written THEN next ELSE standard
        /\ setting' = [setting EXCEPT ![br] =
               [cost |-> b, price |-> IF written \/ @.price = "NOROW" THEN next ELSE @.price]]
        /\ log' = Append(log, [batch |-> b, before |-> before, after |-> after])

CompleteCommit(r, policy) ==
    LET b == request[r].batch
        made == request[r].made
    IN  /\ request[r].pc = "producing"
        /\ batch' = [batch EXCEPT ![b].status = "COMPLETED", ![b].reserved = 0,
                                  ![b].made = made]
        /\ stock' = [stock EXCEPT ![BranchOf[b]] = After(@, made, 1)]
        /\ IF made.good > 0 THEN Inject(b, policy, request[r].read) ELSE UNCHANGED priceVars
        /\ End(r)
        /\ UNCHANGED moved

-----------------------------------------------------------------------------
(* Reversal (reverseBatchTx, restoreProductionCostTx).                     *)

InBranch(br) == {i \in DOMAIN log: BranchOf[log[i].batch] = br}

InjectionOf(b) == CHOOSE i \in DOMAIN log: log[i].batch = b

\* Mutant: what a later batch wrote is not looked for.
RestoreOverLater(b) ==
    LET before == log[InjectionOf(b)].before
    IN  /\ standard' = before.standard
        /\ setting' = [setting EXCEPT ![BranchOf[b]] =
                          [cost |-> before.cost, price |-> before.price]]

\* What the batch found is put back, unless a later batch of the branch wrote.
Restore(b) ==
    LET mine == InjectionOf(b)
        before == log[mine].before
    IN  IF \E i \in InBranch(BranchOf[b]): i > mine
        THEN UNCHANGED <<standard, setting>>
        ELSE /\ standard' = before.standard
             /\ setting' = [setting EXCEPT ![BranchOf[b]] =
                               [cost |-> before.cost, price |-> before.price]]

\* Mutant: a batch may be reversed again.
ReverseBatchAgain(b) ==
    LET br == BranchOf[b]
    IN  /\ batch[b].status \in {"COMPLETED", "REVERSED"}
        /\ ~BatchLocked(b) /\ ~BalancesLocked(br)
        /\ Holds(After(stock[br], batch[b].made, -1))
        /\ stock' = [stock EXCEPT ![br] = After(@, batch[b].made, -1)]
        /\ IF batch[b].made.good > 0 THEN Restore(b) ELSE UNCHANGED <<standard, setting>>
        /\ batch' = [batch EXCEPT ![b].status = "REVERSED"]
        /\ UNCHANGED <<request, moved, log>>

\* Nothing is read before the locks: the transaction is one step.
ReverseBatch(b) ==
    LET br == BranchOf[b]
    IN  /\ batch[b].status = "COMPLETED"
        /\ ~BatchLocked(b) /\ ~BalancesLocked(br)
        /\ Holds(After(stock[br], batch[b].made, -1))
        /\ stock' = [stock EXCEPT ![br] = After(@, batch[b].made, -1)]
        /\ IF batch[b].made.good > 0 THEN Restore(b) ELSE UNCHANGED <<standard, setting>>
        /\ batch' = [batch EXCEPT ![b].status = "REVERSED"]
        /\ UNCHANGED <<request, moved, log>>

-----------------------------------------------------------------------------
(* Sales, purchases and transfers of the three products.                   *)

Deltas ==
    {d \in [input: -1..1, finished: -1..0, second: {0}]: d.input # 0 <=> d.finished = 0}

Plus(s, d) == [f \in DOMAIN s |-> s[f] + d[f]]

Move(br, d) ==
    /\ ~BalancesLocked(br)
    /\ Holds(Plus(stock[br], d))
    /\ stock' = [stock EXCEPT ![br] = Plus(@, d)]
    /\ moved' = [moved EXCEPT ![br] = Plus(@, d)]
    /\ UNCHANGED <<batch, request, priceVars>>

-----------------------------------------------------------------------------
(* The specification.                                                      *)

Next ==
    \/ \E b \in Batches:
           \/ \E n \in Units \ {0}: CreateBatch(b, n)
           \/ StartPlanned(b) \/ CancelBatch(b) \/ ReverseBatch(b)
    \/ \E r \in Requests:
           \/ \E b \in Batches:
                  \/ \E status \in {"PLANNED", "IN_PROGRESS"}: PlanRead(r, b, status)
                  \/ CompleteRead(r, b)
           \/ PlanCommit(r) \/ Abort(r)
           \/ \E made \in Made: CompleteMove(r, made)
           \/ \E policy \in Policies: CompleteCommit(r, policy)
    \/ \E br \in Trading, d \in Deltas: Move(br, d)

Spec == Init /\ [][Next]_vars

-----------------------------------------------------------------------------
(* Safety.                                                                 *)

Total(br, status, field) ==
    SumFunction([b \in Batches |->
        IF BranchOf[b] = br /\ batch[b].status \in status THEN batch[b].made[field] ELSE 0])

(* The stock is what came from elsewhere and what the completed batches    *)
(* took and made, each once, however requests are repeated and overlap; a  *)
(* reversed batch leaves only its units of second quality.                 *)
StockFollowsBatches ==
    \A br \in Branches:
        /\ stock[br].input = moved[br].input - Total(br, {"COMPLETED"}, "used")
        /\ stock[br].finished = moved[br].finished + Total(br, {"COMPLETED"}, "good")
        /\ stock[br].second = moved[br].second + Total(br, {"COMPLETED", "REVERSED"}, "second")

(* Input is kept apart only for a batch that is going to use it, so that   *)
(* no ended batch makes stock unavailable for ever.                        *)
ReservedWhileOpen ==
    \A b \in Batches:
        batch[b].reserved > 0 =>
            /\ batch[b].status \in {"PLANNED", "IN_PROGRESS"}
            /\ batch[b].reserved <= batch[b].planned

(* Cost and price of a branch are the ones of its last batch, or what that *)
(* batch found if it was reversed: no reversal, and no batch of another    *)
(* branch, takes them from a later batch.                                  *)
BranchFollowsLastBatch ==
    \A br \in {c \in Branches: InBranch(c) # {}}:
        LET last == log[Max(InBranch(br))]
            due == IF batch[last.batch].status = "REVERSED" THEN last.before ELSE last.after
        IN  /\ setting[br].cost = due.cost
            /\ \/ setting[br].price = due.price
               \/ due = last.after /\ due.price = "UNSET"

\* The price of the product is the one of the last batch, if not reversed.
PriceFollows ==
    LET last == log[Len(log)]
    IN  batch[last.batch].status # "REVERSED" => standard = last.after.standard

(* As long as only one branch completed batches, the price that the product*)
(* has for all branches is the one of the last batch, unless that was      *)
(* reversed: no reversal and no completion in flight, even of another      *)
(* branch, takes it from that batch.                                       *)
PriceFollowsSoleBranch ==
    log # <<>> /\ (\A i, j \in DOMAIN log: BranchOf[log[i].batch] = BranchOf[log[j].batch]) =>
        PriceFollows

-----------------------------------------------------------------------------
(* What the repository says and the code does not keep (see the README).   *)

(* "SOLO si ningun lote posterior ya volvio a inyectar algo nuevo"         *)
(* (restoreProductionCostTx): the same whatever branches complete batches. *)
ProductFollowsLastBatch == log # <<>> => PriceFollows

(* "dos lotes podrian reservar el mismo stock fisico dos veces"            *)
(* (reserveBatchInputsTx): a reservation is of stock that is there and     *)
(* that no other batch reserved.                                           *)
ReservesFreeStock ==
    [][\A b \in Batches: batch[b].reserved < batch'[b].reserved =>
           batch'[b].reserved + ReservedByOthers(b) <= stock[BranchOf[b]].input]_vars

(* "nadie inyecta sin ver" (completeBatchTx): a batch writes over the      *)
(* figures that its preview showed.                                        *)
NothingUnseen ==
    [][\A r \in Requests: request[r].pc = "completing" /\ request'[r].pc = "producing" =>
           request'[r].read = request[r].read]_vars

(* "retira el producto terminado" (reverseBatchTx): a reversed batch       *)
(* leaves no stock.                                                        *)
ReversalLeavesNothing ==
    \A br \in Branches:
        stock[br].second = moved[br].second + Total(br, {"COMPLETED"}, "second")
=============================================================================
