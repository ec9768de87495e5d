------------------------------- MODULE Treasury -------------------------------
(***************************************************************************)
(* The cash of a branch after it has left a drawer (treasury/service.ts    *)
(* and cash-monitor.ts of hammer-api/src/modules): what a closed session   *)
(* declares of it, who carries it, the safe and what is paid from it, the  *)
(* deposits in the bank and their annulment; and the card sales that the   *)
(* acquirer settles.                                                       *)
(*                                                                         *)
(* Most handlers lock the row they decide on and end at once: they are one *)
(* action.  Two take a lock each and then need the row of the other: an    *)
(* expense holds the safe and, by the foreign key of its OperatingExpense, *)
(* waits for the branch; a direct deposit holds the branch and waits for   *)
(* the safe.  They are two steps each, and Abort is the end of the one     *)
(* that PostgreSQL chooses when each waits for the other, or of any other. *)
(***************************************************************************)
EXTENDS Integers, FiniteSets, Functions

CONSTANTS
    Sessions,       \* cash sessions of the branch
    People,         \* those who carry cash, each with a custody account
    Expenses,       \* OperatingExpense rows that may be created (a bound)
    Deposits,       \* BankDeposit rows that may be created (a bound)
    Requests,       \* expenses and direct deposits in flight (a bound)
    MaxAmount,      \* counts and amounts (a bound)
    MaxSent,        \* cash that leaves open drawers (a bound)
    MaxOutside,     \* card sales, payments from the bank (a bound on each)
    Fund,           \* Branch.cashFundAmount
    Cap,            \* BranchDepositPolicy.maxCashExpenseAmount
    Safe, Bank, Settlement, Null

\* What is handed over or taken to the bank, by whom, and what is kept.
Declarations == [auto: BOOLEAN, out: [People -> Nat], retain: Nat]

\* Sessions, people, expenses and deposits are rows of tables.
ASSUME TreasuryAssumption ==
    /\ IsFiniteSet(Sessions) /\ IsFiniteSet(People)
    /\ IsFiniteSet(Expenses) /\ IsFiniteSet(Deposits)
    /\ {MaxAmount, MaxSent, MaxOutside, Fund, Cap} \subseteq Nat
    /\ Null \notin People \union {Safe, Bank, Settlement} \union Nat \union Declarations
    /\ Safe # Bank /\ Safe # Settlement /\ Bank # Settlement
    /\ {Safe, Bank, Settlement} \intersect People = {}

VARIABLES
    hasSafe,        \* has the branch an active account of type SAFE?
    session,        \* CashSession.status
    counted,        \* CashSession.countedCashAmount
    declared,       \* CashDestinationDeclaration of each session
    sent,           \* cash sent out of open drawers
    expense,        \* OperatingExpense, paid with retained cash
    deposit,        \* BankDeposit
    adjusted,       \* sum of the RetainedCashAdjustments
    removed,        \* sum of the adjustments of custodies
    card,           \* card sales, what was settled of them and what reached the bank
    paid,           \* payments made from the bank
    balance,        \* account -> balance of its TreasuryEntries
    req             \* expenses and direct deposits in flight

figures == <<session, counted, declared, sent, expense, deposit, adjusted, removed, card, paid>>
vars == <<hasSafe, figures, balance, req>>

-----------------------------------------------------------------------------
(* Data.                                                                   *)

Accounts == People \union {Safe, Bank, Settlement}

Amounts == 1..MaxAmount

ExpenseRows ==
    [status: {"NONE", "REQUESTED", "APPROVED", "ACTIVE", "VOIDED"}, amount: Nat]

NoExpense == [status |-> "NONE", amount |-> 0]

\* The account a deposit left from is that of its ledger entry.
DepositRows ==
    [status: {"NONE", "POSTED", "VOIDED"}, source: {"CUSTODY", "DIRECT_FROM_RETAINED"},
     from: People \union {Safe, Null}, amount: Nat]

NoDeposit == [status |-> "NONE", source |-> "CUSTODY", from |-> Null, amount |-> 0]

\* A transaction in flight, and the row and the amount it works on.
RequestRows ==
    [pc: {"idle", "approved", "spending", "depositing"},
     row: Expenses \union Deposits \union {Null},
     person: People \union {Null}, amount: Nat]

Idle == [pc |-> "idle", row |-> Null, person |-> Null, amount |-> 0]

TypeOK ==
    /\ hasSafe \in BOOLEAN
    /\ session \in [Sessions -> {"OPEN", "CLOSED", "AUTO_CLOSED"}]
    /\ counted \in [Sessions -> Nat \union {Null}]
    /\ declared \in [Sessions -> Declarations \union {Null}]
    /\ expense \in [Expenses -> ExpenseRows]
    /\ deposit \in [Deposits -> DepositRows]
    /\ {sent, adjusted, removed, paid} \subseteq Nat
    /\ card \in [charged: Nat, settled: Nat, net: Nat]
    /\ balance \in [Accounts -> Int]
    /\ req \in [Requests -> RequestRows]

Init ==
    /\ hasSafe \in BOOLEAN
    /\ session = [s \in Sessions |-> "OPEN"]
    /\ counted = [s \in Sessions |-> Null]
    /\ declared = [s \in Sessions |-> Null]
    /\ sent = 0
    /\ expense = [e \in Expenses |-> NoExpense]
    /\ deposit = [d \in Deposits |-> NoDeposit]
    /\ adjusted = 0
    /\ removed = 0
    /\ card = [charged |-> 0, settled |-> 0, net |-> 0]
    /\ paid = 0
    /\ balance = [a \in Accounts |-> 0]
    /\ req = [t \in Requests |-> Idle]

SafeLocked   == \E t \in Requests: req[t].pc = "spending"
BranchLocked == \E t \in Requests: req[t].pc = "depositing"

\* The two entries of an internal transfer.
Move(from, to, amount) ==
    [balance EXCEPT ![from] = @ - amount, ![to] = @ + amount]

-----------------------------------------------------------------------------
(* Sums over the rows.                                                     *)

OutOf(row) == IF row = Null THEN 0 ELSE SumFunction(row.out)
RetainOf(row) == IF row = Null THEN 0 ELSE row.retain

\* decomposeRetainedAmount
FundPortion(row) == IF RetainOf(row) < Fund THEN RetainOf(row) ELSE Fund
AwaitingDeposit(row) == RetainOf(row) - FundPortion(row)

OfSource(source) ==
    SumFunction([d \in Deposits |->
        IF deposit[d].status = "POSTED" /\ deposit[d].source = source
        THEN deposit[d].amount ELSE 0])

Spent ==
    SumFunction([e \in Expenses |->
        IF expense[e].status = "ACTIVE" THEN expense[e].amount ELSE 0])

Awaiting == SumFunction([s \in Sessions |-> AwaitingDeposit(declared[s])])

\* getAccumulatedRetainedTx before it is cut off at zero.
Retained == Awaiting - Spent - OfSource("DIRECT_FROM_RETAINED") + adjusted

Accumulated == IF Retained < 0 THEN 0 ELSE Retained

-----------------------------------------------------------------------------
(* Cash leaves the drawers.                                                *)

\* closeCashSession, and the automatic close, of which only the status and the
\* count matter here.
Close(s, c) ==
    /\ session[s] = "OPEN"
    /\ session' = [session EXCEPT ![s] = "CLOSED"]
    /\ counted' = [counted EXCEPT ![s] = c]
    /\ UNCHANGED <<hasSafe, declared, sent, expense, deposit, adjusted, removed, card, paid,
                   balance, req>>

AutoClose(s) ==
    /\ session[s] = "OPEN"
    /\ session' = [session EXCEPT ![s] = "AUTO_CLOSED"]
    /\ UNCHANGED <<hasSafe, counted, declared, sent, expense, deposit, adjusted, removed,
                   card, paid, balance, req>>

\* sendCashOutToCustodyTx, for a deposit or for another person; nothing compares
\* the amount with what the drawer holds.
SendCashOut(s, p, amount) ==
    /\ session[s] = "OPEN"
    /\ sent + amount <= MaxSent
    /\ sent' = sent + amount
    /\ balance' = [balance EXCEPT ![p] = @ + amount]
    /\ UNCHANGED <<hasSafe, session, counted, declared, expense, deposit, adjusted, removed,
                   card, paid, req>>

\* The row of a declaration needs the branch, and what is kept goes to the safe,
\* if there is one.
Declaration(s, row) ==
    /\ ~BranchLocked
    /\ row.retain > 0 /\ hasSafe => ~SafeLocked
    /\ declared' = [declared EXCEPT ![s] = row]
    /\ balance' = [a \in Accounts |->
           balance[a] + (IF a \in People THEN row.out[a]
                         ELSE IF a = Safe /\ hasSafe THEN row.retain ELSE 0)]

\* Mutant: any counted session can be declared.
DeclareCounted(s, row) ==
    /\ counted[s] # Null
    /\ declared[s] # Null => declared[s].auto
    /\ OutOf(row) + row.retain = counted[s]
    /\ ~row.auto
    /\ Declaration(s, row)
    /\ UNCHANGED <<hasSafe, session, counted, sent, expense, deposit, adjusted, removed, card,
                   paid, req>>

\* declareCashDestinationTx
Declare(s, row) ==
    /\ session[s] = "CLOSED"
    /\ declared[s] # Null => declared[s].auto
    /\ OutOf(row) + row.retain = counted[s]
    /\ ~row.auto
    /\ Declaration(s, row)
    /\ UNCHANGED <<hasSafe, session, counted, sent, expense, deposit, adjusted, removed, card,
                   paid, req>>

\* reviewAutoClosedCashSession counts an automatically closed session and
\* declares all of it kept (createAutoDefaultedDeclarationTx).
Review(s, c) ==
    /\ session[s] = "AUTO_CLOSED"
    /\ counted[s] = Null
    /\ counted' = [counted EXCEPT ![s] = c]
    /\ Declaration(s, [auto |-> TRUE, out |-> [p \in People |-> 0], retain |-> c])
    /\ UNCHANGED <<hasSafe, session, sent, expense, deposit, adjusted, removed, card, paid, req>>

-----------------------------------------------------------------------------
(* Custody: each handler locks the account before it reads the balance.    *)

\* confirmCustodyReceiptTx
ConfirmReceipt(p, q, amount) ==
    /\ p # q
    /\ amount <= balance[p]
    /\ balance' = Move(p, q, amount)
    /\ UNCHANGED <<hasSafe, figures, req>>

\* Mutant: what a custody holds is not compared.
ConfirmBankDepositShort(d, p, amount) ==
    /\ deposit[d].status = "NONE"
    /\ ~BranchLocked
    /\ deposit' = [deposit EXCEPT ![d] =
           [status |-> "POSTED", source |-> "CUSTODY", from |-> p, amount |-> amount]]
    /\ balance' = Move(p, Bank, amount)
    /\ UNCHANGED <<hasSafe, session, counted, declared, sent, expense, adjusted, removed, card,
                   paid, req>>

\* confirmBankDepositTx
ConfirmBankDeposit(d, p, amount) ==
    /\ deposit[d].status = "NONE"
    /\ ~BranchLocked
    /\ amount <= balance[p]
    /\ deposit' = [deposit EXCEPT ![d] =
           [status |-> "POSTED", source |-> "CUSTODY", from |-> p, amount |-> amount]]
    /\ balance' = Move(p, Bank, amount)
    /\ UNCHANGED <<hasSafe, session, counted, declared, sent, expense, adjusted, removed, card,
                   paid, req>>

\* Mutant: the adjustment is recorded with the sign of its entry.
AdjustCustodySigned(p, amount) ==
    /\ amount <= balance[p]
    /\ removed' = removed - amount
    /\ balance' = [balance EXCEPT ![p] = @ - amount]
    /\ UNCHANGED <<hasSafe, session, counted, declared, sent, expense, deposit, adjusted, card,
                   paid, req>>

\* adjustCustodyBalanceTx
AdjustCustody(p, amount) ==
    /\ amount <= balance[p]
    /\ removed' = removed + amount
    /\ balance' = [balance EXCEPT ![p] = @ - amount]
    /\ UNCHANGED <<hasSafe, session, counted, declared, sent, expense, deposit, adjusted, card,
                   paid, req>>

\* returnCustodyToRetainedTx: the cash counts as retained again, and goes to no
\* account.
ReturnToRetained(p, amount) ==
    /\ amount <= balance[p]
    /\ ~BranchLocked
    /\ adjusted' = adjusted + amount
    /\ balance' = [balance EXCEPT ![p] = @ - amount]
    /\ UNCHANGED <<hasSafe, session, counted, declared, sent, expense, deposit, removed, card,
                   paid, req>>

-----------------------------------------------------------------------------
(* Expenses paid with retained cash.                                       *)

\* recordRetainedCashExpense above the cap asks for an approval.
RequestExpense(e, amount) ==
    /\ hasSafe
    /\ expense[e].status = "NONE"
    /\ amount > Cap
    /\ expense' = [expense EXCEPT ![e] = [status |-> "REQUESTED", amount |-> amount]]
    /\ UNCHANGED <<hasSafe, session, counted, declared, sent, deposit, adjusted, removed, card,
                   paid, balance, req>>

\* The route resolves the request, then executes it in another transaction.
ApproveExpense(t, e) ==
    /\ req[t].pc = "idle"
    /\ expense[e].status = "REQUESTED"
    /\ expense' = [expense EXCEPT ![e].status = "APPROVED"]
    /\ req' = [req EXCEPT ![t] =
           [pc |-> "approved", row |-> e, person |-> Null, amount |-> expense[e].amount]]
    /\ UNCHANGED <<hasSafe, session, counted, declared, sent, deposit, adjusted, removed, card,
                   paid, balance>>

\* recordRetainedCashExpenseTx locks the safe and reads its balance ...
ExpenseLock(t, e, amount) ==
    /\ hasSafe
    /\ req[t].pc = "idle"
    /\ expense[e].status = "NONE"
    /\ amount <= Cap
    /\ ~SafeLocked
    /\ amount <= balance[Safe]
    /\ req' = [req EXCEPT ![t] =
           [pc |-> "spending", row |-> e, person |-> Null, amount |-> amount]]
    /\ UNCHANGED <<hasSafe, figures, balance>>

ExecuteLock(t) ==
    /\ req[t].pc = "approved"
    /\ ~SafeLocked
    /\ req[t].amount <= balance[Safe]
    /\ req' = [req EXCEPT ![t].pc = "spending"]
    /\ UNCHANGED <<hasSafe, figures, balance>>

Spend(t) ==
    /\ expense[req[t].row].status \in {"NONE", "APPROVED"}
    /\ expense' = [expense EXCEPT
           ![req[t].row] = [status |-> "ACTIVE", amount |-> req[t].amount]]
    /\ balance' = [balance EXCEPT ![Safe] = @ - req[t].amount]
    /\ req' = [req EXCEPT ![t] = Idle]
    /\ UNCHANGED <<hasSafe, session, counted, declared, sent, deposit, adjusted, removed, card,
                   paid>>

\* Mutant: an expense that does not refer to the row of its branch.
ExpenseCommitUnbound(t) ==
    /\ req[t].pc = "spending"
    /\ Spend(t)

\* ... and inserts the expense, which needs the branch, and its entry.
ExpenseCommit(t) ==
    /\ req[t].pc = "spending"
    /\ ~BranchLocked
    /\ Spend(t)

\* voidRetainedCashExpenseTx locks the expense.
VoidExpense(e) ==
    /\ expense[e].status = "ACTIVE"
    /\ ~SafeLocked
    /\ expense' = [expense EXCEPT ![e].status = "VOIDED"]
    /\ balance' = [balance EXCEPT ![Safe] = @ + expense[e].amount]
    /\ UNCHANGED <<hasSafe, session, counted, declared, sent, deposit, adjusted, removed, card,
                   paid, req>>

-----------------------------------------------------------------------------
(* Direct deposits.                                                        *)

\* depositBranchCashDirect locks the branch and adds up what it retained ...
DirectLock(t, d, p, amount) ==
    /\ req[t].pc = "idle"
    /\ deposit[d].status = "NONE"
    /\ ~BranchLocked
    /\ amount <= Accumulated
    /\ req' = [req EXCEPT ![t] =
           [pc |-> "depositing", row |-> d, person |-> p, amount |-> amount]]
    /\ UNCHANGED <<hasSafe, figures, balance>>

\* ... and takes it from the safe, or through the custody of the person, where
\* it goes in and out.
DirectCommit(t) ==
    LET d == req[t].row
        from == IF hasSafe THEN Safe ELSE req[t].person
    IN  /\ req[t].pc = "depositing"
        /\ deposit[d].status = "NONE"
        /\ hasSafe => ~SafeLocked
        /\ deposit' = [deposit EXCEPT ![d] =
               [status |-> "POSTED", source |-> "DIRECT_FROM_RETAINED", from |-> from,
                amount |-> req[t].amount]]
        /\ balance' = IF hasSafe THEN Move(Safe, Bank, req[t].amount)
                      ELSE [balance EXCEPT ![Bank] = @ + req[t].amount]
        /\ req' = [req EXCEPT ![t] = Idle]
        /\ UNCHANGED <<hasSafe, session, counted, declared, sent, expense, adjusted, removed,
                       card, paid>>

\* voidBankDepositTx locks the deposit.  The cash goes back to where it left
\* from, and a direct deposit leaves that custody again.
VoidBankDeposit(d) ==
    /\ deposit[d].status = "POSTED"
    /\ deposit[d].from = Safe => ~SafeLocked
    /\ deposit' = [deposit EXCEPT ![d].status = "VOIDED"]
    /\ balance' = IF deposit[d].source = "DIRECT_FROM_RETAINED" /\ deposit[d].from # Safe
                  THEN [balance EXCEPT ![Bank] = @ - deposit[d].amount]
                  ELSE Move(Bank, deposit[d].from, deposit[d].amount)
    /\ UNCHANGED <<hasSafe, session, counted, declared, sent, expense, adjusted, removed, card,
                   paid, req>>

Abort(t) ==
    /\ req[t].pc # "idle"
    /\ req' = [req EXCEPT ![t] = Idle]
    /\ UNCHANGED <<hasSafe, figures, balance>>

-----------------------------------------------------------------------------
(* Cards and payments from the bank.                                       *)

\* recordSaleTenderEntriesTx of a card.
CardSale(amount) ==
    /\ card.charged + amount <= MaxOutside
    /\ card' = [card EXCEPT !.charged = @ + amount]
    /\ balance' = [balance EXCEPT ![Settlement] = @ + amount]
    /\ UNCHANGED <<hasSafe, session, counted, declared, sent, expense, deposit, adjusted,
                   removed, paid, req>>

\* confirmCardSettlementTx: the gross leaves, the net arrives, and the fee
\* leaves in an entry of its own.
ConfirmCardSettlement(gross, fee) ==
    /\ fee < gross
    /\ gross <= balance[Settlement]
    /\ card' = [card EXCEPT !.settled = @ + gross, !.net = @ + gross - fee]
    /\ balance' = [balance EXCEPT ![Settlement] = @ - gross - fee,
                                  ![Bank] = @ + gross - fee]
    /\ UNCHANGED <<hasSafe, session, counted, declared, sent, expense, deposit, adjusted,
                   removed, paid, req>>

\* recordAccountPaymentTx, with or without the permission to overdraw.
PayFromBank(amount, allowNegativeBalance) ==
    /\ paid + amount <= MaxOutside
    /\ allowNegativeBalance \/ amount <= balance[Bank]
    /\ paid' = paid + amount
    /\ balance' = [balance EXCEPT ![Bank] = @ - amount]
    /\ UNCHANGED <<hasSafe, session, counted, declared, sent, expense, deposit, adjusted,
                   removed, card, req>>

-----------------------------------------------------------------------------
(* The specification.                                                      *)

CountedRows == [auto: {FALSE}, out: [People -> 0..MaxAmount], retain: 0..MaxAmount]

SessionSteps ==
    \E s \in Sessions:
        \/ \E c \in 0..MaxAmount: Close(s, c) \/ Review(s, c)
        \/ AutoClose(s)
        \/ \E p \in People, amount \in Amounts: SendCashOut(s, p, amount)
        \/ \E row \in CountedRows: Declare(s, row)

CustodySteps ==
    \E p \in People, amount \in Amounts:
        \/ \E q \in People: ConfirmReceipt(p, q, amount)
        \/ \E d \in Deposits: ConfirmBankDeposit(d, p, amount)
        \/ AdjustCustody(p, amount)
        \/ ReturnToRetained(p, amount)

ExpenseSteps ==
    \/ \E e \in Expenses, amount \in Amounts: RequestExpense(e, amount)
    \/ \E t \in Requests, e \in Expenses:
           ApproveExpense(t, e) \/ \E amount \in Amounts: ExpenseLock(t, e, amount)
    \/ \E t \in Requests: ExecuteLock(t) \/ ExpenseCommit(t)
    \/ \E e \in Expenses: VoidExpense(e)

DepositSteps ==
    \/ \E t \in Requests, d \in Deposits, p \in People, amount \in Amounts:
           DirectLock(t, d, p, amount)
    \/ \E t \in Requests: DirectCommit(t)
    \/ \E d \in Deposits: VoidBankDeposit(d)

BankSteps ==
    \E amount \in Amounts:
        \/ CardSale(amount)
        \/ \E fee \in 0..MaxAmount: ConfirmCardSettlement(amount, fee)
        \/ \E allowNegativeBalance \in BOOLEAN: PayFromBank(amount, allowNegativeBalance)

Next ==
    \/ SessionSteps \/ CustodySteps \/ ExpenseSteps \/ DepositSteps \/ BankSteps
    \/ \E t \in Requests: Abort(t)

Spec == Init /\ [][Next]_vars

-----------------------------------------------------------------------------
(* Safety.                                                                 *)

(* Nobody is shown to carry less than nothing: whatever is received, taken *)
(* to the bank, annulled and written off, each custody covers what left it.*)
CustodyCovered == \A p \in People: balance[p] >= 0

\* What was kept of the counts as cash fund, and altogether; what was handed
\* over of them; and what people carry.
InFund     == SumFunction([s \in Sessions |-> FundPortion(declared[s])])
Kept       == SumFunction([s \in Sessions |-> RetainOf(declared[s])])
HandedOver == SumFunction([s \in Sessions |-> OutOf(declared[s])])
Carried    == SumFunction([p \in People |-> balance[p]])

(* Retained cash is not used twice: what expenses and direct deposits that *)
(* run at the same time took was retained (or is the cash fund), though    *)
(* neither of them locks what the other reads.                             *)
RetainedCovered == Retained + InFund >= 0

(* The ledger agrees with the rows it comes from: the safe with what was   *)
(* retained, spent and deposited, the custodies with what people were      *)
(* given and brought to the bank, the bank with what it got and paid; an   *)
(* annulled deposit and a second declaration leave nothing behind in it.   *)
LedgerMatchesRows ==
    /\ hasSafe => balance[Safe] = Kept - Spent - OfSource("DIRECT_FROM_RETAINED")
    /\ Carried = HandedOver + sent - OfSource("CUSTODY") - removed - adjusted
    /\ balance[Bank] =
           OfSource("CUSTODY") + OfSource("DIRECT_FROM_RETAINED") + card.net - paid

-----------------------------------------------------------------------------
(* What the repository says and the code does not keep (see the README).   *)

(* "SETTLEMENT baja por el BRUTO" (card-settlement.test.ts): what the      *)
(* acquirer still owes is what was charged less what it settled.           *)
SettlementIsOwed == balance[Settlement] = card.charged - card.settled
=============================================================================
