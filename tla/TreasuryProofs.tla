---------------------------- MODULE TreasuryProofs ----------------------------
(***************************************************************************)
(* Proofs about Treasury, for all sessions, people, expenses, deposits and *)
(* amounts.                                                                *)
(*                                                                         *)
(* CustodyCovered is inductive with the types: the handlers of a custody   *)
(* decide on the balance under the lock of its row, and everything else    *)
(* only adds to custodies.                                                 *)
(*                                                                         *)
(* The ledger is compared with sums over the rows.  It agrees with them    *)
(* because a session is declared once, an expense needs a safe, and a      *)
(* deposit left from a custody, or from the safe if there is one (Sound).  *)
(* With a safe, what is retained is its balance, and what is returned from *)
(* custodies; so that it covers what is spent rests on two amounts that no *)
(* other step can take while they are in flight: an expense holds the safe *)
(* since it compared its balance, a direct deposit holds the branch, which *)
(* every other use of retained cash needs (Funded).                        *)
(***************************************************************************)
EXTENDS Treasury, Sums

\* What TypeOK says of everything but the balances.
RowsOK ==
    /\ hasSafe \in BOOLEAN
    /\ session \in [Sessions -> {"OPEN", "CLOSED", "AUTO_CLOSED"}]
    /\ counted \in [Sessions -> Nat \union {Null}]
    /\ declared \in [Sessions -> Declarations \union {Null}]
    /\ expense \in [Expenses -> ExpenseRows]
    /\ deposit \in [Deposits -> DepositRows]
    /\ {sent, adjusted, removed, paid} \subseteq Nat
    /\ card \in [charged: Nat, settled: Nat, net: Nat]
    /\ req \in [Requests -> RequestRows]

BalancesOK == balance \in [Accounts -> Int] /\ CustodyCovered

Inv == RowsOK /\ BalancesOK

LEMMA InvIsTyped == Inv <=> TypeOK /\ CustodyCovered
BY DEF Inv, RowsOK, BalancesOK, TypeOK

-----------------------------------------------------------------------------
(* The balances.                                                           *)

\* The accounts differ, and those of the business are nobody's.
LEMMA AccountsDiffer ==
    /\ {Safe, Bank, Settlement, Null} \intersect People = {}
    /\ Null # Bank /\ Safe # Bank
BY TreasuryAssumption

\* An account gains.
LEMMA GainKeeps ==
    ASSUME BalancesOK, NEW STATE a, NEW STATE n, n \in Nat,
           balance' = [balance EXCEPT ![a] = @ + n]
    PROVE  BalancesOK'
<1>1. \A b \in Accounts: balance'[b] = IF b = a THEN balance[b] + n ELSE balance[b]
  BY DEF BalancesOK
<1>2. balance' \in [Accounts -> Int]
  <2>1. \A b \in Accounts: balance[b] \in Int
    BY DEF BalancesOK
  <2>2. \A b \in Accounts: balance'[b] \in Int
    BY <1>1, <2>1
  <2>3. DOMAIN balance' = Accounts /\ balance' = [b \in Accounts |-> balance'[b]]
    BY DEF BalancesOK
  <2>. QED  BY <2>2, <2>3
<1>3. \A p \in People: balance'[p] >= 0
  BY <1>1 DEF BalancesOK, CustodyCovered, Accounts
<1>. QED  BY <1>2, <1>3 DEF BalancesOK, CustodyCovered

\* An account loses what a custody has, or is not a custody.
LEMMA LossKeeps ==
    ASSUME BalancesOK, NEW STATE a, NEW STATE n, n \in Nat,
           a \in People => n <= balance[a],
           balance' = [balance EXCEPT ![a] = @ - n]
    PROVE  BalancesOK'
<1>1. \A b \in Accounts: balance'[b] = IF b = a THEN balance[b] - n ELSE balance[b]
  BY DEF BalancesOK
<1>2. balance' \in [Accounts -> Int]
  <2>1. \A b \in Accounts: balance[b] \in Int
    BY DEF BalancesOK
  <2>2. \A b \in Accounts: balance'[b] \in Int
    BY <1>1, <2>1
  <2>3. DOMAIN balance' = Accounts /\ balance' = [b \in Accounts |-> balance'[b]]
    BY DEF BalancesOK
  <2>. QED  BY <2>2, <2>3
<1>3. \A p \in People: balance'[p] >= 0
  BY <1>1 DEF BalancesOK, CustodyCovered, Accounts
<1>. QED  BY <1>2, <1>3 DEF BalancesOK, CustodyCovered

\* An account loses the same and another one gains it.
LEMMA MoveKeeps ==
    ASSUME BalancesOK, NEW STATE a, NEW STATE b, a # b, NEW STATE n, n \in Nat,
           a \in People => n <= balance[a],
           balance' = Move(a, b, n)
    PROVE  BalancesOK'
<1>. DEFINE left == [balance EXCEPT ![a] = @ - n]
<1>1. \A c \in Accounts: left[c] = IF c = a THEN balance[c] - n ELSE balance[c]
  BY DEF BalancesOK
<1>2. \A c \in Accounts: left[c] \in Int
  BY <1>1 DEF BalancesOK
<1>3. \A p \in People: left[p] >= 0
  BY <1>1 DEF BalancesOK, CustodyCovered, Accounts
<1>4. \A c \in Accounts: balance'[c] = IF c = b THEN left[c] + n ELSE left[c]
  BY DEF Move, BalancesOK
<1>5. balance' = [c \in Accounts |-> balance'[c]]
  BY DEF Move, BalancesOK
<1>. HIDE DEF left
<1>6. balance' \in [Accounts -> Int]
  <2>1. \A c \in Accounts: balance'[c] \in Int
    BY <1>2, <1>4
  <2>. QED  BY <2>1, <1>5
<1>7. \A p \in People: balance'[p] >= 0
  BY <1>2, <1>3, <1>4 DEF Accounts
<1>. QED  BY <1>6, <1>7 DEF BalancesOK, CustodyCovered

\* The accounts that are not custodies may do anything.
LEMMA OthersKeep ==
    ASSUME BalancesOK, balance' \in [Accounts -> Int],
           \A p \in People: balance'[p] = balance[p]
    PROVE  BalancesOK'
BY DEF BalancesOK, CustodyCovered

-----------------------------------------------------------------------------
(* Init and Next.                                                          *)

LEMMA InitInv == Init => Inv
BY TreasuryAssumption
   DEF Init, Inv, RowsOK, BalancesOK, CustodyCovered, Accounts, NoExpense, ExpenseRows,
       NoDeposit, DepositRows, Idle, RequestRows

\* A declaration hands cash to custodies and keeps the rest.
LEMMA DeclarationKeeps ==
    ASSUME Inv, NEW s \in Sessions, NEW row \in Declarations, Declaration(s, row)
    PROVE  declared' \in [Sessions -> Declarations \union {Null}] /\ BalancesOK'
<1>1. declared' \in [Sessions -> Declarations \union {Null}]
  BY DEF Declaration, Inv, RowsOK
<1>2. row.out \in [People -> Nat] /\ row.retain \in Nat
  BY DEF Declarations
<1>3. \A a \in Accounts:
          balance'[a] = balance[a] + (IF a \in People THEN row.out[a]
                                      ELSE IF a = Safe /\ hasSafe THEN row.retain ELSE 0)
  BY DEF Declaration
<1>4. \A a \in Accounts: balance'[a] \in Int
  BY <1>2, <1>3 DEF Inv, BalancesOK
<1>5. balance' \in [Accounts -> Int]
  BY <1>4 DEF Declaration
<1>6. \A p \in People: balance'[p] >= 0
  BY <1>2, <1>3 DEF Inv, BalancesOK, CustodyCovered, Accounts
<1>. QED  BY <1>1, <1>5, <1>6 DEF BalancesOK, CustodyCovered

LEMMA SessionStep ==
    ASSUME Inv, SessionSteps
    PROVE  Inv'
<1>. MaxAmount \in Nat
  BY TreasuryAssumption
<1>1. PICK s \in Sessions:
        \/ \E c \in 0..MaxAmount: Close(s, c) \/ Review(s, c)
        \/ AutoClose(s)
        \/ \E p \in People, amount \in Amounts: SendCashOut(s, p, amount)
        \/ \E row \in CountedRows: Declare(s, row)
  BY DEF SessionSteps
<1>2. ASSUME NEW c \in 0..MaxAmount, Close(s, c) PROVE Inv'
  BY <1>2 DEF Close, Inv, RowsOK, BalancesOK, CustodyCovered
<1>3. ASSUME NEW c \in 0..MaxAmount, Review(s, c) PROVE Inv'
  <2>1. [auto |-> TRUE, out |-> [p \in People |-> 0], retain |-> c] \in Declarations
    BY DEF Declarations
  <2>2. declared' \in [Sessions -> Declarations \union {Null}] /\ BalancesOK'
    BY <1>3, <2>1, DeclarationKeeps DEF Review
  <2>3. counted' \in [Sessions -> Nat \union {Null}]
    BY <1>3 DEF Review, Inv, RowsOK
  <2>4. UNCHANGED <<hasSafe, session, sent, expense, deposit, adjusted, removed, card, paid,
                    req>>
    BY <1>3 DEF Review
  <2>. QED  BY <2>2, <2>3, <2>4 DEF Inv, RowsOK
<1>4. CASE AutoClose(s)
  BY <1>4 DEF AutoClose, Inv, RowsOK, BalancesOK, CustodyCovered
<1>5. ASSUME NEW p \in People, NEW amount \in Amounts, SendCashOut(s, p, amount) PROVE Inv'
  <2>1. amount \in Nat
    BY DEF Amounts
  <2>2. BalancesOK'
    BY <1>5, <2>1, GainKeeps DEF SendCashOut, Inv
  <2>. QED  BY <1>5, <2>1, <2>2 DEF SendCashOut, Inv, RowsOK
<1>6. ASSUME NEW row \in CountedRows, Declare(s, row) PROVE Inv'
  <2>1. row \in Declarations
    <3>1. row.out \in [People -> Nat]
      BY DEF CountedRows
    <3>2. row.retain \in 0..MaxAmount /\ row.auto \in {FALSE}
      BY DEF CountedRows
    <3>3. row = [auto |-> row.auto, out |-> row.out, retain |-> row.retain]
      BY DEF CountedRows
    <3>4. row.retain \in Nat /\ row.auto \in BOOLEAN
      <4>1. \A n \in 0..MaxAmount: n \in Nat
        OBVIOUS
      <4>2. row.auto \in BOOLEAN
        BY <3>2, Zenon
      <4>. QED  BY <3>2, <4>1, <4>2, Zenon
    <3>5. [auto |-> row.auto, out |-> row.out, retain |-> row.retain] \in Declarations
      BY <3>1, <3>4 DEF Declarations
    <3>. QED  BY <3>3, <3>5
  <2>2. declared' \in [Sessions -> Declarations \union {Null}] /\ BalancesOK'
    BY <1>6, <2>1, DeclarationKeeps DEF Declare
  <2>. QED  BY <1>6, <2>2 DEF Declare, Inv, RowsOK
<1>. QED  BY <1>1, <1>2, <1>3, <1>4, <1>5, <1>6

LEMMA CustodyStep ==
    ASSUME Inv, CustodySteps
    PROVE  Inv'
<1>1. PICK p \in People, amount \in Amounts:
        \/ \E q \in People: ConfirmReceipt(p, q, amount)
        \/ \E d \in Deposits: ConfirmBankDeposit(d, p, amount)
        \/ AdjustCustody(p, amount)
        \/ ReturnToRetained(p, amount)
  BY DEF CustodySteps
<1>2. amount \in Nat
  BY TreasuryAssumption DEF Amounts
<1>3. ASSUME NEW q \in People, ConfirmReceipt(p, q, amount) PROVE Inv'
  <2>1. BalancesOK'
    BY <1>2, <1>3, MoveKeeps DEF ConfirmReceipt, Inv
  <2>. QED  BY <1>3, <2>1 DEF ConfirmReceipt, Inv, RowsOK, figures
<1>4. ASSUME NEW d \in Deposits, ConfirmBankDeposit(d, p, amount) PROVE Inv'
  <2>1. BalancesOK'
    BY <1>2, <1>4, MoveKeeps, AccountsDiffer DEF ConfirmBankDeposit, Inv
  <2>2. [status |-> "POSTED", source |-> "CUSTODY", from |-> p, amount |-> amount]
            \in DepositRows
    BY <1>2 DEF DepositRows
  <2>3. deposit' \in [Deposits -> DepositRows]
    BY <1>4, <2>2 DEF ConfirmBankDeposit, Inv, RowsOK
  <2>. QED  BY <1>4, <2>1, <2>3 DEF ConfirmBankDeposit, Inv, RowsOK
<1>5. CASE AdjustCustody(p, amount)
  <2>1. BalancesOK'
    BY <1>2, <1>5, LossKeeps DEF AdjustCustody, Inv
  <2>. QED  BY <1>2, <1>5, <2>1 DEF AdjustCustody, Inv, RowsOK
<1>6. CASE ReturnToRetained(p, amount)
  <2>1. BalancesOK'
    BY <1>2, <1>6, LossKeeps DEF ReturnToRetained, Inv
  <2>. QED  BY <1>2, <1>6, <2>1 DEF ReturnToRetained, Inv, RowsOK
<1>. QED  BY <1>1, <1>3, <1>4, <1>5, <1>6

LEMMA ExpenseStep ==
    ASSUME Inv, ExpenseSteps
    PROVE  Inv'
<1>1. ASSUME NEW e \in Expenses, NEW amount \in Amounts, RequestExpense(e, amount) PROVE Inv'
  <2>1. amount \in Nat
    BY TreasuryAssumption DEF Amounts
  <2>2. [status |-> "REQUESTED", amount |-> amount] \in ExpenseRows
    BY <2>1 DEF ExpenseRows
  <2>3. expense' \in [Expenses -> ExpenseRows]
    BY <1>1, <2>2 DEF RequestExpense, Inv, RowsOK
  <2>. QED  BY <1>1, <2>3 DEF RequestExpense, Inv, RowsOK, BalancesOK, CustodyCovered
<1>2. ASSUME NEW t \in Requests, NEW e \in Expenses, ApproveExpense(t, e) PROVE Inv'
  <2>1. expense[e] \in ExpenseRows
    BY DEF Inv, RowsOK
  <2>2. [expense[e] EXCEPT !.status = "APPROVED"] \in ExpenseRows
    BY <2>1 DEF ExpenseRows
  <2>3. expense' \in [Expenses -> ExpenseRows]
    BY <1>2, <2>2 DEF ApproveExpense, Inv, RowsOK
  <2>4. [pc |-> "approved", row |-> e, person |-> Null, amount |-> expense[e].amount]
            \in RequestRows
    BY <2>1 DEF ExpenseRows, RequestRows
  <2>5. req' \in [Requests -> RequestRows]
    BY <1>2, <2>4 DEF ApproveExpense, Inv, RowsOK
  <2>. QED  BY <1>2, <2>3, <2>5 DEF ApproveExpense, Inv, RowsOK, BalancesOK, CustodyCovered
<1>3. ASSUME NEW t \in Requests, NEW e \in Expenses, NEW amount \in Amounts,
             ExpenseLock(t, e, amount)
      PROVE  Inv'
  <2>1. amount \in Nat
    BY TreasuryAssumption DEF Amounts
  <2>2. [pc |-> "spending", row |-> e, person |-> Null, amount |-> amount] \in RequestRows
    BY <2>1 DEF RequestRows
  <2>3. req' \in [Requests -> RequestRows]
    BY <1>3, <2>2 DEF ExpenseLock, Inv, RowsOK
  <2>. QED  BY <1>3, <2>3 DEF ExpenseLock, Inv, RowsOK, BalancesOK, CustodyCovered, figures
<1>4. ASSUME NEW t \in Requests, ExecuteLock(t) PROVE Inv'
  <2>1. [req[t] EXCEPT !.pc = "spending"] \in RequestRows
    BY DEF Inv, RowsOK, RequestRows
  <2>2. req' \in [Requests -> RequestRows]
    BY <1>4, <2>1 DEF ExecuteLock, Inv, RowsOK
  <2>. QED  BY <1>4, <2>2 DEF ExecuteLock, Inv, RowsOK, BalancesOK, CustodyCovered, figures
<1>5. ASSUME NEW t \in Requests, ExpenseCommit(t) PROVE Inv'
  <2>1. req[t].amount \in Nat
    BY DEF Inv, RowsOK, RequestRows
  <2>2. BalancesOK'
    BY <1>5, <2>1, LossKeeps, AccountsDiffer DEF ExpenseCommit, Spend, Inv
  <2>3. [status |-> "ACTIVE", amount |-> req[t].amount] \in ExpenseRows
    BY <2>1 DEF ExpenseRows
  <2>4. expense' \in [Expenses -> ExpenseRows]
    BY <1>5, <2>3 DEF ExpenseCommit, Spend, Inv, RowsOK
  <2>5. req' \in [Requests -> RequestRows]
    BY <1>5 DEF ExpenseCommit, Spend, Inv, RowsOK, Idle, RequestRows
  <2>. QED  BY <1>5, <2>2, <2>4, <2>5 DEF ExpenseCommit, Spend, Inv, RowsOK
<1>6. ASSUME NEW e \in Expenses, VoidExpense(e) PROVE Inv'
  <2>1. expense[e].amount \in Nat /\ [expense[e] EXCEPT !.status = "VOIDED"] \in ExpenseRows
    BY DEF Inv, RowsOK, ExpenseRows
  <2>2. BalancesOK'
    BY <1>6, <2>1, GainKeeps DEF VoidExpense, Inv
  <2>3. expense' \in [Expenses -> ExpenseRows]
    BY <1>6, <2>1 DEF VoidExpense, Inv, RowsOK
  <2>. QED  BY <1>6, <2>2, <2>3 DEF VoidExpense, Inv, RowsOK
<1>. QED  BY <1>1, <1>2, <1>3, <1>4, <1>5, <1>6 DEF ExpenseSteps

LEMMA DepositStep ==
    ASSUME Inv, DepositSteps
    PROVE  Inv'
<1>1. ASSUME NEW t \in Requests, NEW d \in Deposits, NEW p \in People, NEW amount \in Amounts,
             DirectLock(t, d, p, amount)
      PROVE  Inv'
  <2>1. amount \in Nat
    BY TreasuryAssumption DEF Amounts
  <2>2. [pc |-> "depositing", row |-> d, person |-> p, amount |-> amount] \in RequestRows
    BY <2>1 DEF RequestRows
  <2>3. req' \in [Requests -> RequestRows]
    BY <1>1, <2>2 DEF DirectLock, Inv, RowsOK
  <2>. QED  BY <1>1, <2>3 DEF DirectLock, Inv, RowsOK, BalancesOK, CustodyCovered, figures
<1>2. ASSUME NEW t \in Requests, DirectCommit(t) PROVE Inv'
  <2>. DEFINE from == IF hasSafe THEN Safe ELSE req[t].person
              row == [status |-> "POSTED", source |-> "DIRECT_FROM_RETAINED", from |-> from,
                      amount |-> req[t].amount]
  <2>1. req[t].amount \in Nat /\ req[t].person \in People \union {Null}
    BY DEF Inv, RowsOK, RequestRows
  <2>2. row \in DepositRows
    BY <2>1 DEF DepositRows
  <2>3. deposit' = [deposit EXCEPT ![req[t].row] = row]
    BY <1>2 DEF DirectCommit
  <2>4. balance' = IF hasSafe THEN Move(Safe, Bank, req[t].amount)
                   ELSE [balance EXCEPT ![Bank] = @ + req[t].amount]
    BY <1>2 DEF DirectCommit
  <2>5. BalancesOK'
    <3>1. CASE hasSafe
      BY <2>1, <2>4, <3>1, MoveKeeps, AccountsDiffer DEF Inv
    <3>2. CASE ~hasSafe
      BY <2>1, <2>4, <3>2, GainKeeps DEF Inv
    <3>. QED  BY <3>1, <3>2
  <2>6. req' \in [Requests -> RequestRows]
    BY <1>2 DEF DirectCommit, Inv, RowsOK, Idle, RequestRows
  <2>7. UNCHANGED <<hasSafe, session, counted, declared, sent, expense, adjusted, removed,
                    card, paid>>
    BY <1>2 DEF DirectCommit
  <2>. HIDE DEF row
  <2>8. deposit' \in [Deposits -> DepositRows]
    BY <2>2, <2>3 DEF Inv, RowsOK
  <2>. QED  BY <2>5, <2>6, <2>7, <2>8 DEF Inv, RowsOK
<1>3. ASSUME NEW d \in Deposits, VoidBankDeposit(d) PROVE Inv'
  <2>1. /\ deposit[d].amount \in Nat
        /\ deposit[d].from \in People \union {Safe, Null}
        /\ [deposit[d] EXCEPT !.status = "VOIDED"] \in DepositRows
    BY DEF Inv, RowsOK, DepositRows
  <2>2. BalancesOK'
    <3>1. CASE deposit[d].source = "DIRECT_FROM_RETAINED" /\ deposit[d].from # Safe
      BY <1>3, <2>1, <3>1, LossKeeps, AccountsDiffer DEF VoidBankDeposit, Inv
    <3>2. CASE ~(deposit[d].source = "DIRECT_FROM_RETAINED" /\ deposit[d].from # Safe)
      <4>1. balance' = Move(Bank, deposit[d].from, deposit[d].amount)
        BY <1>3, <3>2 DEF VoidBankDeposit
      <4>2. Bank # deposit[d].from /\ Bank \notin People
        BY <2>1, AccountsDiffer
      <4>. QED  BY <2>1, <4>1, <4>2, MoveKeeps DEF Inv
    <3>. QED  BY <3>1, <3>2
  <2>3. deposit' \in [Deposits -> DepositRows]
    BY <1>3, <2>1 DEF VoidBankDeposit, Inv, RowsOK
  <2>. QED  BY <1>3, <2>2, <2>3 DEF VoidBankDeposit, Inv, RowsOK
<1>. QED  BY <1>1, <1>2, <1>3 DEF DepositSteps

LEMMA BankStep ==
    ASSUME Inv, BankSteps
    PROVE  Inv'
<1>1. PICK amount \in Amounts:
        \/ CardSale(amount)
        \/ \E fee \in 0..MaxAmount: ConfirmCardSettlement(amount, fee)
        \/ \E allowNegativeBalance \in BOOLEAN: PayFromBank(amount, allowNegativeBalance)
  BY DEF BankSteps
<1>2. amount \in Nat
  BY TreasuryAssumption DEF Amounts
<1>3. CASE CardSale(amount)
  <2>1. BalancesOK'
    BY <1>2, <1>3, GainKeeps DEF CardSale, Inv
  <2>2. card' \in [charged: Nat, settled: Nat, net: Nat]
    BY <1>2, <1>3 DEF CardSale, Inv, RowsOK
  <2>. QED  BY <1>3, <2>1, <2>2 DEF CardSale, Inv, RowsOK
<1>4. ASSUME NEW fee \in 0..MaxAmount, ConfirmCardSettlement(amount, fee) PROVE Inv'
  <2>1. fee \in Nat /\ fee < amount
    BY <1>4, TreasuryAssumption DEF ConfirmCardSettlement
  <2>2. balance' = [balance EXCEPT ![Settlement] = @ - amount - fee,
                                   ![Bank] = @ + amount - fee]
    BY <1>4 DEF ConfirmCardSettlement
  <2>3. balance' \in [Accounts -> Int]
    BY <1>2, <2>1, <2>2 DEF Inv, BalancesOK, Accounts
  <2>4. \A p \in People: balance'[p] = balance[p]
    BY <2>2, AccountsDiffer DEF Inv, BalancesOK, Accounts
  <2>5. BalancesOK'
    BY <2>3, <2>4, OthersKeep DEF Inv
  <2>6. card' \in [charged: Nat, settled: Nat, net: Nat]
    <3>1. card.settled + amount \in Nat /\ card.net + amount - fee \in Nat
      BY <1>2, <2>1 DEF Inv, RowsOK
    <3>2. card' = [card EXCEPT !.settled = card.settled + amount,
                               !.net = card.net + amount - fee]
      BY <1>4 DEF ConfirmCardSettlement
    <3>. QED  BY <3>1, <3>2 DEF Inv, RowsOK
  <2>. QED  BY <1>4, <2>5, <2>6 DEF ConfirmCardSettlement, Inv, RowsOK
<1>5. ASSUME NEW allowNegativeBalance \in BOOLEAN, PayFromBank(amount, allowNegativeBalance)
      PROVE  Inv'
  <2>1. BalancesOK'
    BY <1>2, <1>5, LossKeeps, AccountsDiffer DEF PayFromBank, Inv
  <2>. QED  BY <1>2, <1>5, <2>1 DEF PayFromBank, Inv, RowsOK
<1>. QED  BY <1>1, <1>3, <1>4, <1>5

LEMMA NextInv == Inv /\ [Next]_vars => Inv'
<1>. SUFFICES ASSUME Inv, [Next]_vars PROVE Inv'
  OBVIOUS
<1>1. CASE UNCHANGED vars
  BY <1>1 DEF vars, figures, Inv, RowsOK, BalancesOK, CustodyCovered
<1>2. ASSUME NEW t \in Requests, Abort(t) PROVE Inv'
  <2>1. req' \in [Requests -> RequestRows]
    BY <1>2 DEF Abort, Inv, RowsOK, Idle, RequestRows
  <2>. QED  BY <1>2, <2>1 DEF Abort, figures, Inv, RowsOK, BalancesOK, CustodyCovered
<1>. QED  BY <1>1, <1>2, SessionStep, CustodyStep, ExpenseStep, DepositStep, BankStep DEF Next

LEMMA SpecInv == Spec => []Inv
<1>. QED  BY InitInv, NextInv, PTL DEF Spec

-----------------------------------------------------------------------------
(* What the rows and the transactions in flight refer to.                  *)

RowsSound ==
    /\ \A s \in Sessions:
           /\ session[s] = "OPEN" => declared[s] = Null
           /\ session[s] = "AUTO_CLOSED" /\ counted[s] = Null => declared[s] = Null
           /\ session[s] = "CLOSED" /\ declared[s] # Null => ~declared[s].auto
    /\ \A e \in Expenses: expense[e].status # "NONE" => hasSafe
    /\ \A d \in Deposits:
           deposit[d].status # "NONE" =>
               IF deposit[d].source = "CUSTODY" THEN deposit[d].from \in People
               ELSE deposit[d].from = Safe <=> hasSafe

RequestsSound ==
    /\ \A t \in Requests:
           /\ req[t].pc \in {"approved", "spending"} => hasSafe /\ req[t].row \in Expenses
           /\ req[t].pc = "depositing" =>
                  /\ req[t].row \in Deposits
                  /\ req[t].person \in People
                  /\ req[t].amount > 0
    /\ \A t, u \in Requests:
           req[t].pc = req[u].pc /\ req[t].pc \in {"spending", "depositing"} => t = u

Sound == RowsSound /\ RequestsSound

LEMMA InitSound == Init => Sound
BY DEF Init, Sound, RowsSound, RequestsSound, NoExpense, NoDeposit, Idle

\* One request changes.
LEMMA RequestStep ==
    ASSUME Inv, RequestsSound, UNCHANGED hasSafe, NEW t \in Requests, NEW r,
           req' = [req EXCEPT ![t] = r],
           r.pc \in {"approved", "spending"} => hasSafe /\ r.row \in Expenses,
           r.pc = "depositing" => r.row \in Deposits /\ r.person \in People /\ r.amount > 0,
           r.pc = "spending" => ~SafeLocked,
           r.pc = "depositing" => ~BranchLocked
    PROVE  RequestsSound'
<1>1. \A u \in Requests: req'[u] = IF u = t THEN r ELSE req[u]
  BY DEF Inv, RowsOK
<1>. QED  BY <1>1 DEF RequestsSound, SafeLocked, BranchLocked

\* A request ends.
LEMMA RequestEnd ==
    ASSUME Inv, RequestsSound, UNCHANGED hasSafe, NEW t \in Requests,
           req' = [req EXCEPT ![t] = Idle]
    PROVE  RequestsSound'
BY RequestStep DEF Idle

LEMMA RequestsKept ==
    ASSUME RequestsSound, UNCHANGED <<hasSafe, req>> PROVE RequestsSound'
BY DEF RequestsSound

LEMMA RowsKept ==
    ASSUME RowsSound, UNCHANGED <<hasSafe, session, counted, declared, expense, deposit>>
    PROVE  RowsSound'
BY DEF RowsSound

LEMMA SessionSound ==
    ASSUME Inv, Sound, SessionSteps PROVE Sound'
<1>1. PICK s \in Sessions:
        \/ \E c \in 0..MaxAmount: Close(s, c) \/ Review(s, c)
        \/ AutoClose(s)
        \/ \E p \in People, amount \in Amounts: SendCashOut(s, p, amount)
        \/ \E row \in CountedRows: Declare(s, row)
  BY DEF SessionSteps
<1>2. RequestsSound'
  BY <1>1, RequestsKept DEF Sound, Close, Review, AutoClose, SendCashOut, Declare
<1>3. UNCHANGED <<hasSafe, expense, deposit>>
  BY <1>1 DEF Close, Review, AutoClose, SendCashOut, Declare
<1>4. ASSUME NEW c \in 0..MaxAmount, Close(s, c) PROVE RowsSound'
  BY <1>3, <1>4, TreasuryAssumption DEF Close, Inv, RowsOK, Sound, RowsSound
<1>5. ASSUME NEW c \in 0..MaxAmount, Review(s, c) PROVE RowsSound'
  <2>1. c # Null
    BY TreasuryAssumption
  <2>2. declared' = [declared EXCEPT ![s] =
            [auto |-> TRUE, out |-> [p \in People |-> 0], retain |-> c]]
    BY <1>5 DEF Review, Declaration
  <2>. QED  BY <1>3, <1>5, <2>1, <2>2 DEF Review, Inv, RowsOK, Sound, RowsSound
<1>6. CASE AutoClose(s)
  BY <1>2, <1>3, <1>6 DEF AutoClose, Inv, RowsOK, Sound, RowsSound
<1>7. ASSUME NEW p \in People, NEW amount \in Amounts, SendCashOut(s, p, amount)
      PROVE  RowsSound'
  BY <1>7, RowsKept DEF SendCashOut, Sound
<1>8. ASSUME NEW row \in CountedRows, Declare(s, row) PROVE RowsSound'
  BY <1>3, <1>8 DEF Declare, Declaration, Inv, RowsOK, Sound, RowsSound
<1>. QED  BY <1>1, <1>2, <1>4, <1>5, <1>6, <1>7, <1>8 DEF Sound

LEMMA CustodySound ==
    ASSUME Inv, Sound, CustodySteps PROVE Sound'
<1>1. PICK p \in People, amount \in Amounts:
        \/ \E q \in People: ConfirmReceipt(p, q, amount)
        \/ \E d \in Deposits: ConfirmBankDeposit(d, p, amount)
        \/ AdjustCustody(p, amount)
        \/ ReturnToRetained(p, amount)
  BY DEF CustodySteps
<1>2. RequestsSound'
  BY <1>1, RequestsKept
     DEF Sound, ConfirmReceipt, ConfirmBankDeposit, AdjustCustody, ReturnToRetained
<1>3. ASSUME NEW d \in Deposits, ConfirmBankDeposit(d, p, amount) PROVE RowsSound'
  BY <1>3 DEF ConfirmBankDeposit, Inv, RowsOK, Sound, RowsSound
<1>4. ASSUME ~\E d \in Deposits: ConfirmBankDeposit(d, p, amount) PROVE RowsSound'
  BY <1>1, <1>4, RowsKept DEF Sound, ConfirmReceipt, AdjustCustody, ReturnToRetained, figures
<1>. QED  BY <1>2, <1>3, <1>4 DEF Sound

LEMMA ExpenseSound ==
    ASSUME Inv, Sound, ExpenseSteps PROVE Sound'
<1>1. ASSUME NEW e \in Expenses, NEW amount \in Amounts, RequestExpense(e, amount)
      PROVE  Sound'
  <2>1. RequestsSound'
    BY <1>1, RequestsKept DEF RequestExpense, Sound
  <2>2. RowsSound'
    BY <1>1 DEF RequestExpense, Inv, RowsOK, Sound, RowsSound
  <2>. QED  BY <2>1, <2>2 DEF Sound
<1>2. ASSUME NEW t \in Requests, NEW e \in Expenses, ApproveExpense(t, e) PROVE Sound'
  <2>1. hasSafe
    BY <1>2 DEF ApproveExpense, Sound, RowsSound
  <2>2. RequestsSound'
    BY <1>2, <2>1, RequestStep DEF ApproveExpense, Sound
  <2>3. RowsSound'
    BY <1>2, <2>1 DEF ApproveExpense, Inv, RowsOK, Sound, RowsSound
  <2>. QED  BY <2>2, <2>3 DEF Sound
<1>3. ASSUME NEW t \in Requests, NEW e \in Expenses, NEW amount \in Amounts,
             ExpenseLock(t, e, amount)
      PROVE  Sound'
  <2>1. RequestsSound'
    BY <1>3, RequestStep DEF ExpenseLock, Sound
  <2>2. RowsSound'
    BY <1>3, RowsKept DEF ExpenseLock, figures, Sound
  <2>. QED  BY <2>1, <2>2 DEF Sound
<1>4. ASSUME NEW t \in Requests, ExecuteLock(t) PROVE Sound'
  <2>. DEFINE r == [req[t] EXCEPT !.pc = "spending"]
  <2>1. r.pc = "spending" /\ r.row = req[t].row
    BY DEF Inv, RowsOK, RequestRows
  <2>2. hasSafe /\ req[t].row \in Expenses
    BY <1>4 DEF ExecuteLock, Sound, RequestsSound
  <2>3. req' = [req EXCEPT ![t] = r] /\ ~SafeLocked /\ UNCHANGED hasSafe
    BY <1>4 DEF ExecuteLock
  <2>. HIDE DEF r
  <2>4. RequestsSound'
    BY <2>1, <2>2, <2>3, RequestStep DEF Sound
  <2>5. RowsSound'
    BY <1>4, RowsKept DEF ExecuteLock, figures, Sound
  <2>. QED  BY <2>4, <2>5 DEF Sound
<1>5. ASSUME NEW t \in Requests, ExpenseCommit(t) PROVE Sound'
  <2>1. hasSafe
    BY <1>5 DEF ExpenseCommit, Sound, RequestsSound
  <2>2. RequestsSound'
    BY <1>5, RequestEnd DEF ExpenseCommit, Spend, Sound
  <2>3. RowsSound'
    BY <1>5, <2>1 DEF ExpenseCommit, Spend, Inv, RowsOK, Sound, RowsSound
  <2>. QED  BY <2>2, <2>3 DEF Sound
<1>6. ASSUME NEW e \in Expenses, VoidExpense(e) PROVE Sound'
  <2>1. RequestsSound'
    BY <1>6, RequestsKept DEF VoidExpense, Sound
  <2>2. hasSafe
    BY <1>6 DEF VoidExpense, Sound, RowsSound
  <2>3. RowsSound'
    BY <1>6, <2>2 DEF VoidExpense, Inv, RowsOK, Sound, RowsSound
  <2>. QED  BY <2>1, <2>3 DEF Sound
<1>. QED  BY <1>1, <1>2, <1>3, <1>4, <1>5, <1>6 DEF ExpenseSteps

LEMMA DepositSound ==
    ASSUME Inv, Sound, DepositSteps PROVE Sound'
<1>1. ASSUME NEW t \in Requests, NEW d \in Deposits, NEW p \in People, NEW amount \in Amounts,
             DirectLock(t, d, p, amount)
      PROVE  Sound'
  <2>1. amount > 0
    BY TreasuryAssumption DEF Amounts
  <2>2. RequestsSound'
    BY <1>1, <2>1, RequestStep DEF DirectLock, Sound
  <2>3. RowsSound'
    BY <1>1, RowsKept DEF DirectLock, figures, Sound
  <2>. QED  BY <2>2, <2>3 DEF Sound
<1>2. ASSUME NEW t \in Requests, DirectCommit(t) PROVE Sound'
  <2>1. RequestsSound'
    BY <1>2, RequestEnd DEF DirectCommit, Sound
  <2>2. req[t].row \in Deposits /\ req[t].person \in People
    BY <1>2 DEF DirectCommit, Sound, RequestsSound
  <2>. DEFINE row == [status |-> "POSTED", source |-> "DIRECT_FROM_RETAINED",
                      from |-> IF hasSafe THEN Safe ELSE req[t].person,
                      amount |-> req[t].amount]
  <2>3. row.source = "DIRECT_FROM_RETAINED" /\ (row.from = Safe <=> hasSafe)
    BY <2>2, AccountsDiffer
  <2>4. deposit' = [deposit EXCEPT ![req[t].row] = row]
        /\ UNCHANGED <<hasSafe, session, counted, declared, expense>>
    BY <1>2 DEF DirectCommit
  <2>. HIDE DEF row
  <2>5. RowsSound'
    BY <2>3, <2>4 DEF Inv, RowsOK, Sound, RowsSound
  <2>. QED  BY <2>1, <2>5 DEF Sound
<1>3. ASSUME NEW d \in Deposits, VoidBankDeposit(d) PROVE Sound'
  <2>1. RequestsSound'
    BY <1>3, RequestsKept DEF VoidBankDeposit, Sound
  <2>2. deposit[d] \in DepositRows
    BY DEF Inv, RowsOK
  <2>3. RowsSound'
    BY <1>3, <2>2 DEF VoidBankDeposit, Inv, RowsOK, DepositRows, Sound, RowsSound
  <2>. QED  BY <2>1, <2>3 DEF Sound
<1>. QED  BY <1>1, <1>2, <1>3 DEF DepositSteps

LEMMA NextSound == Inv /\ Sound /\ [Next]_vars => Sound'
<1>. SUFFICES ASSUME Inv, Sound, [Next]_vars PROVE Sound'
  OBVIOUS
<1>1. CASE UNCHANGED vars
  BY <1>1, RowsKept, RequestsKept DEF vars, figures, Sound
<1>2. CASE BankSteps
  BY <1>2, RowsKept, RequestsKept
     DEF BankSteps, CardSale, ConfirmCardSettlement, PayFromBank, Sound
<1>3. ASSUME NEW t \in Requests, Abort(t) PROVE Sound'
  BY <1>3, RowsKept, RequestEnd DEF Abort, figures, Sound
<1>. QED  BY <1>1, <1>2, <1>3, SessionSound, CustodySound, ExpenseSound, DepositSound DEF Next

LEMMA SpecSound == Spec => []Sound
<1>. QED  BY SpecInv, InitSound, NextSound, PTL DEF Spec

-----------------------------------------------------------------------------
(* The sums over the rows.                                                 *)

Direct == "DIRECT_FROM_RETAINED"

\* What a deposit and an expense count for.
Counts(row, source) ==
    IF row.status = "POSTED" /\ row.source = source THEN row.amount ELSE 0

Active(row) == IF row.status = "ACTIVE" THEN row.amount ELSE 0

\* What a declaration keeps and hands over.
LEMMA DeclarationParts ==
    ASSUME NEW row \in Declarations \union {Null}
    PROVE  /\ RetainOf(row) \in Nat
           /\ FundPortion(row) \in Nat
           /\ AwaitingDeposit(row) \in Nat
           /\ RetainOf(row) = AwaitingDeposit(row) + FundPortion(row)
           /\ OutOf(row) \in Nat
<1>1. RetainOf(row) \in Nat
  BY DEF RetainOf, Declarations
<1>2. Fund \in Nat
  BY TreasuryAssumption
<1>3. OutOf(row) \in Nat
  <2>1. CASE row = Null
    BY <2>1 DEF OutOf
  <2>2. CASE row # Null
    <3>1. row.out \in [People -> Nat]
      BY <2>2 DEF Declarations
    <3>2. SumFunction(row.out) \in Nat
      BY <3>1, TreasuryAssumption, SumIsNat
    <3>. QED  BY <2>2, <3>2 DEF OutOf
  <2>. QED  BY <2>1, <2>2
<1>. QED  BY <1>1, <1>2, <1>3 DEF FundPortion, AwaitingDeposit

LEMMA SumTypes ==
    ASSUME Inv
    PROVE  /\ Awaiting \in Nat /\ InFund \in Nat /\ Kept \in Nat /\ HandedOver \in Nat
           /\ Spent \in Nat /\ OfSource("CUSTODY") \in Nat /\ OfSource(Direct) \in Nat
           /\ Carried \in Int
           /\ Kept = Awaiting + InFund
<1>. DEFINE await == [s \in Sessions |-> AwaitingDeposit(declared[s])]
            fund == [s \in Sessions |-> FundPortion(declared[s])]
            kept == [s \in Sessions |-> RetainOf(declared[s])]
            out == [s \in Sessions |-> OutOf(declared[s])]
            ofSource(source) == [d \in Deposits |-> Counts(deposit[d], source)]
            active == [e \in Expenses |-> Active(expense[e])]
            custody == [p \in People |-> balance[p]]
<1>1. /\ await \in [Sessions -> Nat] /\ fund \in [Sessions -> Nat]
      /\ kept \in [Sessions -> Nat] /\ out \in [Sessions -> Nat]
      /\ \A s \in Sessions: kept[s] = await[s] + fund[s]
  BY DeclarationParts DEF Inv, RowsOK
<1>2. \A source: ofSource(source) \in [Deposits -> Nat]
  BY DEF Inv, RowsOK, DepositRows, Counts
<1>3. active \in [Expenses -> Nat]
  BY DEF Inv, RowsOK, ExpenseRows, Active
<1>4. custody \in [People -> Int]
  BY DEF Inv, BalancesOK, Accounts
<1>5. /\ Awaiting = SumFunction(await) /\ InFund = SumFunction(fund)
      /\ Kept = SumFunction(kept) /\ HandedOver = SumFunction(out)
      /\ Spent = SumFunction(active) /\ Carried = SumFunction(custody)
  BY DEF Awaiting, InFund, Kept, HandedOver, Spent, Carried, Active
<1>6. \A source: OfSource(source) = SumFunction(ofSource(source))
  BY DEF OfSource, Counts
<1>. HIDE DEF await, fund, kept, out, ofSource, active, custody
<1>7. /\ Awaiting \in Nat /\ InFund \in Nat /\ Kept \in Nat /\ HandedOver \in Nat
  BY <1>1, <1>5, TreasuryAssumption, SumIsNat
<1>8. Spent \in Nat /\ OfSource("CUSTODY") \in Nat /\ OfSource(Direct) \in Nat
  BY <1>2, <1>3, <1>5, <1>6, TreasuryAssumption, SumIsNat
<1>9. Carried \in Int
  BY <1>4, <1>5, TreasuryAssumption, SumIsInt
<1>10. Kept = Awaiting + InFund
  <2>1. await \in [Sessions -> Int] /\ fund \in [Sessions -> Int] /\ kept \in [Sessions -> Int]
    BY <1>1
  <2>. QED  BY <1>1, <1>5, <2>1, TreasuryAssumption, SumGrows
<1>. QED  BY <1>7, <1>8, <1>9, <1>10

\* A session is declared.
LEMMA DeclaredChange ==
    ASSUME Inv, Inv', NEW s \in Sessions, declared[s] = Null, NEW row \in Declarations,
           declared' = [declared EXCEPT ![s] = row]
    PROVE  /\ Awaiting' = Awaiting + AwaitingDeposit(row)
           /\ InFund' = InFund + FundPortion(row)
           /\ HandedOver' = HandedOver + OutOf(row)
<1>. DEFINE await == [r \in Sessions |-> AwaitingDeposit(declared[r])]
            fund == [r \in Sessions |-> FundPortion(declared[r])]
            out == [r \in Sessions |-> OutOf(declared[r])]
            await2 == [r \in Sessions |-> AwaitingDeposit(declared'[r])]
            fund2 == [r \in Sessions |-> FundPortion(declared'[r])]
            out2 == [r \in Sessions |-> OutOf(declared'[r])]
<1>1. \A r \in Sessions:
          declared[r] \in Declarations \union {Null} /\ declared'[r] \in Declarations \union {Null}
  BY DEF Inv, RowsOK
<1>2. /\ await \in [Sessions -> Int] /\ fund \in [Sessions -> Int] /\ out \in [Sessions -> Int]
      /\ await2 \in [Sessions -> Int] /\ fund2 \in [Sessions -> Int] /\ out2 \in [Sessions -> Int]
  BY <1>1, DeclarationParts
<1>3. declared'[s] = row /\ \A r \in Sessions \ {s}: declared'[r] = declared[r]
  BY DEF Inv, RowsOK
<1>4. RetainOf(Null) = 0 /\ FundPortion(Null) = 0 /\ AwaitingDeposit(Null) = 0 /\ OutOf(Null) = 0
  BY TreasuryAssumption DEF RetainOf, FundPortion, AwaitingDeposit, OutOf
<1>5. /\ await[s] = 0 /\ fund[s] = 0 /\ out[s] = 0
      /\ await2[s] = AwaitingDeposit(row) /\ fund2[s] = FundPortion(row) /\ out2[s] = OutOf(row)
  BY <1>3, <1>4
<1>6. \A r \in Sessions \ {s}: await2[r] = await[r] /\ fund2[r] = fund[r] /\ out2[r] = out[r]
  BY <1>3
<1>7. /\ Awaiting = SumFunction(await) /\ Awaiting' = SumFunction(await2)
      /\ InFund = SumFunction(fund) /\ InFund' = SumFunction(fund2)
      /\ HandedOver = SumFunction(out) /\ HandedOver' = SumFunction(out2)
  BY DEF Awaiting, InFund, HandedOver, AwaitingDeposit, FundPortion, RetainOf, OutOf
<1>. HIDE DEF await, fund, out, await2, fund2, out2
<1>8. /\ SumFunction(await2) = SumFunction(await) - await[s] + await2[s]
      /\ SumFunction(fund2) = SumFunction(fund) - fund[s] + fund2[s]
      /\ SumFunction(out2) = SumFunction(out) - out[s] + out2[s]
  BY <1>2, <1>6, TreasuryAssumption, SumChange
<1>9. SumFunction(await) \in Int /\ SumFunction(fund) \in Int /\ SumFunction(out) \in Int
  BY <1>2, TreasuryAssumption, SumIsInt
<1>10. AwaitingDeposit(row) \in Int /\ FundPortion(row) \in Int /\ OutOf(row) \in Int
  BY DeclarationParts
<1>. QED  BY <1>5, <1>7, <1>8, <1>9, <1>10

\* A deposit changes.
LEMMA DepositChange ==
    ASSUME Inv, Inv', NEW d \in Deposits, NEW row, deposit' = [deposit EXCEPT ![d] = row],
           NEW source
    PROVE  OfSource(source)' =
               OfSource(source) - Counts(deposit[d], source) + Counts(row, source)
<1>. DEFINE f == [c \in Deposits |-> Counts(deposit[c], source)]
            g == [c \in Deposits |-> Counts(deposit'[c], source)]
<1>1. f \in [Deposits -> Int] /\ g \in [Deposits -> Int]
  BY DEF Inv, RowsOK, DepositRows, Counts
<1>2. f[d] = Counts(deposit[d], source) /\ g[d] = Counts(row, source)
  BY DEF Inv, RowsOK
<1>3. \A c \in Deposits \ {d}: g[c] = f[c]
  BY DEF Inv, RowsOK
<1>4. OfSource(source) = SumFunction(f) /\ OfSource(source)' = SumFunction(g)
  BY DEF OfSource, Counts
<1>. HIDE DEF f, g
<1>5. SumFunction(g) = SumFunction(f) - f[d] + g[d]
  BY <1>1, <1>3, TreasuryAssumption, SumChange
<1>. QED  BY <1>2, <1>4, <1>5

\* An expense changes.
LEMMA ExpenseChange ==
    ASSUME Inv, Inv', NEW e \in Expenses, NEW row, expense' = [expense EXCEPT ![e] = row]
    PROVE  Spent' = Spent - Active(expense[e]) + Active(row)
<1>. DEFINE f == [c \in Expenses |-> Active(expense[c])]
            g == [c \in Expenses |-> Active(expense'[c])]
<1>1. f \in [Expenses -> Int] /\ g \in [Expenses -> Int]
  BY DEF Inv, RowsOK, ExpenseRows, Active
<1>2. f[e] = Active(expense[e]) /\ g[e] = Active(row)
  BY DEF Inv, RowsOK
<1>3. \A c \in Expenses \ {e}: g[c] = f[c]
  BY DEF Inv, RowsOK
<1>4. Spent = SumFunction(f) /\ Spent' = SumFunction(g)
  BY DEF Spent, Active
<1>. HIDE DEF f, g
<1>5. SumFunction(g) = SumFunction(f) - f[e] + g[e]
  BY <1>1, <1>3, TreasuryAssumption, SumChange
<1>. QED  BY <1>2, <1>4, <1>5

\* One custody changes, or none.
LEMMA CarriedChange ==
    ASSUME Inv, Inv', NEW p \in People, \A q \in People \ {p}: balance'[q] = balance[q]
    PROVE  Carried' = Carried - balance[p] + balance'[p]
<1>. DEFINE f == [q \in People |-> balance[q]]
            g == [q \in People |-> balance'[q]]
<1>1. f \in [People -> Int] /\ g \in [People -> Int]
  BY DEF Inv, BalancesOK, Accounts
<1>2. f[p] = balance[p] /\ g[p] = balance'[p] /\ \A q \in People \ {p}: g[q] = f[q]
  OBVIOUS
<1>3. Carried = SumFunction(f) /\ Carried' = SumFunction(g)
  BY DEF Carried
<1>. HIDE DEF f, g
<1>4. SumFunction(g) = SumFunction(f) - f[p] + g[p]
  BY <1>1, <1>2, TreasuryAssumption, SumChange
<1>. QED  BY <1>2, <1>3, <1>4

LEMMA CarriedKept ==
    ASSUME \A q \in People: balance'[q] = balance[q]
    PROVE  Carried' = Carried
<1>1. [q \in People |-> balance'[q]] = [q \in People |-> balance[q]]
  OBVIOUS
<1>. QED  BY <1>1, Zenon DEF Carried

\* The sums over the rows of one table.
LEMMA DeclaredKept ==
    ASSUME UNCHANGED declared
    PROVE  Awaiting' = Awaiting /\ InFund' = InFund /\ Kept' = Kept /\ HandedOver' = HandedOver
BY DEF Awaiting, InFund, Kept, HandedOver, AwaitingDeposit, FundPortion, RetainOf, OutOf

LEMMA DepositsKept ==
    ASSUME UNCHANGED deposit, NEW source PROVE OfSource(source)' = OfSource(source)
BY DEF OfSource

LEMMA ExpensesKept ==
    ASSUME UNCHANGED expense PROVE Spent' = Spent
BY DEF Spent

-----------------------------------------------------------------------------
(* The ledger agrees with the rows.                                        *)

LEMMA AccountsOf ==
    /\ Safe \in Accounts /\ Bank \in Accounts /\ Settlement \in Accounts
    /\ People \subseteq Accounts
    /\ Safe \notin People /\ Bank \notin People /\ Settlement \notin People
    /\ Safe # Bank /\ Safe # Settlement /\ Bank # Settlement
    /\ Null \notin Accounts
BY TreasuryAssumption DEF Accounts

LEMMA MoveValues ==
    ASSUME Inv, NEW a \in Accounts, NEW b \in Accounts, a # b, NEW n \in Int
    PROVE  \A c \in Accounts:
               Move(a, b, n)[c] = IF c = a THEN balance[c] - n
                                  ELSE IF c = b THEN balance[c] + n ELSE balance[c]
BY DEF Move, Inv, BalancesOK

\* The numbers a step starts from.
LEMMA Figures ==
    ASSUME Inv
    PROVE  /\ sent \in Int /\ adjusted \in Int /\ removed \in Int /\ paid \in Int
           /\ card.net \in Int
           /\ \A a \in Accounts: balance[a] \in Int
BY DEF Inv, RowsOK, BalancesOK

\* A step that no row and no account of the ledger depends on.
LEMMA LedgerKept ==
    ASSUME Inv, LedgerMatchesRows, Spent' = Spent,
           UNCHANGED <<hasSafe, declared, sent, deposit, adjusted, removed, paid>>,
           card'.net = card.net,
           balance'[Safe] = balance[Safe], balance'[Bank] = balance[Bank],
           \A p \in People: balance'[p] = balance[p]
    PROVE  LedgerMatchesRows'
BY CarriedKept, DeclaredKept, DepositsKept DEF LedgerMatchesRows

\* What a declaration does to the sums and the accounts.
LEMMA DeclarationChanges ==
    ASSUME Inv, Inv', NEW s \in Sessions, declared[s] = Null,
           NEW row \in Declarations, Declaration(s, row), UNCHANGED hasSafe
    PROVE  /\ Awaiting' = Awaiting + AwaitingDeposit(row)
           /\ InFund' = InFund + FundPortion(row)
           /\ Kept' = Kept + row.retain
           /\ HandedOver' = HandedOver + OutOf(row)
           /\ Carried' = Carried + OutOf(row)
           /\ hasSafe => balance'[Safe] = balance[Safe] + row.retain
           /\ balance'[Bank] = balance[Bank]
           /\ AwaitingDeposit(row) \in Nat /\ FundPortion(row) \in Nat
           /\ OutOf(row) \in Nat /\ row.retain \in Nat
<1>1. /\ Awaiting' = Awaiting + AwaitingDeposit(row)
      /\ InFund' = InFund + FundPortion(row)
      /\ HandedOver' = HandedOver + OutOf(row)
  BY DeclaredChange DEF Declaration
<1>2. /\ row.out \in [People -> Nat] /\ row.retain \in Nat
      /\ OutOf(row) = SumFunction(row.out) /\ RetainOf(row) = row.retain
  BY TreasuryAssumption DEF Declarations, OutOf, RetainOf
<1>3. /\ AwaitingDeposit(row) \in Nat /\ FundPortion(row) \in Nat /\ OutOf(row) \in Nat
      /\ row.retain = AwaitingDeposit(row) + FundPortion(row)
  BY <1>2, DeclarationParts
<1>4. Kept' = Kept + row.retain
  <2>1. /\ Kept = Awaiting + InFund /\ Awaiting \in Nat /\ InFund \in Nat
    BY SumTypes
  <2>2. Kept' = Awaiting' + InFund'
    <3>1. (Inv => Kept = Awaiting + InFund)'
      BY SumTypes, PTL
    <3>. QED  BY <3>1
  <2>. QED  BY <1>1, <1>3, <2>1, <2>2
<1>5. \A a \in Accounts:
          balance'[a] = balance[a] + (IF a \in People THEN row.out[a]
                                      ELSE IF a = Safe /\ hasSafe THEN row.retain ELSE 0)
  BY DEF Declaration
<1>6. Carried' = Carried + OutOf(row)
  <2>. DEFINE f == [p \in People |-> balance[p]]
              g == row.out
              h == [p \in People |-> balance'[p]]
  <2>1. f \in [People -> Int] /\ g \in [People -> Int] /\ h \in [People -> Int]
    BY <1>2 DEF Inv, BalancesOK, Accounts
  <2>2. \A p \in People: h[p] = f[p] + g[p]
    BY <1>5, AccountsOf
  <2>3. Carried = SumFunction(f) /\ Carried' = SumFunction(h)
    BY DEF Carried
  <2>. HIDE DEF f, g, h
  <2>4. SumFunction(h) = SumFunction(f) + SumFunction(g)
    BY <2>1, <2>2, TreasuryAssumption, SumGrows
  <2>. QED  BY <1>2, <2>3, <2>4 DEF g
<1>7. balance'[Bank] = balance[Bank] /\ (hasSafe => balance'[Safe] = balance[Safe] + row.retain)
  BY <1>5, AccountsOf, Figures
<1>. QED  BY <1>1, <1>2, <1>3, <1>4, <1>6, <1>7

LEMMA DeclarationLedger ==
    ASSUME Inv, Inv', LedgerMatchesRows, NEW s \in Sessions, declared[s] = Null,
           NEW row \in Declarations, Declaration(s, row),
           UNCHANGED <<hasSafe, sent, expense, deposit, adjusted, removed, card, paid>>
    PROVE  LedgerMatchesRows'
<1>1. /\ Kept' = Kept + row.retain
      /\ HandedOver' = HandedOver + OutOf(row)
      /\ Carried' = Carried + OutOf(row)
      /\ hasSafe => balance'[Safe] = balance[Safe] + row.retain
      /\ balance'[Bank] = balance[Bank]
      /\ OutOf(row) \in Nat /\ row.retain \in Nat
  BY DeclarationChanges
<1>2. /\ Kept \in Nat /\ HandedOver \in Nat /\ Carried \in Int
      /\ Spent \in Nat /\ OfSource("CUSTODY") \in Nat /\ OfSource(Direct) \in Nat
  BY SumTypes
<1>3. /\ Spent' = Spent
      /\ OfSource("CUSTODY")' = OfSource("CUSTODY") /\ OfSource(Direct)' = OfSource(Direct)
  BY ExpensesKept, DepositsKept
<1>4. sent \in Int /\ adjusted \in Int /\ removed \in Int
  BY Figures
<1>5. /\ hasSafe => balance[Safe] = Kept - Spent - OfSource(Direct)
      /\ Carried = HandedOver + sent - OfSource("CUSTODY") - removed - adjusted
      /\ balance[Bank] = OfSource("CUSTODY") + OfSource(Direct) + card.net - paid
  BY DEF LedgerMatchesRows, Direct
<1>6. hasSafe => balance'[Safe] = Kept' - Spent' - OfSource(Direct)'
  BY <1>1, <1>2, <1>3, <1>5
<1>7. Carried' = HandedOver' + sent - OfSource("CUSTODY")' - removed - adjusted
  BY <1>1, <1>2, <1>3, <1>4, <1>5
<1>8. balance'[Bank] = OfSource("CUSTODY")' + OfSource(Direct)' + card.net - paid
  BY <1>1, <1>3, <1>5
<1>. QED  BY <1>6, <1>7, <1>8 DEF LedgerMatchesRows, Direct

\* Rows that are declared were not: what Declare and Review start from.
LEMMA NotDeclared ==
    ASSUME Sound, NEW s \in Sessions,
           \/ session[s] = "CLOSED" /\ (declared[s] # Null => declared[s].auto)
           \/ session[s] = "AUTO_CLOSED" /\ counted[s] = Null
    PROVE  declared[s] = Null
BY DEF Sound, RowsSound

LEMMA CountedRowsTyped == CountedRows \subseteq Declarations
<1>. SUFFICES ASSUME NEW row \in CountedRows PROVE row \in Declarations
  OBVIOUS
<1>0. MaxAmount \in Nat
  BY TreasuryAssumption
<1>1. row.out \in [People -> Nat]
  BY <1>0 DEF CountedRows
<1>2. row.retain \in 0..MaxAmount /\ row.auto \in {FALSE}
  BY DEF CountedRows
<1>3. row = [auto |-> row.auto, out |-> row.out, retain |-> row.retain]
  BY DEF CountedRows
<1>4. row.retain \in Nat /\ row.auto \in BOOLEAN
  <2>1. \A n \in 0..MaxAmount: n \in Nat
    BY <1>0
  <2>2. row.auto \in BOOLEAN
    BY <1>2, Zenon
  <2>. QED  BY <1>2, <2>1, <2>2, Zenon
<1>5. [auto |-> row.auto, out |-> row.out, retain |-> row.retain] \in Declarations
  BY <1>1, <1>4 DEF Declarations
<1>. QED  BY <1>3, <1>5

LEMMA SessionLedger ==
    ASSUME Inv, Inv', Sound, LedgerMatchesRows, SessionSteps PROVE LedgerMatchesRows'
<1>1. PICK s \in Sessions:
        \/ \E c \in 0..MaxAmount: Close(s, c) \/ Review(s, c)
        \/ AutoClose(s)
        \/ \E p \in People, amount \in Amounts: SendCashOut(s, p, amount)
        \/ \E row \in CountedRows: Declare(s, row)
  BY DEF SessionSteps
<1>2. ASSUME NEW c \in 0..MaxAmount, Close(s, c) PROVE LedgerMatchesRows'
  BY <1>2, LedgerKept, ExpensesKept DEF Close
<1>3. ASSUME NEW c \in 0..MaxAmount, Review(s, c) PROVE LedgerMatchesRows'
  <2>. DEFINE row == [auto |-> TRUE, out |-> [p \in People |-> 0], retain |-> c]
  <2>1. row \in Declarations
    BY TreasuryAssumption DEF Declarations
  <2>2. declared[s] = Null
    BY <1>3, NotDeclared DEF Review
  <2>3. /\ Declaration(s, row)
        /\ UNCHANGED <<hasSafe, sent, expense, deposit, adjusted, removed, card, paid>>
    BY <1>3 DEF Review
  <2>. HIDE DEF row
  <2>. QED  BY <2>1, <2>2, <2>3, DeclarationLedger
<1>4. CASE AutoClose(s)
  BY <1>4, LedgerKept, ExpensesKept DEF AutoClose
<1>5. ASSUME NEW p \in People, NEW amount \in Amounts, SendCashOut(s, p, amount)
      PROVE  LedgerMatchesRows'
  <2>1. amount \in Nat
    BY TreasuryAssumption DEF Amounts
  <2>2. /\ sent' = sent + amount
        /\ balance' = [balance EXCEPT ![p] = balance[p] + amount]
        /\ UNCHANGED <<hasSafe, declared, expense, deposit, adjusted, removed, card, paid>>
    BY <1>5 DEF SendCashOut
  <2>3. \A a \in Accounts: balance'[a] = IF a = p THEN balance[a] + amount ELSE balance[a]
    BY <2>2 DEF Inv, BalancesOK
  <2>4. balance'[Safe] = balance[Safe] /\ balance'[Bank] = balance[Bank]
    BY <2>3, AccountsOf
  <2>5. balance'[p] = balance[p] + amount /\ \A q \in People \ {p}: balance'[q] = balance[q]
    BY <2>3, AccountsOf
  <2>6. Carried' = Carried - balance[p] + balance'[p]
    BY <2>5, CarriedChange
  <2>7. /\ Spent' = Spent /\ Kept' = Kept /\ HandedOver' = HandedOver
        /\ OfSource("CUSTODY")' = OfSource("CUSTODY") /\ OfSource(Direct)' = OfSource(Direct)
    BY <2>2, ExpensesKept, DepositsKept, DeclaredKept
  <2>8. /\ HandedOver \in Int /\ Carried \in Int /\ OfSource("CUSTODY") \in Int
        /\ sent \in Int /\ adjusted \in Int /\ removed \in Int /\ balance[p] \in Int
    BY SumTypes, Figures, AccountsOf
  <2>9. Carried' = HandedOver' + sent' - OfSource("CUSTODY")' - removed' - adjusted'
    BY <2>1, <2>2, <2>5, <2>6, <2>7, <2>8 DEF LedgerMatchesRows
  <2>. QED  BY <2>2, <2>4, <2>7, <2>9 DEF LedgerMatchesRows, Direct
<1>6. ASSUME NEW row \in CountedRows, Declare(s, row) PROVE LedgerMatchesRows'
  <2>1. row \in Declarations
    BY CountedRowsTyped
  <2>2. declared[s] = Null
    BY <1>6, NotDeclared DEF Declare
  <2>3. /\ Declaration(s, row)
        /\ UNCHANGED <<hasSafe, sent, expense, deposit, adjusted, removed, card, paid>>
    BY <1>6 DEF Declare
  <2>. QED  BY <2>1, <2>2, <2>3, DeclarationLedger
<1>. QED  BY <1>1, <1>2, <1>3, <1>4, <1>5, <1>6

LEMMA CustodyLedger ==
    ASSUME Inv, Inv', Sound, LedgerMatchesRows, CustodySteps PROVE LedgerMatchesRows'
<1>1. PICK p \in People, amount \in Amounts:
        \/ \E q \in People: ConfirmReceipt(p, q, amount)
        \/ \E d \in Deposits: ConfirmBankDeposit(d, p, amount)
        \/ AdjustCustody(p, amount)
        \/ ReturnToRetained(p, amount)
  BY DEF CustodySteps
<1>2. amount \in Nat
  BY TreasuryAssumption DEF Amounts
<1>3. /\ HandedOver \in Int /\ Carried \in Int /\ OfSource("CUSTODY") \in Int
      /\ OfSource(Direct) \in Int /\ sent \in Int /\ adjusted \in Int /\ removed \in Int
      /\ paid \in Int /\ card.net \in Int /\ balance[Bank] \in Int
      /\ \A a \in People: balance[a] \in Int
  BY SumTypes, Figures, AccountsOf
<1>4. ASSUME NEW q \in People, ConfirmReceipt(p, q, amount) PROVE LedgerMatchesRows'
  <2>1. /\ p # q /\ balance' = Move(p, q, amount)
        /\ UNCHANGED <<hasSafe, declared, sent, expense, deposit, adjusted, removed, card, paid>>
    BY <1>4 DEF ConfirmReceipt, figures
  <2>2. \A c \in Accounts: balance'[c] = IF c = p THEN balance[c] - amount
                                         ELSE IF c = q THEN balance[c] + amount ELSE balance[c]
    BY <1>2, <2>1, MoveValues, AccountsOf
  <2>3. Carried' = Carried
    <3>. DEFINE f == [r \in People |-> balance[r]]
                g == [r \in People |-> IF r = p THEN balance[r] - amount ELSE balance[r]]
                h == [r \in People |-> balance'[r]]
    <3>1. f \in [People -> Int] /\ g \in [People -> Int] /\ h \in [People -> Int]
      BY <1>2, <1>3, <2>2, AccountsOf
    <3>2. /\ \A r \in People \ {p}: g[r] = f[r]
          /\ \A r \in People \ {q}: h[r] = g[r]
      BY <2>2, AccountsOf
    <3>3. g[p] = f[p] - amount /\ h[q] = g[q] + amount
      BY <2>1, <2>2, AccountsOf
    <3>4. Carried = SumFunction(f) /\ Carried' = SumFunction(h)
      BY DEF Carried
    <3>. HIDE DEF f, g, h
    <3>5. SumFunction(g) = SumFunction(f) - f[p] + g[p]
      BY <3>1, <3>2, TreasuryAssumption, SumChange
    <3>6. SumFunction(h) = SumFunction(g) - g[q] + h[q]
      BY <3>1, <3>2, TreasuryAssumption, SumChange
    <3>7. f[p] \in Int /\ g[q] \in Int /\ SumFunction(f) \in Int
      BY <3>1, TreasuryAssumption, SumIsInt
    <3>. QED  BY <1>2, <3>3, <3>4, <3>5, <3>6, <3>7
  <2>4. balance'[Safe] = balance[Safe] /\ balance'[Bank] = balance[Bank]
    BY <2>2, AccountsOf
  <2>5. /\ Spent' = Spent /\ Kept' = Kept /\ HandedOver' = HandedOver
        /\ OfSource("CUSTODY")' = OfSource("CUSTODY") /\ OfSource(Direct)' = OfSource(Direct)
    BY <2>1, ExpensesKept, DepositsKept, DeclaredKept
  <2>. QED  BY <2>1, <2>3, <2>4, <2>5 DEF LedgerMatchesRows, Direct
<1>5. ASSUME NEW d \in Deposits, ConfirmBankDeposit(d, p, amount) PROVE LedgerMatchesRows'
  <2>. DEFINE row == [status |-> "POSTED", source |-> "CUSTODY", from |-> p, amount |-> amount]
  <2>1. /\ deposit[d].status = "NONE"
        /\ deposit' = [deposit EXCEPT ![d] = row]
        /\ balance' = Move(p, Bank, amount)
        /\ UNCHANGED <<hasSafe, declared, sent, expense, adjusted, removed, card, paid>>
    BY <1>5 DEF ConfirmBankDeposit
  <2>2. /\ Counts(deposit[d], "CUSTODY") = 0 /\ Counts(row, "CUSTODY") = amount
        /\ Counts(deposit[d], Direct) = 0 /\ Counts(row, Direct) = 0
    BY <2>1 DEF Counts, Direct
  <2>. HIDE DEF row
  <2>3. /\ OfSource("CUSTODY")' = OfSource("CUSTODY") - 0 + amount
        /\ OfSource(Direct)' = OfSource(Direct) - 0 + 0
    <3>1. \A source: OfSource(source)' =
              OfSource(source) - Counts(deposit[d], source) + Counts(row, source)
      BY <2>1, DepositChange
    <3>. QED  BY <2>2, <3>1
  <2>4. \A c \in Accounts: balance'[c] = IF c = p THEN balance[c] - amount
                                         ELSE IF c = Bank THEN balance[c] + amount
                                         ELSE balance[c]
    BY <1>2, <2>1, MoveValues, AccountsOf
  <2>5. /\ balance'[p] = balance[p] - amount
        /\ \A q \in People \ {p}: balance'[q] = balance[q]
        /\ balance'[Safe] = balance[Safe] /\ balance'[Bank] = balance[Bank] + amount
    BY <2>4, AccountsOf
  <2>6. Carried' = Carried - balance[p] + balance'[p]
    BY <2>5, CarriedChange
  <2>7. Spent' = Spent /\ Kept' = Kept /\ HandedOver' = HandedOver
    BY <2>1, ExpensesKept, DeclaredKept
  <2>8. hasSafe => balance'[Safe] = Kept' - Spent' - OfSource(Direct)'
    BY <1>3, <2>3, <2>5, <2>7 DEF LedgerMatchesRows, Direct
  <2>9. Carried' = HandedOver' + sent - OfSource("CUSTODY")' - removed - adjusted
    BY <1>2, <1>3, <2>3, <2>5, <2>6, <2>7 DEF LedgerMatchesRows
  <2>10. balance'[Bank] = OfSource("CUSTODY")' + OfSource(Direct)' + card.net - paid
    BY <1>2, <1>3, <2>3, <2>5 DEF LedgerMatchesRows, Direct
  <2>. QED  BY <2>1, <2>8, <2>9, <2>10 DEF LedgerMatchesRows, Direct
<1>6. ASSUME AdjustCustody(p, amount) \/ ReturnToRetained(p, amount) PROVE LedgerMatchesRows'
  <2>1. /\ balance' = [balance EXCEPT ![p] = balance[p] - amount]
        /\ UNCHANGED <<hasSafe, declared, sent, expense, deposit, card, paid>>
    BY <1>6 DEF AdjustCustody, ReturnToRetained
  <2>2. \A a \in Accounts: balance'[a] = IF a = p THEN balance[a] - amount ELSE balance[a]
    BY <2>1 DEF Inv, BalancesOK
  <2>3. /\ balance'[p] = balance[p] - amount
        /\ \A q \in People \ {p}: balance'[q] = balance[q]
        /\ balance'[Safe] = balance[Safe] /\ balance'[Bank] = balance[Bank]
    BY <2>2, AccountsOf
  <2>4. Carried' = Carried - balance[p] + balance'[p]
    BY <2>3, CarriedChange
  <2>5. /\ Spent' = Spent /\ Kept' = Kept /\ HandedOver' = HandedOver
        /\ OfSource("CUSTODY")' = OfSource("CUSTODY") /\ OfSource(Direct)' = OfSource(Direct)
    BY <2>1, ExpensesKept, DepositsKept, DeclaredKept
  <2>6. Carried' = HandedOver' + sent - OfSource("CUSTODY")' - removed' - adjusted'
    <3>1. Carried = HandedOver + sent - OfSource("CUSTODY") - removed - adjusted
      BY DEF LedgerMatchesRows
    <3>2. Carried' = Carried - amount
      BY <1>2, <1>3, <2>3, <2>4
    <3>3. \/ removed' = removed + amount /\ adjusted' = adjusted
          \/ removed' = removed /\ adjusted' = adjusted + amount
      BY <1>6 DEF AdjustCustody, ReturnToRetained
    <3>4. /\ HandedOver \in Int /\ OfSource("CUSTODY") \in Int /\ amount \in Int
          /\ sent \in Int /\ adjusted \in Int /\ removed \in Int
      BY <1>2, <1>3
    <3>5. Carried' = HandedOver + sent - OfSource("CUSTODY") - removed - adjusted - amount
      BY <3>1, <3>2, <3>4
    <3>6. Carried' = HandedOver + sent - OfSource("CUSTODY") - removed' - adjusted'
      BY <3>3, <3>4, <3>5
    <3>. QED  BY <2>5, <3>6
  <2>. QED  BY <2>1, <2>3, <2>5, <2>6 DEF LedgerMatchesRows, Direct
<1>. QED  BY <1>1, <1>4, <1>5, <1>6

\* What an expense that is paid, or annulled, moves.
LEMMA ExpenseMoves ==
    ASSUME Inv, Inv', NEW e \in Expenses, NEW row, NEW n \in Int,
           expense' = [expense EXCEPT ![e] = row],
           Active(row) = Active(expense[e]) + n,
           balance' = [balance EXCEPT ![Safe] = balance[Safe] - n],
           UNCHANGED <<hasSafe, declared, sent, deposit, adjusted, removed, card, paid>>
    PROVE  /\ Spent' = Spent + n
           /\ balance'[Safe] = balance[Safe] - n
           /\ LedgerMatchesRows => LedgerMatchesRows'
<1>1. Active(expense[e]) \in Int
  BY DEF Inv, RowsOK, ExpenseRows, Active
<1>2. Spent' = Spent - Active(expense[e]) + Active(row)
  BY ExpenseChange
<1>3. /\ Spent \in Int /\ Kept \in Int /\ OfSource(Direct) \in Int /\ balance[Safe] \in Int
  BY SumTypes, Figures, AccountsOf
<1>4. Spent' = Spent + n
  BY <1>1, <1>2, <1>3
<1>5. \A a \in Accounts: balance'[a] = IF a = Safe THEN balance[a] - n ELSE balance[a]
  BY DEF Inv, BalancesOK
<1>6. /\ balance'[Safe] = balance[Safe] - n /\ balance'[Bank] = balance[Bank]
      /\ \A p \in People: balance'[p] = balance[p]
  BY <1>5, AccountsOf
<1>7. /\ Carried' = Carried /\ Kept' = Kept /\ HandedOver' = HandedOver
      /\ OfSource("CUSTODY")' = OfSource("CUSTODY") /\ OfSource(Direct)' = OfSource(Direct)
  BY <1>6, CarriedKept, DepositsKept, DeclaredKept
<1>8. ASSUME hasSafe, LedgerMatchesRows
      PROVE  balance'[Safe] = Kept' - Spent' - OfSource(Direct)'
  <2>1. balance[Safe] = Kept - Spent - OfSource(Direct)
    BY <1>8 DEF LedgerMatchesRows, Direct
  <2>2. balance'[Safe] = Kept - (Spent + n) - OfSource(Direct)
    BY <1>3, <1>6, <2>1
  <2>. QED  BY <1>4, <1>7, <2>2
<1>9. LedgerMatchesRows => LedgerMatchesRows'
  BY <1>6, <1>7, <1>8 DEF LedgerMatchesRows, Direct
<1>. QED  BY <1>4, <1>6, <1>9

\* ... and what moves in ExpenseCommit and in VoidExpense.
LEMMA SpendMoves ==
    ASSUME Inv, Inv', Sound, NEW t \in Requests, req[t].pc = "spending", Spend(t)
    PROVE  /\ Spent' = Spent + req[t].amount
           /\ balance'[Safe] = balance[Safe] - req[t].amount
           /\ req[t].amount \in Nat
           /\ LedgerMatchesRows => LedgerMatchesRows'
<1>. DEFINE e == req[t].row
            n == req[t].amount
            row == [status |-> "ACTIVE", amount |-> n]
<1>1. e \in Expenses /\ n \in Nat
  BY DEF Sound, RequestsSound, Inv, RowsOK, RequestRows
<1>2. /\ expense' = [expense EXCEPT ![e] = row]
      /\ balance' = [balance EXCEPT ![Safe] = balance[Safe] - n]
      /\ UNCHANGED <<hasSafe, declared, sent, deposit, adjusted, removed, card, paid>>
      /\ Active(expense[e]) = 0
  BY DEF Spend, Active
<1>3. Active(row) = Active(expense[e]) + n
  BY <1>1, <1>2 DEF Active
<1>. HIDE DEF e, n, row
<1>4. n \in Int
  BY <1>1
<1>5. /\ Spent' = Spent + n
      /\ balance'[Safe] = balance[Safe] - n
      /\ LedgerMatchesRows => LedgerMatchesRows'
  BY <1>1, <1>2, <1>3, <1>4, ExpenseMoves
<1>. QED  BY <1>1, <1>5 DEF n

LEMMA VoidExpenseMoves ==
    ASSUME Inv, Inv', NEW e \in Expenses, VoidExpense(e)
    PROVE  /\ Spent' = Spent - expense[e].amount
           /\ balance'[Safe] = balance[Safe] + expense[e].amount
           /\ expense[e].amount \in Nat
           /\ LedgerMatchesRows => LedgerMatchesRows'
<1>. DEFINE n == expense[e].amount
            row == [expense[e] EXCEPT !.status = "VOIDED"]
<1>1. n \in Nat /\ balance[Safe] \in Int /\ Spent \in Int
  BY Figures, AccountsOf, SumTypes DEF Inv, RowsOK, ExpenseRows
<1>2. /\ expense' = [expense EXCEPT ![e] = row]
      /\ balance' = [balance EXCEPT ![Safe] = balance[Safe] + n]
      /\ UNCHANGED <<hasSafe, declared, sent, deposit, adjusted, removed, card, paid>>
  BY DEF VoidExpense
<1>3. Active(expense[e]) = n /\ Active(row) = 0
  BY DEF VoidExpense, Active, Inv, RowsOK, ExpenseRows
<1>. HIDE DEF n, row
<1>4. Active(row) = Active(expense[e]) + (-n) /\ -n \in Int
  BY <1>1, <1>3
<1>5. balance' = [balance EXCEPT ![Safe] = balance[Safe] - (-n)]
  <2>1. balance[Safe] + n = balance[Safe] - (-n)
    BY <1>1
  <2>. QED  BY <1>2, <2>1
<1>6. /\ Spent' = Spent + (-n)
      /\ balance'[Safe] = balance[Safe] - (-n)
      /\ LedgerMatchesRows => LedgerMatchesRows'
  BY <1>2, <1>4, <1>5, ExpenseMoves
<1>. QED  BY <1>1, <1>6 DEF n

\* Requests and approvals of expenses, and the locks, change no sum.
LEMMA PendingExpense ==
    ASSUME Inv, Inv', NEW e \in Expenses,
           \/ \E amount \in Amounts: RequestExpense(e, amount)
           \/ \E t \in Requests: ApproveExpense(t, e)
    PROVE  /\ Spent' = Spent
           /\ UNCHANGED <<hasSafe, declared, sent, deposit, adjusted, removed, card, paid,
                          balance>>
<1>. DEFINE row == expense'[e]
<1>1. Active(expense[e]) = 0 /\ Active(row) = 0
  BY DEF RequestExpense, ApproveExpense, Active, Inv, RowsOK, ExpenseRows
<1>2. /\ expense' = [expense EXCEPT ![e] = row]
      /\ UNCHANGED <<hasSafe, declared, sent, deposit, adjusted, removed, card, paid, balance>>
  BY DEF RequestExpense, ApproveExpense, Inv, RowsOK
<1>. HIDE DEF row
<1>3. Spent' = Spent - Active(expense[e]) + Active(row)
  BY <1>2, ExpenseChange
<1>4. Spent \in Int
  BY SumTypes
<1>. QED  BY <1>1, <1>2, <1>3, <1>4

LEMMA ExpenseLedger ==
    ASSUME Inv, Inv', Sound, LedgerMatchesRows, ExpenseSteps PROVE LedgerMatchesRows'
<1>1. ASSUME NEW e \in Expenses, NEW amount \in Amounts, RequestExpense(e, amount)
      PROVE  LedgerMatchesRows'
  BY <1>1, PendingExpense, LedgerKept
<1>2. ASSUME NEW t \in Requests, NEW e \in Expenses, ApproveExpense(t, e)
      PROVE  LedgerMatchesRows'
  BY <1>2, PendingExpense, LedgerKept
<1>3. ASSUME NEW t \in Requests, NEW e \in Expenses, NEW amount \in Amounts,
             ExpenseLock(t, e, amount)
      PROVE  LedgerMatchesRows'
  BY <1>3, LedgerKept, ExpensesKept DEF ExpenseLock, figures
<1>4. ASSUME NEW t \in Requests, ExecuteLock(t) PROVE LedgerMatchesRows'
  BY <1>4, LedgerKept, ExpensesKept DEF ExecuteLock, figures
<1>5. ASSUME NEW t \in Requests, ExpenseCommit(t) PROVE LedgerMatchesRows'
  BY <1>5, SpendMoves DEF ExpenseCommit
<1>6. ASSUME NEW e \in Expenses, VoidExpense(e) PROVE LedgerMatchesRows'
  BY <1>6, VoidExpenseMoves
<1>. QED  BY <1>1, <1>2, <1>3, <1>4, <1>5, <1>6 DEF ExpenseSteps

\* A direct deposit that is made (n = its amount), or annulled (n = -amount).
LEMMA DirectMoves ==
    ASSUME Inv, Inv', NEW d \in Deposits, NEW row, NEW n \in Int,
           deposit' = [deposit EXCEPT ![d] = row],
           Counts(row, Direct) = Counts(deposit[d], Direct) + n,
           Counts(row, "CUSTODY") = Counts(deposit[d], "CUSTODY"),
           \A a \in Accounts: balance'[a] = IF a = Safe /\ hasSafe THEN balance[a] - n
                                            ELSE IF a = Bank THEN balance[a] + n ELSE balance[a],
           UNCHANGED <<hasSafe, declared, sent, expense, adjusted, removed, card, paid>>
    PROVE  /\ OfSource(Direct)' = OfSource(Direct) + n
           /\ hasSafe => balance'[Safe] = balance[Safe] - n
           /\ LedgerMatchesRows => LedgerMatchesRows'
<1>1. Counts(deposit[d], Direct) \in Int /\ Counts(deposit[d], "CUSTODY") \in Int
  BY DEF Inv, RowsOK, DepositRows, Counts
<1>2. \A source: OfSource(source)' =
          OfSource(source) - Counts(deposit[d], source) + Counts(row, source)
  BY DepositChange
<1>3. /\ Spent \in Int /\ Kept \in Int /\ OfSource(Direct) \in Int /\ OfSource("CUSTODY") \in Int
      /\ balance[Safe] \in Int /\ balance[Bank] \in Int /\ paid \in Int /\ card.net \in Int
  BY SumTypes, Figures, AccountsOf
<1>4. OfSource(Direct)' = OfSource(Direct) + n
  <2>1. OfSource(Direct)' = OfSource(Direct) - Counts(deposit[d], Direct) + Counts(row, Direct)
    BY <1>2
  <2>. QED  BY <1>1, <1>3, <2>1
<1>5. OfSource("CUSTODY")' = OfSource("CUSTODY")
  <2>1. OfSource("CUSTODY")' =
            OfSource("CUSTODY") - Counts(deposit[d], "CUSTODY") + Counts(row, "CUSTODY")
    BY <1>2
  <2>. QED  BY <1>1, <1>3, <2>1
<1>6. /\ hasSafe => balance'[Safe] = balance[Safe] - n
      /\ balance'[Bank] = balance[Bank] + n
      /\ \A p \in People: balance'[p] = balance[p]
  BY AccountsOf
<1>7. Carried' = Carried /\ Kept' = Kept /\ HandedOver' = HandedOver /\ Spent' = Spent
  BY <1>6, CarriedKept, ExpensesKept, DeclaredKept
<1>8. ASSUME hasSafe, LedgerMatchesRows
      PROVE  balance'[Safe] = Kept' - Spent' - OfSource(Direct)'
  <2>1. balance[Safe] = Kept - Spent - OfSource(Direct)
    BY <1>8 DEF LedgerMatchesRows, Direct
  <2>2. balance'[Safe] = Kept - Spent - (OfSource(Direct) + n)
    BY <1>3, <1>6, <1>8, <2>1
  <2>. QED  BY <1>4, <1>7, <2>2
<1>9. ASSUME LedgerMatchesRows
      PROVE  balance'[Bank] = OfSource("CUSTODY")' + OfSource(Direct)' + card.net - paid
  <2>1. balance[Bank] = OfSource("CUSTODY") + OfSource(Direct) + card.net - paid
    BY <1>9 DEF LedgerMatchesRows, Direct
  <2>2. balance'[Bank] = OfSource("CUSTODY") + (OfSource(Direct) + n) + card.net - paid
    BY <1>3, <1>6, <2>1
  <2>. QED  BY <1>4, <1>5, <2>2
<1>10. LedgerMatchesRows => LedgerMatchesRows'
  BY <1>5, <1>6, <1>7, <1>8, <1>9 DEF LedgerMatchesRows, Direct
<1>. QED  BY <1>4, <1>6, <1>10

LEMMA DirectCommitMoves ==
    ASSUME Inv, Inv', Sound, NEW t \in Requests, DirectCommit(t)
    PROVE  /\ OfSource(Direct)' = OfSource(Direct) + req[t].amount
           /\ req[t].amount \in Nat
           /\ LedgerMatchesRows => LedgerMatchesRows'
<1>. DEFINE d == req[t].row
            n == req[t].amount
            row == [status |-> "POSTED", source |-> "DIRECT_FROM_RETAINED",
                    from |-> IF hasSafe THEN Safe ELSE req[t].person, amount |-> n]
<1>1. d \in Deposits /\ n \in Nat
  BY DEF DirectCommit, Sound, RequestsSound, Inv, RowsOK, RequestRows
<1>2. /\ deposit' = [deposit EXCEPT ![d] = row]
      /\ balance' = IF hasSafe THEN Move(Safe, Bank, n)
                    ELSE [balance EXCEPT ![Bank] = balance[Bank] + n]
      /\ UNCHANGED <<hasSafe, declared, sent, expense, adjusted, removed, card, paid>>
      /\ deposit[d].status = "NONE"
  BY DEF DirectCommit
<1>3. /\ Counts(deposit[d], Direct) = 0 /\ Counts(row, Direct) = n
      /\ Counts(deposit[d], "CUSTODY") = 0 /\ Counts(row, "CUSTODY") = 0
  BY <1>2 DEF Counts, Direct
<1>. HIDE DEF d, n, row
<1>4. n \in Int /\ Counts(row, Direct) = Counts(deposit[d], Direct) + n
  BY <1>1, <1>3
<1>5. \A a \in Accounts: balance'[a] = IF a = Safe /\ hasSafe THEN balance[a] - n
                                       ELSE IF a = Bank THEN balance[a] + n ELSE balance[a]
  <2>1. CASE hasSafe
    BY <1>2, <1>4, <2>1, MoveValues, AccountsOf
  <2>2. CASE ~hasSafe
    BY <1>2, <2>2, AccountsOf DEF Inv, BalancesOK
  <2>. QED  BY <2>1, <2>2
<1>6. /\ OfSource(Direct)' = OfSource(Direct) + n
      /\ LedgerMatchesRows => LedgerMatchesRows'
  BY <1>1, <1>2, <1>3, <1>4, <1>5, DirectMoves
<1>. QED  BY <1>1, <1>6 DEF n

\* An annulment gives back to the custody, or to the safe if there is one.
LEMMA VoidDepositMoves ==
    ASSUME Inv, Inv', Sound, NEW d \in Deposits, VoidBankDeposit(d)
    PROVE  /\ OfSource(Direct)' = OfSource(Direct) - Counts(deposit[d], Direct)
           /\ Counts(deposit[d], Direct) \in Nat
           /\ hasSafe => balance'[Safe] = balance[Safe] + Counts(deposit[d], Direct)
           /\ LedgerMatchesRows => LedgerMatchesRows'
<1>. DEFINE n == deposit[d].amount
            p == deposit[d].from
            row == [deposit[d] EXCEPT !.status = "VOIDED"]
<1>1. /\ deposit[d] \in DepositRows /\ n \in Nat /\ deposit[d].status = "POSTED"
      /\ deposit[d].source \in {"CUSTODY", Direct}
  BY DEF VoidBankDeposit, Inv, RowsOK, DepositRows, Direct
<1>2. /\ deposit' = [deposit EXCEPT ![d] = row]
      /\ UNCHANGED <<hasSafe, declared, sent, expense, adjusted, removed, card, paid>>
  BY DEF VoidBankDeposit
<1>3. \A source: Counts(row, source) = 0
                 /\ Counts(deposit[d], source) = IF deposit[d].source = source THEN n ELSE 0
  BY <1>1 DEF Counts, DepositRows
<1>4. CASE deposit[d].source = Direct
  <2>1. p = Safe <=> hasSafe
    BY <1>1, <1>4 DEF Sound, RowsSound, Direct
  <2>2. balance' = IF hasSafe THEN Move(Bank, Safe, n)
                   ELSE [balance EXCEPT ![Bank] = balance[Bank] - n]
    BY <1>4, <2>1 DEF VoidBankDeposit, Direct
  <2>3. /\ Counts(deposit[d], Direct) = n /\ Counts(row, Direct) = 0
        /\ Counts(deposit[d], "CUSTODY") = 0 /\ Counts(row, "CUSTODY") = 0
    BY <1>3, <1>4 DEF Direct
  <2>. HIDE DEF n, p, row
  <2>4. n \in Int /\ -n \in Int /\ Counts(row, Direct) = Counts(deposit[d], Direct) + (-n)
    BY <1>1, <2>3
  <2>5. \A a \in Accounts: balance'[a] = IF a = Safe /\ hasSafe THEN balance[a] + n
                                         ELSE IF a = Bank THEN balance[a] - n ELSE balance[a]
    <3>1. CASE hasSafe
      BY <2>2, <2>4, <3>1, MoveValues, AccountsOf
    <3>2. CASE ~hasSafe
      BY <2>2, <3>2, AccountsOf DEF Inv, BalancesOK
    <3>. QED  BY <3>1, <3>2
  <2>6. \A a \in Accounts: balance'[a] = IF a = Safe /\ hasSafe THEN balance[a] - (-n)
                                         ELSE IF a = Bank THEN balance[a] + (-n) ELSE balance[a]
    BY <1>1, <2>5, Figures
  <2>7. /\ OfSource(Direct)' = OfSource(Direct) + (-n)
        /\ hasSafe => balance'[Safe] = balance[Safe] - (-n)
        /\ LedgerMatchesRows => LedgerMatchesRows'
    BY <1>2, <2>3, <2>4, <2>6, DirectMoves
  <2>8. OfSource(Direct) \in Int /\ balance[Safe] \in Int
    BY SumTypes, Figures, AccountsOf
  <2>9. OfSource(Direct)' = OfSource(Direct) - n /\ (hasSafe => balance'[Safe] = balance[Safe] + n)
    BY <1>1, <2>7, <2>8
  <2>. QED  BY <1>1, <2>3, <2>7, <2>9
<1>5. CASE deposit[d].source = "CUSTODY"
  <2>1. p \in People
    BY <1>1, <1>5 DEF Sound, RowsSound
  <2>2. balance' = Move(Bank, p, n)
    BY <1>5 DEF VoidBankDeposit
  <2>3. /\ Counts(deposit[d], Direct) = 0 /\ Counts(row, Direct) = 0
        /\ Counts(deposit[d], "CUSTODY") = n /\ Counts(row, "CUSTODY") = 0
    BY <1>3, <1>5 DEF Direct
  <2>. HIDE DEF n, p, row
  <2>4. \A c \in Accounts: balance'[c] = IF c = Bank THEN balance[c] - n
                                         ELSE IF c = p THEN balance[c] + n ELSE balance[c]
    BY <1>1, <2>1, <2>2, MoveValues, AccountsOf
  <2>5. /\ balance'[p] = balance[p] + n
        /\ \A q \in People \ {p}: balance'[q] = balance[q]
        /\ balance'[Safe] = balance[Safe] /\ balance'[Bank] = balance[Bank] - n
    BY <2>1, <2>4, AccountsOf
  <2>6. Carried' = Carried - balance[p] + balance'[p]
    BY <2>1, <2>5, CarriedChange
  <2>7. \A source: OfSource(source)' =
            OfSource(source) - Counts(deposit[d], source) + Counts(row, source)
    BY <1>2, DepositChange
  <2>8. /\ OfSource("CUSTODY")' = OfSource("CUSTODY") - n + 0
        /\ OfSource(Direct)' = OfSource(Direct) - 0 + 0
    BY <2>3, <2>7
  <2>9. /\ HandedOver \in Int /\ Carried \in Int /\ OfSource("CUSTODY") \in Int
        /\ OfSource(Direct) \in Int /\ sent \in Int /\ adjusted \in Int /\ removed \in Int
        /\ paid \in Int /\ card.net \in Int /\ balance[Bank] \in Int /\ balance[Safe] \in Int
        /\ balance[p] \in Int
    BY <2>1, SumTypes, Figures, AccountsOf
  <2>10. Spent' = Spent /\ Kept' = Kept /\ HandedOver' = HandedOver
    BY <1>2, ExpensesKept, DeclaredKept
  <2>11. OfSource(Direct)' = OfSource(Direct) /\ OfSource("CUSTODY")' = OfSource("CUSTODY") - n
    BY <1>1, <2>8, <2>9
  <2>12. Carried' = Carried + n
    BY <1>1, <2>5, <2>6, <2>9
  <2>13. LedgerMatchesRows => Carried' = HandedOver' + sent - OfSource("CUSTODY")' - removed - adjusted
    BY <1>1, <2>9, <2>10, <2>11, <2>12 DEF LedgerMatchesRows
  <2>14. LedgerMatchesRows =>
            balance'[Bank] = OfSource("CUSTODY")' + OfSource(Direct)' + card.net - paid
    BY <1>1, <2>5, <2>9, <2>11 DEF LedgerMatchesRows, Direct
  <2>15. LedgerMatchesRows => LedgerMatchesRows'
    BY <1>2, <2>5, <2>10, <2>11, <2>13, <2>14 DEF LedgerMatchesRows, Direct
  <2>. QED  BY <2>3, <2>5, <2>9, <2>11, <2>15
<1>. QED  BY <1>1, <1>4, <1>5

LEMMA DepositLedger ==
    ASSUME Inv, Inv', Sound, LedgerMatchesRows, DepositSteps PROVE LedgerMatchesRows'
<1>1. ASSUME NEW t \in Requests, NEW d \in Deposits, NEW p \in People, NEW amount \in Amounts,
             DirectLock(t, d, p, amount)
      PROVE  LedgerMatchesRows'
  BY <1>1, LedgerKept, ExpensesKept DEF DirectLock, figures
<1>2. ASSUME NEW t \in Requests, DirectCommit(t) PROVE LedgerMatchesRows'
  BY <1>2, DirectCommitMoves
<1>3. ASSUME NEW d \in Deposits, VoidBankDeposit(d) PROVE LedgerMatchesRows'
  BY <1>3, VoidDepositMoves
<1>. QED  BY <1>1, <1>2, <1>3 DEF DepositSteps

LEMMA BankLedger ==
    ASSUME Inv, Inv', LedgerMatchesRows, BankSteps
    PROVE  LedgerMatchesRows' /\ balance'[Safe] = balance[Safe]
<1>1. PICK amount \in Amounts:
        \/ CardSale(amount)
        \/ \E fee \in 0..MaxAmount: ConfirmCardSettlement(amount, fee)
        \/ \E allowNegativeBalance \in BOOLEAN: PayFromBank(amount, allowNegativeBalance)
  BY DEF BankSteps
<1>2. amount \in Nat
  BY TreasuryAssumption DEF Amounts
<1>3. /\ OfSource("CUSTODY") \in Int /\ OfSource(Direct) \in Int /\ paid \in Int
      /\ card.net \in Int /\ balance[Bank] \in Int
  BY SumTypes, Figures, AccountsOf
<1>4. ASSUME UNCHANGED <<hasSafe, declared, sent, expense, deposit, adjusted, removed>>,
             \A p \in People: balance'[p] = balance[p], balance'[Safe] = balance[Safe],
             balance'[Bank] - card'.net + paid' = balance[Bank] - card.net + paid,
             balance'[Bank] \in Int, card'.net \in Int, paid' \in Int
      PROVE  LedgerMatchesRows'
  <2>1. /\ Carried' = Carried /\ Kept' = Kept /\ HandedOver' = HandedOver /\ Spent' = Spent
        /\ OfSource("CUSTODY")' = OfSource("CUSTODY") /\ OfSource(Direct)' = OfSource(Direct)
    BY <1>4, CarriedKept, ExpensesKept, DeclaredKept, DepositsKept
  <2>2. balance[Bank] = OfSource("CUSTODY") + OfSource(Direct) + card.net - paid
    BY DEF LedgerMatchesRows, Direct
  <2>3. balance'[Bank] = OfSource("CUSTODY") + OfSource(Direct) + card'.net - paid'
    BY <1>3, <1>4, <2>2
  <2>. QED  BY <1>4, <2>1, <2>3 DEF LedgerMatchesRows, Direct
<1>5. CASE CardSale(amount)
  <2>1. \A a \in Accounts: balance'[a] = IF a = Settlement THEN balance[a] + amount ELSE balance[a]
    BY <1>5 DEF CardSale, Inv, BalancesOK
  <2>2. /\ \A p \in People: balance'[p] = balance[p]
        /\ balance'[Safe] = balance[Safe] /\ balance'[Bank] = balance[Bank]
    BY <2>1, AccountsOf
  <2>3. card'.net = card.net /\ paid' = paid
    BY <1>5 DEF CardSale, Inv, RowsOK
  <2>. QED  BY <1>3, <1>4, <1>5, <2>2, <2>3 DEF CardSale
<1>6. ASSUME NEW fee \in 0..MaxAmount, ConfirmCardSettlement(amount, fee)
      PROVE  LedgerMatchesRows' /\ balance'[Safe] = balance[Safe]
  <2>1. fee \in Nat
    BY TreasuryAssumption
  <2>2. \A a \in Accounts: balance'[a] = IF a = Bank THEN balance[a] + amount - fee
                                         ELSE IF a = Settlement THEN balance[a] - amount - fee
                                         ELSE balance[a]
    BY <1>6, AccountsOf DEF ConfirmCardSettlement, Inv, BalancesOK
  <2>3. /\ \A p \in People: balance'[p] = balance[p]
        /\ balance'[Safe] = balance[Safe] /\ balance'[Bank] = balance[Bank] + amount - fee
    BY <2>2, AccountsOf
  <2>4. card'.net = card.net + amount - fee /\ paid' = paid
    BY <1>6 DEF ConfirmCardSettlement, Inv, RowsOK
  <2>5. /\ balance'[Bank] - card'.net + paid' = balance[Bank] - card.net + paid
        /\ balance'[Bank] \in Int /\ card'.net \in Int /\ paid' \in Int
    BY <1>2, <1>3, <2>1, <2>3, <2>4
  <2>6. UNCHANGED <<hasSafe, declared, sent, expense, deposit, adjusted, removed>>
    BY <1>6 DEF ConfirmCardSettlement
  <2>. QED  BY <1>4, <2>3, <2>5, <2>6
<1>7. ASSUME NEW allowNegativeBalance \in BOOLEAN, PayFromBank(amount, allowNegativeBalance)
      PROVE  LedgerMatchesRows' /\ balance'[Safe] = balance[Safe]
  <2>1. \A a \in Accounts: balance'[a] = IF a = Bank THEN balance[a] - amount ELSE balance[a]
    BY <1>7 DEF PayFromBank, Inv, BalancesOK
  <2>2. /\ \A p \in People: balance'[p] = balance[p]
        /\ balance'[Safe] = balance[Safe] /\ balance'[Bank] = balance[Bank] - amount
    BY <2>1, AccountsOf
  <2>. QED  BY <1>2, <1>3, <1>4, <1>7, <2>2 DEF PayFromBank
<1>. QED  BY <1>1, <1>5, <1>6, <1>7

LEMMA InitSums ==
    ASSUME Init
    PROVE  /\ Awaiting = 0 /\ InFund = 0 /\ Kept = 0 /\ HandedOver = 0 /\ Spent = 0
           /\ OfSource("CUSTODY") = 0 /\ OfSource(Direct) = 0 /\ Carried = 0
<1>. DEFINE zero(S) == [x \in S |-> 0]
<1>1. ASSUME NEW S, IsFiniteSet(S) PROVE SumFunction(zero(S)) = 0
  <2>1. zero(S) \in [S -> Int] /\ \A x \in S: zero(S)[x] = 0
    OBVIOUS
  <2>. HIDE DEF zero
  <2>. QED  BY <1>1, <2>1, SumOfZeros
<1>2. RetainOf(Null) = 0 /\ FundPortion(Null) = 0 /\ AwaitingDeposit(Null) = 0 /\ OutOf(Null) = 0
  BY TreasuryAssumption DEF RetainOf, FundPortion, AwaitingDeposit, OutOf
<1>3. \A s \in Sessions: declared[s] = Null
  BY DEF Init
<1>4. /\ Awaiting = SumFunction(zero(Sessions)) /\ InFund = SumFunction(zero(Sessions))
      /\ Kept = SumFunction(zero(Sessions)) /\ HandedOver = SumFunction(zero(Sessions))
  <2>1. /\ [s \in Sessions |-> AwaitingDeposit(declared[s])] = zero(Sessions)
        /\ [s \in Sessions |-> FundPortion(declared[s])] = zero(Sessions)
        /\ [s \in Sessions |-> RetainOf(declared[s])] = zero(Sessions)
        /\ [s \in Sessions |-> OutOf(declared[s])] = zero(Sessions)
    BY <1>2, <1>3
  <2>. HIDE DEF zero
  <2>. QED  BY <2>1, Zenon DEF Awaiting, InFund, Kept, HandedOver
<1>5. Spent = SumFunction(zero(Expenses))
  <2>1. [e \in Expenses |-> IF expense[e].status = "ACTIVE" THEN expense[e].amount ELSE 0]
            = zero(Expenses)
    BY DEF Init, NoExpense
  <2>. HIDE DEF zero
  <2>. QED  BY <2>1, Zenon DEF Spent
<1>6. \A source: OfSource(source) = SumFunction(zero(Deposits))
  <2>. SUFFICES ASSUME NEW source PROVE OfSource(source) = SumFunction(zero(Deposits))
    OBVIOUS
  <2>1. [d \in Deposits |-> IF deposit[d].status = "POSTED" /\ deposit[d].source = source
                            THEN deposit[d].amount ELSE 0]
            = zero(Deposits)
    BY DEF Init, NoDeposit
  <2>. HIDE DEF zero
  <2>. QED  BY <2>1, Zenon DEF OfSource
<1>7. Carried = SumFunction(zero(People))
  <2>1. [p \in People |-> balance[p]] = zero(People)
    BY DEF Init, Accounts
  <2>. HIDE DEF zero
  <2>. QED  BY <2>1, Zenon DEF Carried
<1>. HIDE DEF zero
<1>. QED  BY <1>1, <1>4, <1>5, <1>6, <1>7, TreasuryAssumption

LEMMA InitLedger == Init => LedgerMatchesRows
<1>. SUFFICES ASSUME Init PROVE LedgerMatchesRows
  OBVIOUS
<1>1. /\ balance[Safe] = 0 /\ balance[Bank] = 0 /\ sent = 0 /\ removed = 0 /\ adjusted = 0
      /\ card.net = 0 /\ paid = 0
  BY AccountsOf DEF Init
<1>. QED  BY <1>1, InitSums DEF LedgerMatchesRows, Direct

LEMMA NextLedger ==
    Inv /\ Inv' /\ Sound /\ LedgerMatchesRows /\ [Next]_vars => LedgerMatchesRows'
<1>. SUFFICES ASSUME Inv, Inv', Sound, LedgerMatchesRows, [Next]_vars PROVE LedgerMatchesRows'
  OBVIOUS
<1>1. CASE UNCHANGED vars
  BY <1>1, LedgerKept, ExpensesKept DEF vars, figures
<1>2. ASSUME NEW t \in Requests, Abort(t) PROVE LedgerMatchesRows'
  BY <1>2, LedgerKept, ExpensesKept DEF Abort, figures
<1>. QED  BY <1>1, <1>2, SessionLedger, CustodyLedger, ExpenseLedger, DepositLedger, BankLedger
          DEF Next

LEMMA SpecLedger == Spec => []LedgerMatchesRows
<1>. QED  BY SpecInv, SpecSound, InitLedger, NextLedger, PTL DEF Spec

-----------------------------------------------------------------------------
(* Retained cash is not used twice.                                        *)

\* The amounts in flight are there: the safe is locked by an expense since it
\* compared them, the branch by a direct deposit.
Funded ==
    /\ \A t \in Requests:
           /\ req[t].pc = "spending" => req[t].amount <= balance[Safe]
           /\ req[t].pc = "depositing" => req[t].amount <= Retained
    /\ RetainedCovered

LEMMA RetainedTypes ==
    ASSUME Inv
    PROVE  /\ Retained \in Int /\ InFund \in Nat /\ balance[Safe] \in Int /\ adjusted \in Nat
           /\ Awaiting \in Int /\ Spent \in Int /\ OfSource(Direct) \in Int
           /\ \A t \in Requests: req[t].amount \in Nat
<1>1. /\ InFund \in Nat /\ balance[Safe] \in Int /\ adjusted \in Nat
      /\ Awaiting \in Int /\ Spent \in Int /\ OfSource(Direct) \in Int
  BY SumTypes, Figures, AccountsOf DEF Inv, RowsOK
<1>2. \A t \in Requests: req[t].amount \in Nat
  BY DEF Inv, RowsOK, RequestRows
<1>3. Retained \in Int
  BY <1>1 DEF Retained, Direct
<1>. QED  BY <1>1, <1>2, <1>3

LEMMA RetainedTypesNext == Inv' => Retained' \in Int /\ InFund' \in Nat /\ balance'[Safe] \in Int
<1>1. (Inv => Retained \in Int /\ InFund \in Nat /\ balance[Safe] \in Int)'
  BY RetainedTypes, PTL
<1>. QED  BY <1>1

\* With a safe, what is retained is in it, or came back from a custody.
LEMMA RetainedIsInSafe ==
    ASSUME Inv, LedgerMatchesRows, hasSafe
    PROVE  Retained + InFund = balance[Safe] + adjusted
<1>1. Kept = Awaiting + InFund /\ balance[Safe] = Kept - Spent - OfSource(Direct)
  BY SumTypes DEF LedgerMatchesRows, Direct
<1>2. Retained = Awaiting - Spent - OfSource(Direct) + adjusted
  BY DEF Retained, Direct
<1>. QED  BY <1>1, <1>2, RetainedTypes

\* A step that takes nothing, and after which no amount is in flight that was
\* not before.
LEMMA FundedKept ==
    ASSUME Inv, Inv', Funded,
           Retained' >= Retained \/ ~\E t \in Requests: req'[t].pc = "depositing",
           Retained' + InFund' >= Retained + InFund, balance'[Safe] >= balance[Safe],
           \A t \in Requests: req'[t] = req[t] \/ req'[t].pc \in {"idle", "approved"}
    PROVE  Funded'
<1>1. /\ Retained \in Int /\ InFund \in Int /\ balance[Safe] \in Int
      /\ Retained' \in Int /\ InFund' \in Int /\ balance'[Safe] \in Int
      /\ \A t \in Requests: req[t].amount \in Nat
  BY RetainedTypes, RetainedTypesNext
<1>2. RetainedCovered'
  <2>1. Retained + InFund >= 0
    BY DEF Funded, RetainedCovered
  <2>2. Retained + InFund \in Int /\ Retained' + InFund' \in Int
    BY <1>1
  <2>3. \A x, y \in Int: x >= 0 /\ y >= x => y >= 0
    OBVIOUS
  <2>4. Retained' + InFund' >= 0
    BY <2>1, <2>2, <2>3, Zenon
  <2>. QED  BY <2>4 DEF RetainedCovered
<1>3. ASSUME NEW t \in Requests
      PROVE  /\ req'[t].pc = "spending" => req'[t].amount <= balance'[Safe]
             /\ req'[t].pc = "depositing" => req'[t].amount <= Retained'
  <2>1. CASE req'[t] = req[t]
    <3>1. /\ req[t].pc = "spending" => req[t].amount <= balance[Safe]
          /\ req[t].pc = "depositing" => req[t].amount <= Retained
      BY DEF Funded
    <3>. QED  BY <1>1, <2>1, <3>1
  <2>2. CASE req'[t].pc \in {"idle", "approved"}
    BY <2>2
  <2>. QED  BY <2>1, <2>2
<1>. QED  BY <1>2, <1>3 DEF Funded

\* A step that changes no sum and leaves the requests alone, or ends one.
LEMMA FundedUnchanged ==
    ASSUME Inv, Inv', Funded, UNCHANGED <<declared, deposit, adjusted>>, Spent' = Spent,
           balance'[Safe] = balance[Safe],
           \A t \in Requests: req'[t] = req[t] \/ req'[t].pc \in {"idle", "approved"}
    PROVE  Funded'
<1>1. Awaiting' = Awaiting /\ InFund' = InFund /\ OfSource(Direct)' = OfSource(Direct)
  BY DeclaredKept, DepositsKept
<1>2. Retained' = Retained
  BY <1>1 DEF Retained, Direct
<1>. QED  BY <1>1, <1>2, RetainedTypes, FundedKept

\* A step that starts to work on an amount that is there.
LEMMA FundedLock ==
    ASSUME Inv, Inv', Funded, NEW t \in Requests, NEW r, req' = [req EXCEPT ![t] = r],
           UNCHANGED <<hasSafe, figures, balance>>,
           r.pc = "spending" => r.amount <= balance[Safe],
           r.pc = "depositing" => r.amount <= Retained
    PROVE  Funded'
<1>1. /\ Awaiting' = Awaiting /\ InFund' = InFund /\ OfSource(Direct)' = OfSource(Direct)
      /\ Spent' = Spent
  BY DeclaredKept, DepositsKept, ExpensesKept DEF figures
<1>2. Retained' = Retained
  BY <1>1 DEF Retained, Direct, figures
<1>3. \A u \in Requests: req'[u] = IF u = t THEN r ELSE req[u]
  BY DEF Inv, RowsOK
<1>. QED  BY <1>1, <1>2, <1>3 DEF Funded, RetainedCovered

LEMMA DeclarationFunded ==
    ASSUME Inv, Inv', Funded, NEW s \in Sessions, declared[s] = Null,
           NEW row \in Declarations, Declaration(s, row),
           UNCHANGED <<hasSafe, expense, deposit, adjusted, req>>
    PROVE  Funded'
<1>1. /\ Awaiting' = Awaiting + AwaitingDeposit(row)
      /\ InFund' = InFund + FundPortion(row)
      /\ AwaitingDeposit(row) \in Nat /\ FundPortion(row) \in Nat
  BY DeclarationChanges
<1>2. balance'[Safe] >= balance[Safe]
  <2>1. balance'[Safe] = balance[Safe] + (IF hasSafe THEN row.retain ELSE 0)
    BY AccountsOf DEF Declaration
  <2>2. row.retain \in Nat
    BY DEF Declarations
  <2>. QED  BY <2>1, <2>2, RetainedTypes
<1>3. Spent' = Spent /\ OfSource(Direct)' = OfSource(Direct)
  BY ExpensesKept, DepositsKept
<1>4. Retained' = Retained + AwaitingDeposit(row)
  BY <1>1, <1>3, RetainedTypes DEF Retained, Direct
<1>. QED  BY <1>1, <1>2, <1>4, RetainedTypes, FundedKept

LEMMA SessionFunded ==
    ASSUME Inv, Inv', Sound, Funded, SessionSteps PROVE Funded'
<1>1. PICK s \in Sessions:
        \/ \E c \in 0..MaxAmount: Close(s, c) \/ Review(s, c)
        \/ AutoClose(s)
        \/ \E p \in People, amount \in Amounts: SendCashOut(s, p, amount)
        \/ \E row \in CountedRows: Declare(s, row)
  BY DEF SessionSteps
<1>2. ASSUME NEW c \in 0..MaxAmount, Close(s, c) PROVE Funded'
  BY <1>2, FundedUnchanged, ExpensesKept DEF Close
<1>3. ASSUME NEW c \in 0..MaxAmount, Review(s, c) PROVE Funded'
  <2>. DEFINE row == [auto |-> TRUE, out |-> [p \in People |-> 0], retain |-> c]
  <2>1. row \in Declarations
    BY TreasuryAssumption DEF Declarations
  <2>2. declared[s] = Null
    BY <1>3, NotDeclared DEF Review
  <2>3. Declaration(s, row) /\ UNCHANGED <<hasSafe, expense, deposit, adjusted, req>>
    BY <1>3 DEF Review
  <2>. HIDE DEF row
  <2>. QED  BY <2>1, <2>2, <2>3, DeclarationFunded
<1>4. CASE AutoClose(s)
  BY <1>4, FundedUnchanged, ExpensesKept DEF AutoClose
<1>5. ASSUME NEW p \in People, NEW amount \in Amounts, SendCashOut(s, p, amount)
      PROVE  Funded'
  <2>1. balance'[Safe] = balance[Safe]
    BY <1>5, AccountsOf DEF SendCashOut, Inv, BalancesOK
  <2>. QED  BY <1>5, <2>1, FundedUnchanged, ExpensesKept DEF SendCashOut
<1>6. ASSUME NEW row \in CountedRows, Declare(s, row) PROVE Funded'
  <2>1. row \in Declarations
    BY CountedRowsTyped
  <2>2. declared[s] = Null
    BY <1>6, NotDeclared DEF Declare
  <2>3. Declaration(s, row) /\ UNCHANGED <<hasSafe, expense, deposit, adjusted, req>>
    BY <1>6 DEF Declare
  <2>. QED  BY <2>1, <2>2, <2>3, DeclarationFunded
<1>. QED  BY <1>1, <1>2, <1>3, <1>4, <1>5, <1>6

LEMMA CustodyFunded ==
    ASSUME Inv, Inv', Sound, Funded, CustodySteps PROVE Funded'
<1>1. PICK p \in People, amount \in Amounts:
        \/ \E q \in People: ConfirmReceipt(p, q, amount)
        \/ \E d \in Deposits: ConfirmBankDeposit(d, p, amount)
        \/ AdjustCustody(p, amount)
        \/ ReturnToRetained(p, amount)
  BY DEF CustodySteps
<1>2. amount \in Nat
  BY TreasuryAssumption DEF Amounts
<1>3. ASSUME NEW q \in People, ConfirmReceipt(p, q, amount) PROVE Funded'
  <2>1. balance'[Safe] = balance[Safe]
    BY <1>2, <1>3, MoveValues, AccountsOf DEF ConfirmReceipt
  <2>. QED  BY <1>3, <2>1, FundedUnchanged, ExpensesKept DEF ConfirmReceipt, figures
<1>4. ASSUME NEW d \in Deposits, ConfirmBankDeposit(d, p, amount) PROVE Funded'
  <2>. DEFINE row == [status |-> "POSTED", source |-> "CUSTODY", from |-> p, amount |-> amount]
  <2>1. /\ deposit[d].status = "NONE"
        /\ deposit' = [deposit EXCEPT ![d] = row]
        /\ balance' = Move(p, Bank, amount)
        /\ UNCHANGED <<declared, expense, adjusted, req>>
    BY <1>4 DEF ConfirmBankDeposit
  <2>2. Counts(deposit[d], Direct) = 0 /\ Counts(row, Direct) = 0
    BY <2>1 DEF Counts, Direct
  <2>. HIDE DEF row
  <2>3. OfSource(Direct)' = OfSource(Direct) - Counts(deposit[d], Direct) + Counts(row, Direct)
    BY <2>1, DepositChange
  <2>4. OfSource(Direct)' = OfSource(Direct)
    BY <2>2, <2>3, RetainedTypes
  <2>5. Awaiting' = Awaiting /\ InFund' = InFund /\ Spent' = Spent
    BY <2>1, DeclaredKept, ExpensesKept
  <2>6. Retained' = Retained
    BY <2>1, <2>4, <2>5 DEF Retained, Direct
  <2>7. balance'[Safe] = balance[Safe]
    BY <1>2, <2>1, MoveValues, AccountsOf
  <2>. QED  BY <2>1, <2>5, <2>6, <2>7, RetainedTypes, FundedKept
<1>5. ASSUME AdjustCustody(p, amount) \/ ReturnToRetained(p, amount) PROVE Funded'
  <2>1. /\ balance'[Safe] = balance[Safe]
        /\ UNCHANGED <<declared, expense, deposit, req>>
    BY <1>5, AccountsOf DEF AdjustCustody, ReturnToRetained, Inv, BalancesOK
  <2>2. adjusted' \in Int /\ adjusted' >= adjusted
    BY <1>2, <1>5, RetainedTypes DEF AdjustCustody, ReturnToRetained
  <2>3. /\ Awaiting' = Awaiting /\ InFund' = InFund /\ Spent' = Spent
        /\ OfSource(Direct)' = OfSource(Direct)
    BY <2>1, DeclaredKept, ExpensesKept, DepositsKept
  <2>4. Retained' >= Retained
    BY <2>2, <2>3, RetainedTypes DEF Retained, Direct
  <2>5. Retained' + InFund' >= Retained + InFund
    BY <2>3, <2>4, RetainedTypes, RetainedTypesNext
  <2>. QED  BY <2>1, <2>4, <2>5, RetainedTypes, FundedKept
<1>. QED  BY <1>1, <1>3, <1>4, <1>5

\* An expense takes what it compared from the safe; no deposit is in flight.
LEMMA SpendFunded ==
    ASSUME Inv, Inv', Sound, LedgerMatchesRows, LedgerMatchesRows', Funded,
           NEW t \in Requests, ExpenseCommit(t)
    PROVE  Funded'
<1>1. /\ req[t].pc = "spending" /\ ~BranchLocked /\ Spend(t)
      /\ req' = [req EXCEPT ![t] = Idle] /\ UNCHANGED <<hasSafe, adjusted>>
  BY DEF ExpenseCommit, Spend
<1>2. hasSafe
  BY <1>1 DEF Sound, RequestsSound
<1>3. /\ balance'[Safe] = balance[Safe] - req[t].amount
      /\ req[t].amount <= balance[Safe]
  BY <1>1, SpendMoves DEF Funded
<1>4. balance'[Safe] >= 0
  BY <1>3, RetainedTypes
<1>5. Retained' + InFund' = balance'[Safe] + adjusted'
  <2>1. (Inv /\ LedgerMatchesRows /\ hasSafe => Retained + InFund = balance[Safe] + adjusted)'
    BY RetainedIsInSafe, PTL
  <2>. QED  BY <1>1, <1>2, <2>1
<1>6. RetainedCovered'
  <2>1. Retained' + InFund' >= 0
    BY <1>1, <1>4, <1>5, RetainedTypes, RetainedTypesNext
  <2>. QED  BY <2>1 DEF RetainedCovered
<1>7. ASSUME NEW u \in Requests PROVE req'[u].pc \notin {"spending", "depositing"}
  <2>1. CASE u = t
    BY <1>1, <2>1 DEF Inv, RowsOK, Idle
  <2>2. CASE u # t
    <3>1. req'[u] = req[u]
      BY <1>1, <2>2 DEF Inv, RowsOK
    <3>2. req[u].pc # "spending" /\ req[u].pc # "depositing"
      BY <1>1, <2>2 DEF Sound, RequestsSound, BranchLocked
    <3>. QED  BY <3>1, <3>2
  <2>. QED  BY <2>1, <2>2
<1>. QED  BY <1>6, <1>7 DEF Funded

\* A direct deposit takes what it added up; no expense is in flight, or there is
\* no safe to pay it from.
LEMMA DirectFunded ==
    ASSUME Inv, Inv', Sound, Funded, NEW t \in Requests, DirectCommit(t)
    PROVE  Funded'
<1>1. /\ req[t].pc = "depositing" /\ (hasSafe => ~SafeLocked)
      /\ req' = [req EXCEPT ![t] = Idle] /\ UNCHANGED <<hasSafe, declared, expense, adjusted>>
  BY DEF DirectCommit
<1>2. OfSource(Direct)' = OfSource(Direct) + req[t].amount /\ req[t].amount \in Nat
  BY DirectCommitMoves
<1>3. Awaiting' = Awaiting /\ InFund' = InFund /\ Spent' = Spent
  BY <1>1, DeclaredKept, ExpensesKept
<1>4. Retained' = Retained - req[t].amount
  BY <1>1, <1>2, <1>3, RetainedTypes DEF Retained, Direct
<1>5. req[t].amount <= Retained
  BY <1>1 DEF Funded
<1>6. RetainedCovered'
  <2>1. Retained' + InFund' >= 0
    BY <1>3, <1>4, <1>5, RetainedTypes
  <2>. QED  BY <2>1 DEF RetainedCovered
<1>7. ASSUME NEW u \in Requests PROVE req'[u].pc \notin {"spending", "depositing"}
  <2>1. CASE u = t
    BY <1>1, <2>1 DEF Inv, RowsOK, Idle
  <2>2. CASE u # t
    <3>1. req'[u] = req[u]
      BY <1>1, <2>2 DEF Inv, RowsOK
    <3>2. req[u].pc # "spending" /\ req[u].pc # "depositing"
      BY <1>1, <2>2 DEF Sound, RequestsSound, SafeLocked
    <3>. QED  BY <3>1, <3>2
  <2>. QED  BY <2>1, <2>2
<1>. QED  BY <1>6, <1>7 DEF Funded

LEMMA ExpenseFunded ==
    ASSUME Inv, Inv', Sound, LedgerMatchesRows, LedgerMatchesRows', Funded, ExpenseSteps
    PROVE  Funded'
<1>1. ASSUME NEW e \in Expenses, NEW amount \in Amounts, RequestExpense(e, amount)
      PROVE  Funded'
  <2>1. UNCHANGED req
    BY <1>1 DEF RequestExpense
  <2>. QED  BY <1>1, <2>1, PendingExpense, FundedUnchanged
<1>2. ASSUME NEW t \in Requests, NEW e \in Expenses, ApproveExpense(t, e) PROVE Funded'
  <2>1. \A u \in Requests: req'[u] = req[u] \/ req'[u].pc \in {"idle", "approved"}
    BY <1>2 DEF ApproveExpense, Inv, RowsOK
  <2>. QED  BY <1>2, <2>1, PendingExpense, FundedUnchanged
<1>3. ASSUME NEW t \in Requests, NEW e \in Expenses, NEW amount \in Amounts,
             ExpenseLock(t, e, amount)
      PROVE  Funded'
  BY <1>3, FundedLock DEF ExpenseLock
<1>4. ASSUME NEW t \in Requests, ExecuteLock(t) PROVE Funded'
  <2>. DEFINE r == [req[t] EXCEPT !.pc = "spending"]
  <2>1. r.pc = "spending" /\ r.amount = req[t].amount
    BY DEF Inv, RowsOK, RequestRows
  <2>2. /\ req' = [req EXCEPT ![t] = r] /\ req[t].amount <= balance[Safe]
        /\ UNCHANGED <<hasSafe, figures, balance>>
    BY <1>4 DEF ExecuteLock
  <2>. HIDE DEF r
  <2>. QED  BY <2>1, <2>2, FundedLock
<1>5. ASSUME NEW t \in Requests, ExpenseCommit(t) PROVE Funded'
  BY <1>5, SpendFunded
<1>6. ASSUME NEW e \in Expenses, VoidExpense(e) PROVE Funded'
  <2>1. /\ Spent' = Spent - expense[e].amount
        /\ balance'[Safe] = balance[Safe] + expense[e].amount
        /\ expense[e].amount \in Nat
        /\ UNCHANGED <<declared, deposit, adjusted, req>>
    BY <1>6, VoidExpenseMoves DEF VoidExpense
  <2>2. Awaiting' = Awaiting /\ InFund' = InFund /\ OfSource(Direct)' = OfSource(Direct)
    BY <2>1, DeclaredKept, DepositsKept
  <2>3. Retained' = Retained + expense[e].amount
    BY <2>1, <2>2, RetainedTypes DEF Retained, Direct
  <2>. QED  BY <2>1, <2>2, <2>3, RetainedTypes, FundedKept
<1>. QED  BY <1>1, <1>2, <1>3, <1>4, <1>5, <1>6 DEF ExpenseSteps

LEMMA DepositFunded ==
    ASSUME Inv, Inv', Sound, Funded, DepositSteps PROVE Funded'
<1>1. ASSUME NEW t \in Requests, NEW d \in Deposits, NEW p \in People, NEW amount \in Amounts,
             DirectLock(t, d, p, amount)
      PROVE  Funded'
  <2>1. amount \in Nat /\ amount > 0
    BY TreasuryAssumption DEF Amounts
  <2>2. amount <= Retained
    BY <1>1, <2>1, RetainedTypes DEF DirectLock, Accumulated
  <2>. QED  BY <1>1, <2>2, FundedLock DEF DirectLock
<1>2. ASSUME NEW t \in Requests, DirectCommit(t) PROVE Funded'
  BY <1>2, DirectFunded
<1>3. ASSUME NEW d \in Deposits, VoidBankDeposit(d) PROVE Funded'
  <2>. DEFINE n == Counts(deposit[d], Direct)
  <2>1. /\ OfSource(Direct)' = OfSource(Direct) - n /\ n \in Nat
        /\ hasSafe => balance'[Safe] = balance[Safe] + n
        /\ UNCHANGED <<hasSafe, declared, expense, adjusted, req>>
    BY <1>3, VoidDepositMoves DEF VoidBankDeposit
  <2>2. ~hasSafe => balance'[Safe] = balance[Safe]
    <3>1. ASSUME ~hasSafe PROVE deposit[d].from # Safe
      BY <1>3, <3>1, AccountsOf DEF VoidBankDeposit, Sound, RowsSound
    <3>2. /\ deposit[d].amount \in Int /\ deposit[d].source \in {"CUSTODY", Direct}
          /\ deposit[d].status = "POSTED"
      BY <1>3 DEF VoidBankDeposit, Inv, RowsOK, DepositRows, Direct
    <3>3. CASE deposit[d].source = "CUSTODY"
      <4>1. deposit[d].from \in People /\ balance' = Move(Bank, deposit[d].from, deposit[d].amount)
        BY <1>3, <3>2, <3>3 DEF VoidBankDeposit, Sound, RowsSound
      <4>. QED  BY <3>2, <4>1, MoveValues, AccountsOf
    <3>4. CASE deposit[d].source = Direct
      <4>1. ~hasSafe => balance' = [balance EXCEPT ![Bank] = balance[Bank] - deposit[d].amount]
        BY <1>3, <3>1, <3>4 DEF VoidBankDeposit, Direct
      <4>. QED  BY <4>1, AccountsOf DEF Inv, BalancesOK
    <3>. QED  BY <3>2, <3>3, <3>4
  <2>. HIDE DEF n
  <2>3. Awaiting' = Awaiting /\ InFund' = InFund /\ Spent' = Spent
    BY <2>1, DeclaredKept, ExpensesKept
  <2>4. Retained' = Retained + n
    BY <2>1, <2>3, RetainedTypes DEF Retained, Direct
  <2>5. balance'[Safe] >= balance[Safe]
    BY <2>1, <2>2, RetainedTypes DEF Inv, RowsOK
  <2>. QED  BY <2>1, <2>3, <2>4, <2>5, RetainedTypes, FundedKept
<1>. QED  BY <1>1, <1>2, <1>3 DEF DepositSteps

LEMMA InitFunded == Init => Funded
<1>. SUFFICES ASSUME Init PROVE Funded
  OBVIOUS
<1>1. Retained = 0 /\ InFund = 0
  BY InitSums DEF Retained, Direct, Init
<1>. QED  BY <1>1 DEF Init, Funded, RetainedCovered, Idle

LEMMA NextFunded ==
    /\ Inv /\ Inv' /\ Sound /\ LedgerMatchesRows /\ LedgerMatchesRows' /\ Funded /\ [Next]_vars
    => Funded'
<1>. SUFFICES ASSUME Inv, Inv', Sound, LedgerMatchesRows, LedgerMatchesRows', Funded,
                     [Next]_vars
              PROVE  Funded'
  OBVIOUS
<1>1. CASE UNCHANGED vars
  BY <1>1, FundedUnchanged, ExpensesKept DEF vars, figures
<1>2. ASSUME NEW t \in Requests, Abort(t) PROVE Funded'
  <2>1. \A u \in Requests: req'[u] = req[u] \/ req'[u].pc \in {"idle", "approved"}
    BY <1>2 DEF Abort, Inv, RowsOK, Idle
  <2>. QED  BY <1>2, <2>1, FundedUnchanged, ExpensesKept DEF Abort, figures
<1>3. CASE BankSteps
  <2>1. balance'[Safe] = balance[Safe]
    BY <1>3, BankLedger
  <2>2. UNCHANGED <<declared, expense, deposit, adjusted, req>>
    BY <1>3 DEF BankSteps, CardSale, ConfirmCardSettlement, PayFromBank
  <2>. QED  BY <2>1, <2>2, FundedUnchanged, ExpensesKept
<1>. QED  BY <1>1, <1>2, <1>3, SessionFunded, CustodyFunded, ExpenseFunded, DepositFunded
          DEF Next

LEMMA SpecFunded == Spec => []Funded
<1>. QED  BY SpecInv, SpecSound, SpecLedger, InitFunded, NextFunded, PTL DEF Spec

-----------------------------------------------------------------------------
(* The theorems.                                                           *)

(* The rows and the balances keep their types, whatever amounts they hold. *)
THEOREM TypeCorrect == Spec => []TypeOK
<1>1. Inv => TypeOK
  BY InvIsTyped
<1>. QED  BY <1>1, SpecInv, PTL

(* Nobody's custody goes below zero: receipts, deposits, annulments and    *)
(* adjustments that run together never take more than it holds.            *)
THEOREM CustodiesAreCovered == Spec => []CustodyCovered
<1>1. Inv => CustodyCovered
  BY InvIsTyped
<1>. QED  BY <1>1, SpecInv, PTL

(* The ledger never departs from the rows it is made of: the safe holds    *)
(* what was retained and not spent or deposited, the custodies what was    *)
(* handed over, sent and not banked, the bank what it got and did not pay. *)
THEOREM LedgerAgrees == Spec => []LedgerMatchesRows
<1>. QED  BY SpecLedger, PTL

(* Retained cash is not used twice, by any number of expenses and direct   *)
(* deposits in flight: each lock is held from the comparison to the        *)
(* commit, and the expense's needs the branch that a deposit holds.        *)
THEOREM RetainedIsCovered == Spec => []RetainedCovered
<1>1. Funded => RetainedCovered
  BY DEF Funded
<1>. QED  BY <1>1, SpecFunded, PTL
=============================================================================
