\* A branch with and without a safe: the cash of its session is declared,
\* carried by two people, and spent and deposited by two transactions at a time.
CONSTANTS
    Sessions = {s1}
    People = {p1, p2}
    Expenses = {e1, e2}
    Deposits = {d1, d2}
    Requests = {t1, t2}
    MaxAmount = 2
    MaxSent = 1
    MaxOutside = 1
    Fund = 1
    Cap = 1
    Safe = Safe
    Bank = Bank
    Settlement = Settlement
    Null = Null
SPECIFICATION Spec
SYMMETRY Symmetry
INVARIANTS
    TypeOK
    CustodyCovered
    RetainedCovered
    LedgerMatchesRows
\* The instance ends once its bounded rows are settled and nothing is in flight.
CHECK_DEADLOCK FALSE
