\* The acquirer settles a card sale and keeps a fee.
CONSTANTS
    Sessions = {s1}
    People = {p1}
    Expenses = {e1}
    Deposits = {d1}
    Requests = {t1}
    MaxAmount = 2
    MaxSent = 0
    MaxOutside = 2
    Fund = 1
    Cap = 1
    Safe = Safe
    Bank = Bank
    Settlement = Settlement
    Null = Null
SPECIFICATION Spec
SYMMETRY Symmetry
INVARIANTS
    SettlementIsOwed
\* The instance ends once its bounded rows are settled and nothing is in flight.
CHECK_DEADLOCK FALSE
