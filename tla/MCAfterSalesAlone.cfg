SPECIFICATION Spec
CONSTANTS
    Null = Null
    Override = Override
    Returns = {r1, r2}
    Cancels = {c1, c2}
    Requests = {t1}
    Sold = 2
SYMMETRY Symmetry
INVARIANTS
    ReturnExecutedOnce
    OnePendingCancellation
    DispatchedOnce
PROPERTIES
    VoidedNotRefunded
\* A dispatched and cancelled order with every file resolved is the end.
CHECK_DEADLOCK FALSE
