SPECIFICATION Spec
CONSTANTS
    Null = Null
    Override = Override
    Returns = {r1}
    Cancels = {c1}
    Requests = {t1, t2}
    Sold = 2
SYMMETRY Symmetry
INVARIANTS
    ReversedOnce
    RefundsApproved
    QueueMatchesFiles
\* A dispatched and cancelled order with every file resolved is the end.
CHECK_DEADLOCK FALSE
