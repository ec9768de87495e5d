SPECIFICATION StockCountSpec
CONSTANTS
    NLines = 1
    Batch = 1
    Calls = {c1}
    MaxRevision = 1
    MaxProcessed = 2
    Null = Null
    Factor = 3
    Reserve = 0
    AutoOpen = FALSE
    Phones = {p1, p2}
    Events = {e1, e2}
    Starts <- AnyStart
    Figure = 1
    MaxMoves = 2
SYMMETRY Symmetry
INVARIANTS
    StockCountTypeOK
    ScansCountedOnce
    OnlyApprovedApplied
    MovementsKept
\* A rejected count, or one applied, with no movement left, stays so.
CHECK_DEADLOCK FALSE
