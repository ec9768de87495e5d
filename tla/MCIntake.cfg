SPECIFICATION IntakeFairSpec
CONSTANTS
    NLines = 5
    Batch = 2
    Calls = {c1, c2}
    MaxRevision = 2
    MaxProcessed = 9
    Null = Null
INVARIANTS
    AppliedInOrder
    ProgressCountsMovements
    DiscardedIsEmpty
PROPERTIES
    EveryCallEnds
\* An entry that is done, with no call in progress, stays so.
CHECK_DEADLOCK FALSE
