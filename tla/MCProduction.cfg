\* Two batches of one branch and one of another, and two transactions at a time.
CONSTANTS
    b1 = b1
    b2 = b2
    b3 = b3
    north = north
    south = south
    Batches = {b1, b2, b3}
    Branches = {north, south}
    BranchOf <- MCBranchOf
    SecondGrade = {b3}
    Requests = {r1, r2}
    MaxUnits = 1
    MaxStock = 1
    Trading = {north}
    Null = Null
SPECIFICATION Spec
SYMMETRY Symmetry
INVARIANTS
    StockFollowsBatches
    ReservedWhileOpen
    BranchFollowsLastBatch
    PriceFollowsSoleBranch
