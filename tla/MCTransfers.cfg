SPECIFICATION Spec
CONSTANTS
    Factor = 2
    Reserve = 1
    AutoOpen = TRUE
    Branches = {b1, b2}
    TransferIds = {t1, t2}
    SaleIds = {s1}
    MaxQuantity = 2
    MaxEarlier = 1
    MaxOpened = 1
    Initial <- First
SYMMETRY Symmetry
INVARIANTS
    TypeOK
    PackagesConserved
    UnitsConserved
    TransfersSound
