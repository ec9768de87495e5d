SPECIFICATION Spec
CONSTANTS
    MaxDay = 1
    Null = Null
    Boxes = {b1, b2}
    Sessions = {s1, s2}
    Orders = {}
    Requests = {r1, r2}
    Price = 2
    Opening = 3
    Counts = {0}
    Moves <- OutOnly
    MaxRows = 1
    PayrollAmount = 1
    Handlers = {"Reopen", "Sign", "CancelDay", "EndShift", "Count", "Review", "Force"}
SYMMETRY BoxSymmetry
INVARIANTS
    SignedNeverCancelled
    KeyMatchesStatus
    OneOpenPerBox
PROPERTIES
    DaySpec
    ImplementsDrawers
