SPECIFICATION Spec
CONSTANTS
    MaxDay = 1
    Null = Null
    Boxes = {b1}
    Sessions = {s1}
    Orders = {o1}
    Requests = {r1, r2}
    Price = 2
    Opening = 3
    Counts = {0}
    Moves <- OutOnly
    MaxRows = 1
    PayrollAmount = 1
    Handlers = {"Sale", "Direct", "Cancel", "Count", "Review", "Recalculate", "Payroll", "Move"}
SYMMETRY Symmetry
INVARIANTS
    InFlightSound
    CancelledOrdersUnpaid
    ReviewStateSound
