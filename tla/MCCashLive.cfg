SPECIFICATION FairSpec
CONSTANTS
    MaxDay = 1
    Null = Null
    Boxes = {b1}
    Sessions = {s1}
    Orders = {o1}
    Requests = {r1, r2}
    Price = 2
    Opening = 3
    Counts = {0}
    Moves <- OutOnly
    MaxRows = 1
    PayrollAmount = 1
    Handlers = {"Move", "Sale", "Count", "EndShift", "CancelDay"}
PROPERTIES
    OpenSessionIsClosed
    StaleSessionIsResolved
    StaleDayLeavesActive
\* The instance ends once all its sessions are closed and nothing is in flight.
CHECK_DEADLOCK FALSE
