SPECIFICATION Spec
CONSTANTS
    Signals = {s1}
    Opens = {s1}
    Users = {u}
    Operators = {c}
    Pollers = {v}
    Qty = 2
    MaxOrders = 2
    MaxStarts = 2
    MaxFaults = 1
INVARIANTS EnginesAreRecorded
PROPERTIES RowsTrailBroker LinksStay DashboardCatchesUp
CHECK_DEADLOCK FALSE
