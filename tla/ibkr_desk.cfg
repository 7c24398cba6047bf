SPECIFICATION Spec
CONSTANTS
    Users = {u1, u2}
    Sync = sync
    Signals = {s1}
    Opens = {s1}
    Available = {1, 2}
    MaxOrders = 2
    MaxFaults = 1
INVARIANTS OrderedOncePerAccount LiveOrdersConfirmed
PROPERTIES SyncFollows
CHECK_DEADLOCK FALSE
