SPECIFICATION Spec
CONSTANTS
    Symbols = {a}
    TopN = 1
    HoldingDays = 1
    MaxDay = 2
    MaxAborts = 1
    Faults = {"restart", "missed", "crash", "exception", "sweep", "heartbeat", "reconcile", "calendar", "cancel", "reject_open", "reject_close", "timeout", "unfilled"}
INVARIANTS TypeOK PlacedHasOrder ClosedIsExplained NoStopInAuction
PROPERTIES RunNotRepeated ClosedGetsNoStop
