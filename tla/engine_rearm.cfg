SPECIFICATION Spec
CONSTANTS
    Symbols = {a}
    TopN = 1
    HoldingDays = 1
    MaxDay = 2
    MaxAborts = 1
    Faults = {"crash"}
INVARIANT NoStopAfterFire
