SPECIFICATION Spec
CONSTANTS
    Symbols = {a, b}
    Horizon = 1
    Overlap = 1
    MinGroup = 1
    Jobs = {"pipeline", "predict", "catchup"}
    MaxDay = 3
    MaxFails = 1
    Faults = {"download"}
INVARIANTS HorizonExact QuintilesCurrent
PROPERTIES ReturnsStay
