SPECIFICATION LiveSpec
CONSTANTS
    Symbols = {a, b}
    Horizon = 1
    Overlap = 1
    MinGroup = 2
    Jobs = {"pipeline"}
    MaxDay = 3
    MaxFails = 2
    Faults = {"download", "predict", "crash"}
PROPERTIES EveryPredictionSettles
