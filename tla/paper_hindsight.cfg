SPECIFICATION Spec
CONSTANTS
    Symbols = {a, b}
    Moving = {a}
    NLong = 2
    Holding = 2
    Lookback = 2
    AtrDays = 2
    Cash = 400
    RebuildCash = 100
    Favourites = {a, b}
    LastDay = 1
    MaxUpsets = 0
PROPERTY PicksKnownAtOpen
CHECK_DEADLOCK FALSE
