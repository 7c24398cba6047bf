SPECIFICATION Spec
CONSTANTS
    Symbols = {a, b}
    Moving = {a}
    NLong = 2
    Holding = 2
    Lookback = 2
    AtrDays = 2
    Cash = 400
    RebuildCash = 100
    Favourites = {a}
    LastDay = 3
    MaxUpsets = 2
INVARIANTS BookBalances PositionsAreOpenLots ExitAsPlanned ClosesLand
PROPERTIES OpensAreFinal
CHECK_DEADLOCK FALSE
