SPECIFICATION LiveSpec
CONSTANTS
    Symbols = {a, b}
    TopN = 1
    HoldingDays = 2
    MaxDay = 3
    MaxAborts = 1
    Faults = {"restart", "reject_open"}
INVARIANTS BooksMatchBroker NoOverdueLot NoOrphanStops EachLotTradedOnce
PROPERTIES EveryLotExits ImplementsLotBook
