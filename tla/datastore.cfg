CONSTANTS
  Symbols = {"a", "b", "FB"}
  Priced = {"b"}
  Reassigned = {"FB"}
  Overlap = 1
  FirstPull = 2
  Padding = 1
  Garbage <- MCGarbage
  MaxDay = 5
  MaxChanges = 4
  MaxUnlisted = 1
  MaxScripts = 1
  Stocks = {p, q}
  Company <- MCCompany
  Filings <- MCFilings
  ScoreTables <- MCScoreTables
  Lookback = 2
  TopN = 1
  MaxFilings = 2
  MaxToday = 2
  MaxRuns = 2
  MaxPredictions = 2
  Requests = {r1, r2}
  CacheCap = 1
  MaxTime = 4
  MaxCopies = 1
  MaxRestores = 1
SYMMETRY MCSymmetry
SPECIFICATION MCSpec
INVARIANTS TypeOK TimelineIsFaithful ClosedRowsAreTrue PulledDaysReadFinal PicksAreJudged NoStaleAnswer
PROPERTY TrueDaysAreKept
CHECK_DEADLOCK FALSE
