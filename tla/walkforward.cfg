\* Two months of a backtest that is killed, fails, loses its database.
SPECIFICATION Spec
CONSTANTS
  Symbols = {"a", "b", "c"}
  Bars <- MCBars
  Highs <- MCHighs
  Spells <- MCSpells
  Joined = 10
  Announced <- MCAnnounced
  MacroDays <- MCMacroDays
  Window = 3
  Confirm = 1
  Horizon = 2
  Classes = 2
  Holdout = 4
  CalibrationDays = 2
  FoldCount = 2
  Embargo = 1
  MinTrain = 2
  Month <- MCMonth
  Trading <- MCTrading
  First = 15
  Last = 19
  Gap = 2
  Lookback = 8
  Warmup = 8
  Tuned = {15, 17}
  Production = 19
  MinValid = 2
  KeepStartups = 1
  KeepSnapshots = 1
  MaxDeaths = 1
  MaxFailures = 1
  MaxCopies = 3
  MaxLosses = 1
INVARIANTS  FoldsArePurged
PROPERTY GapsAreFailedDays
CHECK_DEADLOCK FALSE
