\* A scheduled retrain and an emergency retrain over three days.
SPECIFICATION Spec
CONSTANTS
  Scheduled = {monthly}
  Emergency = {tick}
  TriggerDays = {1, 2}
  RankICs <- MCRankICs
  Accuracies = {20, 24}
  DailyICs <- MCDailyICs
  Hard <- MCHard
  Soft = 1
  Lookback = 1
  Consecutive = 1
  Lag = 2
  MinAge = 2
  LastDay = 2
  MaxRetrains = 2
  MaxDeaths = 1
INVARIANTS LoadedIsOneSave
PROPERTIES EmergencySparesTheYoung
CHECK_DEADLOCK FALSE
