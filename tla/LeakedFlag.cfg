\* A season is flagged as wanted, the next one raises.
CONSTANTS
  Movies = {}
  Series = {s1}
  Seasons = 2
  Workers = {w1}
  LazyModes = {TRUE}
  MaxAttempts = 1
  JobsFire = TRUE
  BudgetAttr = TRUE
  NoThread = NoThread
  NoRow = NoRow
  MaxFaults = 1
  MaxSubmissions = 1
  MaxRestarts = 0
SPECIFICATION Spec
INVARIANTS
  NoLeakedWantedFlag
CHECK_DEADLOCK FALSE
