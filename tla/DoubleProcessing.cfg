\* The recheck searches a title that process() is searching.
CONSTANTS
  Movies = {m1}
  Series = {}
  Seasons = 1
  Workers = {w1}
  LazyModes = {TRUE}
  MaxAttempts = 1
  JobsFire = TRUE
  BudgetAttr = TRUE
  NoThread = NoThread
  NoRow = NoRow
  MaxFaults = 1
  MaxSubmissions = 2
  MaxRestarts = 0
SPECIFICATION Spec
INVARIANTS
  NoDoubleProcessing
CHECK_DEADLOCK FALSE
