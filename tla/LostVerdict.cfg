\* The upsert of an old row returns another row id.
CONSTANTS
  Movies = {m1}
  Series = {}
  Seasons = 1
  Workers = {w1}
  LazyModes = {TRUE}
  MaxAttempts = 1
  JobsFire = TRUE
  BudgetAttr = TRUE
  NoThread = NoThread
  NoRow = NoRow
  MaxFaults = 1
  MaxSubmissions = 2
  MaxRestarts = 0
SPECIFICATION Spec
PROPERTIES
  VerdictIsShown
CHECK_DEADLOCK FALSE
