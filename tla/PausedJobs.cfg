\* The jobs as registered: paused, so a queued retry is never taken.
CONSTANTS
  Movies = {m1}
  Series = {}
  Seasons = 1
  Workers = {w1}
  LazyModes = {TRUE}
  MaxAttempts = 1
  JobsFire = FALSE
  BudgetAttr = TRUE
  NoThread = NoThread
  NoRow = NoRow
  MaxFaults = 1
  MaxSubmissions = 1
  MaxRestarts = 0
SPECIFICATION FairSpec
PROPERTIES
  AcceptedGetsVerdict
CHECK_DEADLOCK FALSE
