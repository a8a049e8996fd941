\* A wanted series is searched as a movie, so its release is never found.
CONSTANTS
  Movies = {}
  Series = {s1}
  Seasons = 1
  Workers = {w1}
  LazyModes = {TRUE}
  MaxAttempts = 1
  JobsFire = FALSE
  BudgetAttr = FALSE
  NoThread = NoThread
  NoRow = NoRow
  MaxFaults = 1
  MaxSubmissions = 1
  MaxRestarts = 0
SPECIFICATION FairSpec
PROPERTIES
  WantedSeriesIsFound
CHECK_DEADLOCK FALSE
