\* As shipped (jobs paused, run_due without its attribute): attempts end, and a
\* wanted movie is found by rechecks from the UI; the lazy mode is switched on and
\* off meanwhile.
CONSTANTS
  Movies = {m1}
  Series = {}
  Seasons = 1
  Workers = {w1, w2}
  LazyModes = {TRUE, FALSE}
  MaxAttempts = 1
  JobsFire = FALSE
  BudgetAttr = FALSE
  NoThread = NoThread
  NoRow = NoRow
  MaxFaults = 1
  MaxSubmissions = 2
  MaxRestarts = 1
SPECIFICATION FairSpec
PROPERTIES
  AttemptsEnd
  WantedMovieIsFound
CHECK_DEADLOCK FALSE
