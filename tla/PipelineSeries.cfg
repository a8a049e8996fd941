\* Two seasons in lazy mode, accepted twice, against retries and the recheck.
CONSTANTS
  Movies = {}
  Series = {s1}
  Seasons = 2
  Workers = {w1, w2}
  LazyModes = {TRUE}
  MaxAttempts = 1
  JobsFire = TRUE
  BudgetAttr = TRUE
  NoThread = NoThread
  NoRow = NoRow
  MaxFaults = 1
  MaxSubmissions = 2
  MaxRestarts = 1
SPECIFICATION Spec
INVARIANTS
  TypeOK
  OneProcessorPerTitle
  RequestsConserved
PROPERTIES
  EndsSettled
  WantedUntilAdded
  ImplementsLedger
CHECK_DEADLOCK FALSE
