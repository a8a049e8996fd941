\* One thread, three restarts: the budget holds across all lives of the process.
CONSTANTS
  Workers = {w1}
  HourLimit = 5
  MinuteLimit = 3
  HourSpan = 1
  MinuteSpan = 0
  PruneAge = 2
  MaxFaults = 0
  MaxTime = 3
  MaxCalls = 5
  MaxRestarts = 3
SPECIFICATION Spec
INVARIANTS
  SentWithinMargin
CHECK_DEADLOCK FALSE
