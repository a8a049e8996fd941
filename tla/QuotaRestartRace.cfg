\* Two threads after a restart: the second counts before the first has loaded.
CONSTANTS
  Workers = {w1, w2}
  HourLimit = 5
  MinuteLimit = 3
  HourSpan = 1
  MinuteSpan = 0
  PruneAge = 2
  MaxFaults = 0
  MaxTime = 2
  MaxCalls = 4
  MaxRestarts = 1
SPECIFICATION Spec
PROPERTIES
  UsageSurvivesRestart
CHECK_DEADLOCK FALSE
