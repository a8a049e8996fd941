\* Two threads, a restart at any point, database accesses that raise.
CONSTANTS
  Workers = {w1, w2}
  HourLimit = 5
  MinuteLimit = 3
  HourSpan = 1
  MinuteSpan = 0
  PruneAge = 2
  MaxFaults = 1
  MaxTime = 2
  MaxCalls = 4
  MaxRestarts = 1
SYMMETRY Symmetry
SPECIFICATION Spec
INVARIANTS
  TypeOK
  HourOvershootBounded
  MinuteOvershootBounded
  SentCallsArePersisted
  LoadedLogIsComplete
CHECK_DEADLOCK FALSE
