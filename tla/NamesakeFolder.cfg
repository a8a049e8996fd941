\* The folder of another show is taken for the series' own.
CONSTANTS
  Checkers = {c1}
  Adders = {a1}
  Importers = {i1}
  MaxSeason = 2
  Episodes <- MCEpisodes
  MaxDay = 1
  AirDay <- MCAirDay
  Setups <- MCSetups
  Requests = {r1}
  UserModes = {"future"}
  MaxKicks = 1
SPECIFICATION URSpec
INVARIANTS
  FoundHadOwnFile
CHECK_DEADLOCK FALSE
