\* One series of two seasons in three installations: accounts, Seerr, imports.
CONSTANTS
  Checkers = {c1}
  Adders = {a1}
  Importers = {i1}
  MaxSeason = 2
  Episodes <- MCEpisodes
  MaxDay = 1
  AirDay <- MCAirDay
  Setups <- MCSetups
  Requests = {r1}
  UserModes = {"future"}
  MaxKicks = 1
SPECIFICATION URFairSpec
INVARIANTS
  FoundHadFile
  FutureSkipsBackCatalog
  NothingBeforeApproval
PROPERTIES
  AnnouncedIsMonitored
  WantedIsFound
CHECK_DEADLOCK FALSE
