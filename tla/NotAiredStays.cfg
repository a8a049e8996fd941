\* An episode that was not aired when it was first looked at.
CONSTANTS
  Checkers = {c1}
  Adders = {a1}
  Importers = {i1}
  MaxSeason = 2
  Episodes <- MCEpisodes
  MaxDay = 1
  AirDay <- MCAirDay
  Setups <- MCSetups
  Requests = {r1}
  UserModes = {"future"}
  MaxKicks = 1
SPECIFICATION URFairSpec
PROPERTIES
  AiredIsPickedUp
CHECK_DEADLOCK FALSE
