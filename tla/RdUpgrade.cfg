\* An item playing from RealDebrid is upgraded.
CONSTANTS
  Tokens = {e1}
  Movie = TRUE
  Hashes = {h1, h2}
  Players = {p1}
  Largest <- LargestIsMovie
  Named <- NamesMovie
  NextEpisode <- NoEpisode
  RealDebrid = TRUE
  Preload = FALSE
  None = None
  MaxTorrents = 2
  MaxUpgrades = 1
  MaxReleases = 1
  e1 = e1
  e2 = e2
  h1 = h1
  h2 = h2
SPECIFICATION Spec
INVARIANTS
  RdIdIsOfItsRelease
