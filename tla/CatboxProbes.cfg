\* A movie probed by two threads, RealDebrid configured, upgraded and
\* released meanwhile.
CONSTANTS
  Tokens = {e1}
  Movie = TRUE
  Hashes = {h1, h2}
  Players = {p1, p2}
  Largest <- LargestIsMovie
  Named <- NamesMovie
  NextEpisode <- NoEpisode
  RealDebrid = TRUE
  Preload = FALSE
  None = None
  MaxTorrents = 1
  MaxUpgrades = 1
  MaxReleases = 1
  e1 = e1
  e2 = e2
  h1 = h1
  h2 = h2
SYMMETRY Symmetry
SPECIFICATION Spec
INVARIANTS
  OneMaterialization
  NothingAddedInCooldown
