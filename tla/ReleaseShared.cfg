\* One of two episodes of a season pack goes idle.
CONSTANTS
  Tokens = {e1, e2}
  Movie = FALSE
  Hashes = {h1, h2}
  Players = {p1}
  Largest <- LargestIsLast
  Named <- NamesInFirst
  NextEpisode <- Episodes
  RealDebrid = FALSE
  Preload = FALSE
  None = None
  MaxTorrents = 2
  MaxUpgrades = 0
  MaxReleases = 1
  e1 = e1
  e2 = e2
  h1 = h1
  h2 = h2
SPECIFICATION Spec
PROPERTIES
  SharedTorrentIsKept
