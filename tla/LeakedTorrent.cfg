\* A torrent is added and no row comes to name it.
CONSTANTS
  Tokens = {e1}
  Movie = TRUE
  Hashes = {h1, h2}
  Players = {p1}
  Largest <- LargestIsMovie
  Named <- NamesMovie
  NextEpisode <- NoEpisode
  RealDebrid = FALSE
  Preload = FALSE
  None = None
  MaxTorrents = 2
  MaxUpgrades = 0
  MaxReleases = 1
  e1 = e1
  e2 = e2
  h1 = h1
  h2 = h2
SPECIFICATION Spec
INVARIANTS
  AddedTorrentIsNamed
