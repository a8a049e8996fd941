\* Two episodes of a season whose releases are season packs, one of them
\* without SxxExx in its file names, played and preloaded.
CONSTANTS
  Tokens = {e1, e2}
  Movie = FALSE
  Hashes = {h1, h2}
  Players = {p1}
  Largest <- LargestIsLast
  Named <- NamesInFirst
  NextEpisode <- Episodes
  RealDebrid = FALSE
  Preload = TRUE
  None = None
  MaxTorrents = 2
  MaxUpgrades = 1
  MaxReleases = 0
  e1 = e1
  e2 = e2
  h1 = h1
  h2 = h2
SPECIFICATION Spec
INVARIANTS
  RowNamesItsRelease
PROPERTIES
  PlaybackKeepsOwnFile
