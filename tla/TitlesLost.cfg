\* Titles that were playable, after a pack that cannot be written or a cleanup beside a migration.
CONSTANTS
  film = film
  show = show
  f1 = f1
  f2 = f2
  f3 = f3
  f4 = f4
  s1 = s1
  s2 = s2
  Media = {film, show}
  Shows = {show}
  Names = {f1, f2, f3, f4, s1, s2}
  Nowhere = nowhere
  Of <- MCOf
  Canonical <- MCCanonical
  Norm <- MCNorm
  Cleaned <- MCNorm
  Tier <- MCTier
  Begins <- MCBegins
  Spliced <- MCSpliced
  Extras <- MCExtras
  Listing <- MCListing
  PackMin = 1
  MaxItems = 4
  Syncs = {1, 2}
  Setups <- MCSetups
SPECIFICATION LSSpec
INVARIANTS
  TitlesStayPlayable
CHECK_DEADLOCK FALSE
