\* A stub read for a moment, and the CDN's file after a failed fetch.
CONSTANTS
  t1 = t1
  t2 = t2
  s1 = s1
  s2 = s2
  Threads = {t1, t2}
  Clients = {c1, c2}
  MaxFd = 3
  movie = movie
  clip = clip
  Titles = {movie, clip}
  Probers = {p1, p2}
  Fallback = {movie}
  Plain = Plain
  None = None
  Slots = {s1, s2}
  Media <- MCMedia
  Counts = {2}
  Targets = {0, 2, 4}
  FtypFetch = 1
  OffsetLimit = 100
  Setups <- MCSetups
SPECIFICATION SSSpec
INVARIANTS
  ReadsAreOfOneImage
CHECK_DEADLOCK FALSE
