\* A job prepares a release whose FFmpeg has ended and left its segments.
CONSTANTS
  sdr = sdr
  hdr = hdr
  big = big
  Jobs = {j1, j2}
  Seekers = {u1}
  Hashes = {sdr, hdr, big}
  Rankings <- MCRankings
  Cached = {sdr, hdr}
  Owned = {big}
  Hdr = {hdr}
  Multi = {big}
  MaxProcs = 2
SPECIFICATION Spec
PROPERTIES
  ReadyOnOwnSegments
CHECK_DEADLOCK FALSE
