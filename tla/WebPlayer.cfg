\* Two prepare jobs and a seek over releases with one and several audio tracks.
CONSTANTS
  sdr = sdr
  hdr = hdr
  big = big
  Jobs = {j1, j2}
  Seekers = {u1}
  Hashes = {sdr, hdr, big}
  Rankings <- MCRankings
  Cached = {sdr, hdr}
  Owned = {big}
  Hdr = {hdr}
  Multi = {big}
  MaxProcs = 2
SPECIFICATION FairSpec
INVARIANTS
  RunningIsRegistered
  SeekLeavesNoOldSegments
PROPERTIES
  IdleIsCleaned
CHECK_DEADLOCK FALSE
