\* Two downloads of one URL or of two, one slot a host, one death or eviction.
\* The system may stop: it takes over a bounded number of downloads.
SPECIFICATION Spec
CONSTANTS
  Ids = {d1, d2}
  Urls = {u1, u2}
  Hosts = {h1, h2}
  Slots = 1
  MaxCancels = 1
  Evictable = TRUE
  MaxTrouble = 1
INVARIANTS
  TypeOK
  OneWriter
  LossNeedsTrouble
  StartingIsWatched
SYMMETRY
  TakeoverSymmetry
CHECK_DEADLOCK FALSE
