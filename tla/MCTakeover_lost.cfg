\* One host that dies, as a host that is not installed does at once.
SPECIFICATION Spec
CONSTANTS
  Ids = {d1}
  Urls = {u1}
  Hosts = {h1, h2}
  Slots = 1
  MaxCancels = 1
  Evictable = FALSE
  MaxTrouble = 1
INVARIANT
  NothingIsLost
CHECK_DEADLOCK FALSE
