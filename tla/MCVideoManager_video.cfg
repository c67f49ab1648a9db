\* A video and an ordinary download that wait for the same slot, two attempts.
SPECIFICATION VideoFairSpec
CONSTANTS
  Ids = {r1, r2}
  Videos = {r1}
  MaxActive = 1
  MaxGen = 2
  MayCrash = FALSE
PROPERTIES
  EveryRowSettles
  EveryStopIsHeard
