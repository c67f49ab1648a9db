SPECIFICATION FairSpec
CONSTANTS
  Ids = {r1}
  MaxActive = 1
  MaxGen = 2
  MayCrash = FALSE
PROPERTY
  RemovalFollows
