\* One video, resumed before its first task has marked it.
SPECIFICATION VideoSpec
CONSTANTS
  Ids = {r1}
  Videos = {r1}
  MaxActive = 1
  MaxGen = 2
  MayCrash = FALSE
PROPERTY
  GhostsWriteNothing
