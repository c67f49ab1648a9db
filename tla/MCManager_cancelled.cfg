SPECIFICATION Spec
CONSTANTS
  Ids = {r1}
  MaxActive = 1
  MaxGen = 2
  MayCrash = FALSE
INVARIANT
  CancelledLeavesNothing
