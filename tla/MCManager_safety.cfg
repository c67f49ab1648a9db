\* Two rows, a slot for each, three attempts between them, and restarts.
SPECIFICATION Spec
CONSTANTS
  Ids = {r1, r2}
  MaxActive = 2
  MaxGen = 3
  MayCrash = TRUE
SYMMETRY RowSymmetry
INVARIANTS
  TypeOK
  OneEnginePerRow
  ActiveHasTask
  RunningIsShown
  CompletedIsDelivered
PROPERTIES
  LifeCycle
  PartialDataIsKept
  GhostsWriteNothing
