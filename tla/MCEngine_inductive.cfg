\* A larger file and floor: one cut, and flushes in the middle of a longer segment.
SPECIFICATION Spec
CONSTANTS
  Total = 7
  SizeKnown = TRUE
  Workers = {w1, w2}
  MinSplit = 2
  MaxRetries = 1
  WriteBuffer = 3
  MaxChunk = 3
  MaxFaults = 1
  MaxAttempts = 2
  MayCancel = TRUE
  MayCrash = TRUE
SYMMETRY SlotSymmetry
INVARIANTS
  EngineInv
  FaultInv
PROPERTY ImplementsTransfer
