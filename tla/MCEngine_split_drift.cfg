\* A worker moves on between the reading of its cursor and the cut.
SPECIFICATION Spec
CONSTANTS
  Total = 6
  SizeKnown = TRUE
  Workers = {w1, w2}
  MinSplit = 1
  MaxRetries = 1
  WriteBuffer = 2
  MaxChunk = 2
  MaxFaults = 0
  MaxAttempts = 1
  MayCancel = FALSE
  MayCrash = FALSE
PROPERTY SplitStaysAheadOfCursor
