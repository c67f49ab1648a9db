\* A server that does not announce the size, behaves well, and nobody cancels.
SPECIFICATION Spec
CONSTANTS
  Total = 3
  SizeKnown = FALSE
  Workers = {w1, w2}
  MinSplit = 1
  MaxRetries = 1
  WriteBuffer = 2
  MaxChunk = 2
  MaxFaults = 0
  MaxAttempts = 1
  MayCancel = FALSE
  MayCrash = FALSE
INVARIANT FailsOnlyOnFault
