\* One attempt that is never crashed, so that fairness decides how it ends.
SPECIFICATION FairSpec
CONSTANTS
  Total = 4
  SizeKnown = TRUE
  Workers = {w1, w2}
  MinSplit = 1
  MaxRetries = 1
  WriteBuffer = 2
  MaxChunk = 2
  MaxFaults = 1
  MaxAttempts = 1
  MayCancel = TRUE
  MayCrash = FALSE
PROPERTIES
  EveryAttemptEnds
  Completes
