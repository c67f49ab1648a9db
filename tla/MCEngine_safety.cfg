\* Two connections, a file that is cut until its segments are single bytes, pieces that
\* overrun a cut, one fault, a second attempt after a cancel, a failure or a crash.
SPECIFICATION Spec
CONSTANTS
  Total = 4
  SizeKnown = TRUE
  Workers = {w1, w2}
  MinSplit = 1
  MaxRetries = 1
  WriteBuffer = 1
  MaxChunk = 2
  MaxFaults = 1
  MaxAttempts = 2
  MayCancel = TRUE
  MayCrash = TRUE
SYMMETRY SlotSymmetry
INVARIANTS
  TypeOK
  DoneIsWritten
  ControlIsWritten
  PlanTilesFile
  SegmentsAreExclusive
  ProgressWithinFile
  NobodyUnheard
  FinishedFileIsWhole
  FailsOnlyOnFault
  NothingMissingAtVerdict
PROPERTY ImplementsTransfer
