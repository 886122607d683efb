SPECIFICATION Spec
CONSTANTS
  ChunkCount = 2
  MaxAttempts = 2
  MaxSequence = 4
  MaxPolls = 2
  MaxFaults = 1
  MaxRuns = 1
  FaultKinds <- AnyFault
  OldVersion = 2
  NewVersion = 2
  HashRecorded = FALSE
INVARIANT SuccessAfterRestart
CHECK_DEADLOCK FALSE
