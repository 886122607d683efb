SPECIFICATION Spec
CONSTANTS
  ChunkCount = 2
  MaxAttempts = 2
  MaxSequence = 4
  MaxPolls = 2
  MaxFaults = 1
  MaxRuns = 1
  FaultKinds = {"reply_lost"}
  OldVersion = 1
  NewVersion = 2
  HashRecorded = FALSE
INVARIANT NotEnteredLeavesIdle
CHECK_DEADLOCK FALSE
