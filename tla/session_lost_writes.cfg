SPECIFICATION FairSpec
CONSTANTS
  ChunkCount = 3
  MaxAttempts = 3
  MaxSequence = 4
  MaxPolls = 2
  MaxFaults = 2
  MaxRuns = 2
  FaultKinds = {"write_lost"}
  OldVersion = 1
  NewVersion = 2
  HashRecorded = TRUE
INVARIANT StreamNeverGarbled
PROPERTY TransferSurvivesLostWrites
CHECK_DEADLOCK FALSE
