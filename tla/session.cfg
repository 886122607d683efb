SPECIFICATION FairSpec
CONSTANTS
  ChunkCount = 3
  MaxAttempts = 2
  MaxSequence = 4
  MaxPolls = 2
  MaxFaults = 3
  MaxRuns = 2
  FaultKinds <- AnyFault
  OldVersion = 1
  NewVersion = 2
  HashRecorded = FALSE
INVARIANTS TypeOK AcceptedStreamIsImage Lockstep
PROPERTIES OnlyConsentedWrites RunIsBounded ImplementsChunkTransfer RunTerminates ResetSentSettles GoodRunSucceeds
CHECK_DEADLOCK FALSE
