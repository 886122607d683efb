SPECIFICATION TargetSpec
CONSTANTS
  ElapsedModulus = 8
  PairingTimeout = 5
  TickStep = {0, 1, 3}
  MaxRadioEvents = 2
INVARIANTS
  NoNullCall
  StateFollowsLink
  PairingEndsInTime
PROPERTY
  PairingNotCutShort
