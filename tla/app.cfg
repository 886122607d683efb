SPECIFICATION FairSpec
CONSTANTS
  m1 = m1
  other = other
  old = old
  new = new
  junk = junk
  modelA = modelA
  modelB = modelB
  PortCount = 2
  Mouse <- Mice
  ModelOf <- Modelling
  Compatible <- Mice
  File = {f}
  Image <- Images
  WellFormed <- Formed
  MadeFor <- Naming
  VersionOf <- Versions
  Recorded <- KnownRunning
  NoMouse = NoMouse
  NoFile = NoFile
  NoModel = NoModel
  NoImage = NoImage
  MaxMishaps = 2
INVARIANTS BusyIffTool ControlsFresh
PROPERTIES OneToolAtATime WritesAsConfirmed BusyEnds ConfirmedIsAnswered
CHECK_DEADLOCK FALSE
