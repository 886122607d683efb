SPECIFICATION LoopSpec
CONSTANTS
  left = left
  Button = {left}
  WithIR = {left}
  WithHall = {left}
  ActiveHigh = {}
  RawHall = {0, 1, 2}
  PressThreshold = 2
  ReleaseThreshold = 0
  DebounceMs = 2
  Elapsed = {0, 1, 3}
  TickModulus = 4
  Capacity = 2
  Motion <- Deltas
  AxisMax = 1
INVARIANTS NeverLate ChainAgrees
PROPERTIES ImplementsFifo NeverEarly SteadyContactReported
CHECK_DEADLOCK FALSE
