SPECIFICATION Spec
CONSTANTS
  mouse = mouse
  twin = twin
  stranger = stranger
  Unit = {mouse, twin, stranger}
  ModelOf <- ModelOfMice
  Path = {p1, p2, p3}
  None = None
  MaxPolls = 2
  MaxFaults = 2
INVARIANTS RestartTypeOK VerifiedRunsTarget OtherOnlyInAbsence
PROPERTIES FoundWhenBack
CHECK_DEADLOCK FALSE
