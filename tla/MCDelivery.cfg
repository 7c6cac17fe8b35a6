SPECIFICATION Spec
CONSTANTS
  Panes = {p1}
  KeepDays = 1
  MaxDay = 2
  MaxRecs = 2
  MaxSess = 2
  MaxGen = 2
  MaxFaults = 1
INVARIANTS
  AckedIsHanded
PROPERTY
  OnceInOrder
CHECK_DEADLOCK FALSE
