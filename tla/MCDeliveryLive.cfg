SPECIFICATION FairSpec
CONSTANTS
  Panes = {p1}
  KeepDays = 1
  MaxDay = 3
  MaxRecs = 2
  MaxSess = 2
  MaxGen = 1
  MaxFaults = 1
PROPERTIES
  EventsArrive
CHECK_DEADLOCK FALSE
