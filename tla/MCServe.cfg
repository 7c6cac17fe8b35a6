SPECIFICATION FairSpec
CONSTANTS
  Pids = {1, 2}
  MaxLines = 1
INVARIANTS
  OneServe
  RecordedWhileServing
PROPERTIES
  ServeEnds
CHECK_DEADLOCK FALSE
