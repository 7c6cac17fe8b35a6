SPECIFICATION InstallSpec
CONSTANTS
  Procs = {p1, p2}
  Events = {"stop"}
  Others = {"other"}
  Theirs = {"user"}
  Edits = {e1, e2}
  FirstFiles <- MCFirstFiles
INVARIANTS
  EditsKept
  HooksRight
CHECK_DEADLOCK FALSE
