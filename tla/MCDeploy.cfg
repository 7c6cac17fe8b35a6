SPECIFICATION FairSpec
CONSTANTS
  MaxTasks = 2
  Stamps = {s1, s2}
  Locks = TRUE
  MaxFaults = 4
INVARIANTS
  InstalledIsComplete
  StartsOwnProbe
PROPERTY
  Deployed
CHECK_DEADLOCK FALSE
