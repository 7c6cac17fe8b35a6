SPECIFICATION Spec
CONSTANTS
  Reqs = {r1, r2}
  Sizes = {z1, z2}
  MaxQuickEnds = 2
  MaxBackoff = 0
  MaxId = 2
  MaxFaults = 1
  MaxOut = 2
INVARIANTS
  LinkServesTerminals
  TermStateTold
  NoStrayPty
  AttachedIsServed
PROPERTIES
  OwnerContract
  SizeFollows
CHECK_DEADLOCK FALSE
