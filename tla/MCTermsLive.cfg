SPECIFICATION FairSpec
CONSTANTS
  Reqs = {r1, r2}
  Sizes = {z1}
  MaxQuickEnds = 2
  MaxBackoff = 1
  MaxId = 2
  MaxFaults = 2
  MaxOut = 0
PROPERTIES
  OpensAnswered
  TerminalsComeBack
CHECK_DEADLOCK FALSE
