SPECIFICATION FairSpec
CONSTANTS
  Msgs = {m1}
  TermStates = {"Up", "Retrying", "Auth"}
  MaxGens = 2
  MaxBackoff = 1
  MaxInputs = 1
  MaxQueue = 2
INVARIANTS
  ViewIsCurrent
  StateIsMeant
PROPERTIES
  SendsSettled
  HostComesBack
  RetryHeard
  RemovedEnds
CHECK_DEADLOCK FALSE
