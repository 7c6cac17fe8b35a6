SPECIFICATION Spec
CONSTANTS
  Hosts = {h1}
  Sessions = {s1}
  Panes = {p1}
  None = None
  HookAuthority = 2
  AlertDedupe = 2
  MaxTime = 3
  MaxOff = 2
INVARIANTS
  ShownIsTracked
  UnseenWasAlerted
PROPERTIES
  AlertsApart
  ScrapeAuthority
CHECK_DEADLOCK FALSE
