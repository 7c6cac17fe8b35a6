SPECIFICATION WatchSpec
CONSTANTS
  None = None
  Screens = {blank, idle, named}
  Titled = {named}
  Found = {idle}
  Kept = {idle}
  Asks = {}
  Dones = {idle}
  StableMs = 1
  HookAuthority = 1
  AlertDedupe = 1
  MissesToExit = 2
  HookStates = {"Working", "Exited"}
  MaxNow = 1
  MaxHooks = 2
  MaxOut = 1
  MaxFaults = 1
INVARIANTS HoldHolds 
