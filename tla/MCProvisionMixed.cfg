SPECIFICATION Spec
CONSTANTS
  p1 = p1
  p2 = p2
  p3 = p3
  Pids <- ThreePids
  Together = 3
  MaxTries = 1
  MaxKills = 0
  None = None
  Nameless = Nameless
  BaseAssets <- MCBase
  Modules <- NoModules
  Refs <- OneRef
  DevAssets <- MCDev
  Settings <- LocalOnly
  MaxGen = 2
  MaxFaults = 0
CHECK_DEADLOCK FALSE
INVARIANTS
  StateVouches
