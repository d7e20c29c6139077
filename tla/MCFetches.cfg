SPECIFICATION FetchesSpec
CONSTANTS
  p1 = p1
  p2 = p2
  p3 = p3
  Pids <- TwoPids
  Together = 2
  MaxTries = 2
  MaxKills = 1
  None = None
  Nameless = Nameless
  BaseAssets <- MCBase
  Modules <- NoModules
  Refs <- OneRef
  DevAssets <- MCDev
  Settings <- LocalOrCI
  MaxGen = 2
  MaxFaults = 1
  Installers = {"installer"}
  Verifiers = {"verifier"}
  Archives = {"host", "other"}
  HostArchive = "host"
  downloadAttempts = 2
  MaxTag = 2
  MaxUpload = 2
  MaxUpsets = 1
CHECK_DEADLOCK FALSE
INVARIANTS
  TreeIsTrue
  InstalledAsVerified
  LockNamesHolder
PROPERTIES
  EveryoneEnds
  CallsEnd
