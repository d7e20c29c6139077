SPECIFICATION RecordsSpec
CONSTANTS
  p1 = p1
  p2 = p2
  p3 = p3
  Pids <- ThreePids
  Together = 1
  MaxTries = 0
  MaxKills = 1
  None = None
  Nameless = Nameless
  BaseAssets <- MCBase
  Modules <- MCModules
  Refs <- MCRefs
  DevAssets <- MCDev
  Settings <- EverySource
  MaxGen = 1
  MaxFaults = 2
  CacheJobs = {1, 2}
  MaxChanges = 2
  MaxBlind = 1
  GateOrder <- MCGateOrder
  Advisory = {"deadcode"}
  Golangci = "golangci-lint"
  Staticcheck = "staticcheck-extra"
  Findings <- MCFindings
  GateOf <- MCGateOf
  SeenOn <- MCSeenOn
  Matrix <- MCMatrix
  HostPlatform = "darwin"
  Directives = {1, 2}
  Scope <- MCScope
  MaxSourceEdits = 2
  MaxToolFaults = 1
CHECK_DEADLOCK FALSE
INVARIANTS
  RestoredOutputsAreCurrent
  TypeOK
  TreeIsTrue
  CINeverServesDisk
  NotModifiedIsCurrent
  BaselineIsAuthorised
  GreenCheckHidesNothing
  AppliedNoticeIsWritten
PROPERTIES
  NoticesKeepOtherRows
