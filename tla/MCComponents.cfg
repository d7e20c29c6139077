SPECIFICATION ComponentsSpec
CONSTANTS
  r1 = r1
  r2 = r2
  fine = fine
  broken = broken
  plain = plain
  tagged = tagged
  Runs <- TwoRuns
  Together = 2
  NumBins = 1
  Passes = 2
  Proof <- MCProof
  Modes <- MCModes
  Contents <- MCContents
  Good <- MCGood
  Settings <- OneSetting
  MaxEdits = 1
  MaxMishaps = 1
  ServiceCalls = {1, 2, 3}
  Definitions = {"old", "new"}
  MaxFailures = 1
  ReleasePlatforms = {"darwin", "linux"}
  Darwin = {"darwin"}
  ReleaseBins = {"app", "tool"}
  Filter <- MCFilter
  darwinSignAttempts = 2
  MaxReruns = 2
  ByName = {"main.go"}
  Payloads = {"embedded"}
  Codegen = {"schema"}
  Documents = {"README"}
  MaxVersion = 2
  MaxCommits = 3
  MaxPushes = 3
  Builds = {1}
  WorkflowRuns = {"first", "second"}
  ciProofClockSkew = 1
  Lifetime = 1
  MaxDrift = 1
  MaxTicks = 4
  MaxKey = 2
  Makes = {1, 2}
  MaxCrash = 1
  ReleaseJobs = {"release", "release too"}
  CIJobs = {"ci"}
  Canonical = {"release", "ci"}
  DirOf <- MCDirOf
  Names = {"app", "tool"}
  OwnJobs <- MCOwnJobs
  MaxOwnerEdits = 1
  MaxTorn = 1
SYMMETRY EitherRun
CHECK_DEADLOCK FALSE
INVARIANTS
  StampsAreTrue
  QuietServiceIsCurrent
  ReleasedIsWhole
  SkippedRunHasNothingToGate
  SkippedGatesAreTheRuns
  EngineServesItsConsumer
  ScaffoldSettles
PROPERTIES
  ReusedIsBuilt
