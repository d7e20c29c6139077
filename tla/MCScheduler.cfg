SPECIFICATION Spec
CONSTANTS
  daemon = daemon
  c1 = c1
  c2 = c2
  Daemon = daemon
  Commands <- OneCommand
  NumBinaries = 2
  MaxTag = 2
  Unordered = {2}
  Interval = 2
  CommandKinds <- AllKinds
  Modes <- AllModes
  Switches <- OnOff
  DevVersion = TRUE
  DirtyBuild = FALSE
  MaxCommands = 1
  MaxFaults = 1
INVARIANTS
  TypeOK
  AppliedWasInstalled
  DevDaemonOnlyChecks
PROPERTIES
  SplitsOnlyBetweenLookUps
