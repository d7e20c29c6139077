SPECIFICATION FairSpec
CONSTANTS
  daemon = daemon
  c1 = c1
  c2 = c2
  Daemon = daemon
  Commands <- OneCommand
  NumBinaries = 1
  MaxTag = 2
  Unordered = {2}
  Interval = 2
  CommandKinds <- CheckOrApply
  Modes <- ApplyOnly
  Switches <- AlwaysOn
  DevVersion = FALSE
  DirtyBuild = FALSE
  MaxCommands = 1
  MaxFaults = 1
PROPERTIES
  RelaunchIsWarranted
  PacedRuns
  NeverDowngrades
  DaemonCatchesUp
  InstallsOneByOne
