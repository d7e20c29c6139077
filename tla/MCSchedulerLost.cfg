SPECIFICATION Spec
CONSTANTS
  daemon = daemon
  c1 = c1
  c2 = c2
  Daemon = daemon
  Commands <- OneCommand
  NumBinaries = 1
  MaxTag = 1
  Unordered = {1}
  Interval = 2
  CommandKinds <- AllKinds
  Modes <- CheckOrApply
  Switches <- AlwaysOn
  DevVersion = FALSE
  DirtyBuild = FALSE
  MaxCommands = 1
  MaxFaults = 0
INVARIANTS
  AppliedIsLast
