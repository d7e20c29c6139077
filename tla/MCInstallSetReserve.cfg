SPECIFICATION Spec
CONSTANTS
  cli = cli
  tray = tray
  v1 = v1
  v2 = v2
  Absent = Absent
  Partial = Partial
  NoFile = NoFile
  NoBinary = NoBinary
  Binaries <- MCBinaries
  Tags <- MCTags
  Requests <- WholeRequests
  MayBeAbsent = {}
  Faults = {"link"}
  KillPoints = {"reserved", "copying"}
  MaxFaults = 1
  MaxKills = 1
INVARIANT
  RecoveredSet
