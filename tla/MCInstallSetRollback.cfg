SPECIFICATION Spec
CONSTANTS
  cli = cli
  tray = tray
  v1 = v1
  v2 = v2
  Absent = Absent
  Partial = Partial
  NoFile = NoFile
  NoBinary = NoBinary
  Binaries <- MCBinaries
  Tags <- MCTags
  Requests <- WholeRequests
  MayBeAbsent = {cli, tray}
  Faults <- RollbackFaults
  KillPoints = {"check", "stage", "validate", "cleanup", "unmark", "drop"}
  MaxFaults = 2
  MaxKills = 1
INVARIANTS
  ReturnedRunIsWhole
