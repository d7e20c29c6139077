SPECIFICATION FairSpec
CONSTANTS
  cli = cli
  tray = tray
  v1 = v1
  v2 = v2
  Absent = Absent
  Partial = Partial
  NoFile = NoFile
  NoBinary = NoBinary
  Binaries <- MCBinaries
  Tags <- MCTags
  Requests <- DryRequests
  MayBeAbsent = {}
  Faults <- SafeFaults
  KillPoints <- SafeKillPoints
  MaxFaults = 2
  MaxKills = 2
INVARIANTS
  TypeOK
  Recoverable
  RecoveredSet
  IInv
PROPERTIES
  ValidatedBeforeRename
  AtomicSpec
  EventuallySettled
