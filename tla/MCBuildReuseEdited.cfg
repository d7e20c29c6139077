SPECIFICATION Spec
CONSTANTS
  r1 = r1
  r2 = r2
  fine = fine
  broken = broken
  plain = plain
  tagged = tagged
  Runs <- TwoRuns
  Together = 2
  NumBins = 1
  Passes = 1
  Proof <- NoProof
  Modes <- GateOnly
  Contents <- MCContents
  Good <- MCGood
  Settings <- OneSetting
  MaxEdits = 1
  MaxMishaps = 0
CHECK_DEADLOCK FALSE
PROPERTIES
  ReuseIsSound
