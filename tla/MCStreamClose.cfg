CONSTANTS
  Stream = {s1}
  InitCseq = 1
  MaxCseq = 2
  MaxSeq = 2
  MaxGen = 2
  MaxVersion = 0
  MaxInfo = 0
  Udp = FALSE
  MaxCrashes = 0
  MaxUnknown = 1
SPECIFICATION FairSpec
INVARIANTS
  InflightHasTask
  ClosingIsCovered
PROPERTY ClosingEnds
