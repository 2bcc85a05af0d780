CONSTANTS
  Stream = {s1}
  InitCseq = 1
  MaxCseq = 3
  MaxSeq = 3
  MaxGen = 1
  MaxVersion = 2
  MaxInfo = 1
  Udp = TRUE
  MaxCrashes = 1
  MaxUnknown = 0
SPECIFICATION Spec
INVARIANTS
  TypeOK
  TerminatedMeansEnded
  ReservationsDistinct
  SentCseqReserved
PROPERTY LifecycleSpec
