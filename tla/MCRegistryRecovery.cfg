CONSTANTS
  Device = {d1, d2}
  Assoc = {a1}
  Tcp = {}
  NoDevice = nodevice
  NoAssoc = noassoc
  MaxGeneration = 1
  MaxRecoveries = 1
  MaxLookups = 1
  MayRefuse = TRUE
SPECIFICATION FairSpec
PROPERTY DetachedEnds
