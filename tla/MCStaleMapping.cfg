CONSTANTS
  Device = {d1, d2}
  Assoc = {a1, a2}
  Tcp = {a1}
  NoDevice = nodevice
  NoAssoc = noassoc
  MaxGeneration = 2
  MaxRecoveries = 0
  MaxLookups = 0
  MayRefuse = FALSE
SPECIFICATION Spec
INVARIANT ConnectedIsMapped
