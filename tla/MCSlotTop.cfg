SPECIFICATION Spec
CONSTANTS
  p1 = p1
  p2 = p2
  p3 = p3
  Pids = {p1, p2, p3}
  MaxGen = 0
  MaxPids = 2
  DefaultTopN = 1
  Cores = {0}
  MaxCores = 2
  CommandLines <- MCPerCoreLines
  Stale = 2
  SlowEvery = 2
  SyncEvery = 3
  MaxSleep = 2
SYMMETRY MCSymmetry
CONSTRAINT MCRunning
INVARIANTS
  TypeOK
  DistinctPids
  SlotCoherent
  FreshPush
  ExaminedOnce
CHECK_DEADLOCK FALSE
