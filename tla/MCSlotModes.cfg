SPECIFICATION FairSpec
CONSTANTS
  p1 = p1
  p2 = p2
  p3 = p3
  Pids = {1, 2}
  MaxGen = 1
  MaxPids = 2
  DefaultTopN = 1
  Cores = {0, 1}
  MaxCores = 2
  CommandLines <- MCModeLines
  Stale = 0
  SlowEvery = 2
  SyncEvery = 3
  MaxSleep = 1
INVARIANTS
  DistinctPids
  SlotCoherent
  AllExamined
PROPERTIES
  Stops
  DeadForgotten
CHECK_DEADLOCK FALSE
