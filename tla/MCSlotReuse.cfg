SPECIFICATION FairSpec
CONSTANTS
  p1 = p1
  p2 = p2
  p3 = p3
  Pids = {1}
  MaxGen = 1
  MaxPids = 1
  DefaultTopN = 1
  Cores = {}
  MaxCores = 1
  CommandLines <- MCDefaultLine
  Stale = 2
  SlowEvery = 2
  SyncEvery = 3
  MaxSleep = 1
PROPERTIES
  ReusedPidMeasured
CHECK_DEADLOCK FALSE
