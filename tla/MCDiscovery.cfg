SPECIFICATION Spec
CHECK_DEADLOCK FALSE
SYMMETRY MCSymmetry
CONSTANTS
  p1 = p1
  p2 = p2
  p3 = p3
  Pids = {p1, p2, p3}
  RootPids = {p3}
  MaxBorn = 1
  MaxCpu = 1
  MaxTracked = 2
  TopN = 1
  FullEvery = 2
INVARIANTS
  TypeOK
  RankedSeen
  MonitoredKept
  FullScanFinds
  DeltaExact
  FoundInTime
