SPECIFICATION Spec
CHECK_DEADLOCK FALSE
CONSTANTS
  p1 = p1
  p2 = p2
  p3 = p3
  Pids = {p1, p2, p3}
  RootPids = {p3}
  MaxBorn = 0
  MaxCpu = 1
  MaxTracked = 3
  TopN = 1
  FullEvery = 2
INVARIANTS
  DeltaIsUse
