SPECIFICATION Spec
CONSTANTS
  Procs = {1, 2, 3}
  MaxPids = 3
  Hosts <- MCPerCoreHosts
INVARIANTS
  StdinKept
CHECK_DEADLOCK FALSE
