SPECIFICATION Spec
CONSTANTS
  Procs = {1, 2, 3}
  MaxPids = 3
  Hosts <- MCHosts
INVARIANTS
  TypeOK
  OwnEvents
  NoFdLeak
PROPERTIES
  CountedUntilExit
CHECK_DEADLOCK FALSE
