SPECIFICATION FairSpec
CONSTANTS
  Daemons = {"service"}
  MaxStarts = 4
INVARIANTS
  TypeOK
  ServingVisible
  NoStaleNames
PROPERTIES
  DrainedNotReset
  TerminateEnds
CHECK_DEADLOCK FALSE
