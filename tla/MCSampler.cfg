SPECIFICATION FairSpec
CONSTANTS
  MaxLives = 2
  MaxEvents = 2
  Cpus = 2
  Capacity = 2
  Modulus = 16
INVARIANTS
  TypeOK
  
  SwitchesAccounted
  IoAccounted
  IdleDropsOnlyRaces
  WindowIsRecent
PROPERTIES
  NameCatchesUp
CHECK_DEADLOCK FALSE
