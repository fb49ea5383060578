SPECIFICATION Spec
CONSTANTS
  MaxLives = 1
  MaxEvents = 2
  Cpus = 1
  Capacity = 2
  Modulus = 16
INVARIANTS
  NoPhantomSwitches
CHECK_DEADLOCK FALSE
