SPECIFICATION Spec
CONSTANTS
  Daemons = {"service", "calibrate"}
  MaxStarts = 1
INVARIANTS
  CalibrationCollidesNot
CHECK_DEADLOCK FALSE
