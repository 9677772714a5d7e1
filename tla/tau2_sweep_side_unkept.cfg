CONSTANTS
  Tasks = {"t1", "t2"}
  Drivers = {"d1", "d2"}
  Plan <- SideBySide
  MaxAttempts = 1
  MaxKills = 0
  MaxCrashes = 0
SPECIFICATION Spec
\* The code does not keep these: TLC finds each of them violated.
INVARIANTS
  OneWriter
  EachRunHasItsFile
\* Every driver exits.
CHECK_DEADLOCK FALSE
