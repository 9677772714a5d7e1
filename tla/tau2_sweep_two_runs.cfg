CONSTANTS
  Tasks = {"t1"}
  Drivers = {"d1", "d2"}
  Plan <- TwoRuns
  MaxAttempts = 1
  MaxKills = 1
  MaxCrashes = 1
SPECIFICATION Spec
INVARIANT OneWriter
\* Every driver exits.
CHECK_DEADLOCK FALSE
