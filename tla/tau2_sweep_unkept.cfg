CONSTANTS
  Tasks = {"t1", "t2"}
  Drivers = {"d1", "d2"}
  Plan <- SameRun
  MaxAttempts = 2
  MaxKills = 1
  MaxCrashes = 1
SPECIFICATION Spec
\* The code does not keep these: TLC finds each of them violated.
INVARIANTS
  CostsOnlyMissing
  ResultsSurvive
  DoneIsNumbered
\* Every driver exits.
CHECK_DEADLOCK FALSE
