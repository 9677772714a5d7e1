CONSTANTS
  Depth = 3
  Limit = 1
  MaxCalls = 3
  MaxSpent = 2
SPECIFICATION Spec
INVARIANTS
  LossesSurface
  AttemptIsItsOwn
  JudgedOnItsRun
\* A case ends.
CHECK_DEADLOCK FALSE
