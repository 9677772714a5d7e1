CONSTANTS
  Tasks = {"t1", "t2"}
  Drivers = {"d1", "d2"}
  Plan <- SameRun
  MaxAttempts = 1
  MaxKills = 1
  MaxCrashes = 1
SPECIFICATION FairSpec
INVARIANTS
  OneWriter
  ResultsKept
  RunOnceUnlessKilled
PROPERTY EveryDriverEnds
\* Every driver exits.
CHECK_DEADLOCK FALSE
