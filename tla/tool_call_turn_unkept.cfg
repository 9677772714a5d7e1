CONSTANTS
  MaxReplies = 3
  MaxOpens = 4
  MaxRuns = 2
SPECIFICATION LoopSpec
\* The code does not keep this: TLC finds it violated.
INVARIANT CostIsTheProviders
\* The runs are over, or the bound on requests is reached.
CHECK_DEADLOCK FALSE
