CONSTANTS
  MaxReplies = 3
  MaxOpens = 4
  MaxRuns = 2
SPECIFICATION LoopSpec
INVARIANTS
  CallIsTheModels
  EveryCallAnswered
  BilledOnce
\* The runs are over, or the bound on requests is reached.
CHECK_DEADLOCK FALSE
