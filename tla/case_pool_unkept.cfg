CONSTANTS
  Registry <- MCThreeCases
  Concurrencies = {1, 4}
  RecoverAfter = 2
  ScoreInline = TRUE
  MaxInvocations = 2
  MaxWriteFailures = 1
  MaxScoreFailures = 1
SPECIFICATION Spec
INVARIANT ScoringCostsNoCall
\* The driver is started a bounded number of times.
CHECK_DEADLOCK FALSE
