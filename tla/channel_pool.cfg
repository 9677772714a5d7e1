CONSTANTS
  CaseList <- MCTwoCases
  Repeats = 2
  Concurrency = 2
  MaxAttempts = 2
  OwnTexts = {"stop"}
  OutageTexts = {"refusal"}
  RefusalTexts = {"refusal"}
  MaxStored = 3
  MaxCrashes = 1
  None = None
SPECIFICATION FairSpec
INVARIANTS
  CasesAccounted
  NeverPastRepeats
  SummaryIsTrue
PROPERTIES
  Terminates
  KeepsPromise
