CONSTANTS
  CaseList <- MCTwoCases
  Repeats = 2
  Concurrency = 2
  MaxAttempts = 2
  OwnTexts = {"stop"}
  OutageTexts = {"stop", "refusal"}
  RefusalTexts = {"refusal"}
  MaxStored = 0
  MaxCrashes = 0
  None = None
SPECIFICATION Spec
INVARIANTS
  EveryCaseBroughtUp
