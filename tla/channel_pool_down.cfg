CONSTANTS
  CaseList <- MCTwoCases
  Repeats = 2
  Concurrency = 2
  MaxAttempts = 2
  OwnTexts <- MCStopTexts
  OutageTexts <- MCStopTexts
  RefusalTexts = {"Connect call failed", "Connection error"}
  MaxStored = 0
  MaxCrashes = 1
  None = None
SPECIFICATION Spec
PROPERTIES
  OutageCostsNothing
