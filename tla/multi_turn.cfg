CONSTANTS
  Tasks <- MCTasks
  Limits <- MCLimits
  Concurrency = 1
  HasDeadline = TRUE
  MaxInvocations = 2
  MaxSigterms = 1
  MaxKills = 1
  Watched = "t1"
  Methods = {"buy", "refuse"}
  Refusing = {"refuse"}
  Turns = 2
  MaxSteps = 1
  MaxCalls = 1
  Direct = "direct"
SPECIFICATION BenchSpec
INVARIANTS
  BenchTypeOK
  SolvedInOneConversation
  RecordedAsItWent
PROPERTIES
  JudgedOnceAndForAll
  Ends
\* The runner is not started again for ever.
CHECK_DEADLOCK FALSE
