SPECIFICATION Spec
CONSTANTS
  Channels = {"object", "shared", "file", "text"}
  Agents = 3
  Table <- Tables
  Junk = "junk"
  Missing = "missing"
  Undefined = "undefined"
  Unreadable = "unreadable"
  Rule <- Rules
  Expected <- Reference
  Accepted <- Accepting
  Budget = 2
  MaxNudges = 1
  Naming = {FALSE}
  MaxAttempts = 2
CHECK_DEADLOCK FALSE
INVARIANTS
  CrossedIsWhatWasJudged
  CreditedForItsOwn
  FailureIsExplained
