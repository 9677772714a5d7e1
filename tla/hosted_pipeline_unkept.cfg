SPECIFICATION Spec
CONSTANTS
  Channels = {"object", "text"}
  Agents = 3
  Table <- Tables
  Junk = "junk"
  Missing = "missing"
  Undefined = "undefined"
  Unreadable = "unreadable"
  Rule <- Rules
  Expected <- Reference
  Accepted <- Accepting
  Budget = 2
  MaxNudges = 1
  Naming = {FALSE, TRUE}
  MaxAttempts = 2
CHECK_DEADLOCK FALSE
\* The code does not keep these: TLC finds each of them violated.
INVARIANTS
  CauseIsNamed
  FirstOnlyIfTheRestFaithful
  ContractIsTheFirstWrong
  SourceReadsSeen
  RightTablesNotKept
  InjectionConfirmed
