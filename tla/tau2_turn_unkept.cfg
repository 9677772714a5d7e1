CONSTANTS
  Calls <- MCCalls
  Dbs <- MCDbs
  Apply <- MCApply
  Arms = {"json"}
  MaxTurns = 2
  MaxCalls = 2
SPECIFICATION Spec
\* The code does not keep this: TLC finds it violated.
INVARIANT SaysSomething
\* The customer stops after MaxTurns messages, and a failed task ends.
CHECK_DEADLOCK FALSE
