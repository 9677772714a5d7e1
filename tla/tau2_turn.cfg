CONSTANTS
  Calls <- MCCalls
  Dbs <- MCDbs
  Apply <- MCApply
  Arms = {"fenced", "json"}
  MaxTurns = 2
  MaxCalls = 2
SPECIFICATION Spec
INVARIANT TurnIsHandedOver
PROPERTY ImplementsDirect
\* The customer stops after MaxTurns messages, and a failed task ends.
CHECK_DEADLOCK FALSE
