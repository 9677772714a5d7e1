CONSTANTS
  Conversations <- MCConversations
  Budget = 3
  MaxNudges = 2
  MaxResumed = 1
SPECIFICATION Spec
INVARIANTS
  CallsCounted
  AskedFairly
\* An evaluation ends.
CHECK_DEADLOCK FALSE
