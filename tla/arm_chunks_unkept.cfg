CONSTANTS
  Copies = {"a", "b", "c"}
  First <- Begin
  Chunks = 2
  Attempts = 3
  Repeats = 2
  Watched = 0
  CarefulClear = FALSE
  MaxKills = 1
  MaxClears = 1
SPECIFICATION Spec
\* Locks cleared while the arm goes on: the code does not keep this, TLC finds it violated.
INVARIANT NeverPastRepeats
\* The copies that are started end.
CHECK_DEADLOCK FALSE
