CONSTANTS
  Copies = {"a", "b", "c"}
  First <- Begin
  Chunks = 2
  Attempts = 2
  Repeats = 2
  Watched = 0
  CarefulClear = TRUE
  MaxKills = 1
  MaxClears = 1
SPECIFICATION FairSpec
INVARIANT NeverPastRepeats
PROPERTIES
  EveryChunkSettled
  ChunkAsPromised
\* The copies that are started end.
CHECK_DEADLOCK FALSE
