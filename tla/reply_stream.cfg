CONSTANTS
  Blocks <- MCEnvelopes
  MaxBlocks = 3
  MaxFailures = 1
SPECIFICATION FairStream
INVARIANTS
  ParserAgrees
  SameHoweverCut
PROPERTIES
  ReadingEnds
\* A reply that was read to its end is read no further.
CHECK_DEADLOCK FALSE
