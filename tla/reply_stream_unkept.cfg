CONSTANTS
  Blocks <- MCFencedTag
  MaxBlocks = 4
  MaxFailures = 1
SPECIFICATION StreamSpec
INVARIANTS
  SwallowedHoweverCut
  ClosingTagCloses
\* A reply that was read to its end is read no further.
CHECK_DEADLOCK FALSE
