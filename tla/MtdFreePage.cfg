SPECIFICATION Spec
CONSTANTS
  NumBlocks = 3
  PagesPerBlock = 3
  BadBlocks <- NoBadBlocks
  MaxWrites = 4
  MaxFaults = 0
INVARIANTS PointsToFreePage
CHECK_DEADLOCK FALSE
