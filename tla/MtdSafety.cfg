SPECIFICATION FairSpec
CONSTANTS
  NumBlocks = 4
  PagesPerBlock = 3
  BadBlocks <- FirstBlockBad
  MaxWrites = 3
  MaxFaults = 2
INVARIANTS TypeOK NothingNewer ProgramsInOrder
PROPERTIES ImplementsAtomicStore ReturnsWithTwoCopies WritesReturn
CHECK_DEADLOCK FALSE
