SPECIFICATION Spec
CONSTANTS
  NumParts = 4
  NumSectors = 3
  MaxWrites = 6
  MaxFaults = 3
CHECK_DEADLOCK FALSE
INVARIANTS TypeOK NeverOverwritesNewest
PROPERTIES ImplementsAtomicStore
