SPECIFICATION Spec
CONSTANTS
  Ids = {a, b, c, d}
  Sizes <- SomeSizes
  Values = {v, w}
  Unit = 2
  MaxItems = 3
  EntrySize = 1
  DataSize = 9
  Missing = missing
SYMMETRY Symmetry
INVARIANTS TypeOK RoomsAreApart FreeSpaceIsThere
PROPERTIES ImplementsItemMap
CHECK_DEADLOCK FALSE
