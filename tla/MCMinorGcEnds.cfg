SPECIFICATION FairSpec
CONSTANTS
  Cell = {c1, c2}
  NChunks = 2
  MaxRefs = 5
  HeapUnits = 1
  NULL = NULL
  Nil = Nil
PROPERTY CollectionEnds
CHECK_DEADLOCK FALSE
