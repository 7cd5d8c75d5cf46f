SPECIFICATION Spec
CONSTANTS
  Addr = {a1, a2, a3, a4}
  NULL = NULL
  MaxRefs = 5
  RootLimit = 4
INVARIANTS TypeOK OneSlotPerRoot InBounds
PROPERTY ImplementsRootSet
