SPECIFICATION Spec
CONSTANTS
  Cell = {c1, c2}
  NChunks = 3
  MaxRefs = 6
  HeapUnits = 2
  NULL = NULL
  Nil = Nil
INVARIANT SurvivorsApart
SYMMETRY Symmetry
CHECK_DEADLOCK FALSE
