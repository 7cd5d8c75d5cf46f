CONSTANTS
  Graphs <- MCGraphs
  Garbage = {0, 2}
  kBitsPerWord = 64
  CodeLength = 3
  Places = {0, 1, 5}
SPECIFICATION Spec
INVARIANTS
  TypeOK
  PreorderIsTree
  PredecessorsExact
  PostorderExact
  DominatorsDominate
  ExactUnlessLowered
  NothingAssigned
  OneIndexEach
PROPERTY Finishes
CHECK_DEADLOCK FALSE
