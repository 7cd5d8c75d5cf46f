SPECIFICATION JitSpec
CONSTANTS
  MaxLits = 5
  Opers = {"add"}
  Sources <- MCSources
  Lits = {}
  Locals = {}
  TreeOpers = {}
  Exprs <- MCExprs
  Programs = {}
  NULL = NULL
INVARIANT AlwaysReturnsLastValue
CHECK_DEADLOCK FALSE
