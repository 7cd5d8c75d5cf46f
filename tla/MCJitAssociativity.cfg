SPECIFICATION JitSpec
CONSTANTS
  MaxLits = 3
  Opers = {"sub"}
  Sources <- MCSources
  Lits = {}
  Locals = {}
  TreeOpers = {}
  Exprs <- MCExprs
  Programs = {}
  NULL = NULL
INVARIANT FollowsLua
CHECK_DEADLOCK FALSE
