SPECIFICATION JitSpec
CONSTANTS
  MaxLits = 6
  Opers = {"add", "sub"}
  Sources <- MCSources
  Lits = {1, 2}
  Locals = {"x"}
  TreeOpers = {"sub"}
  Exprs <- MCExprs
  Programs <- MCPrograms
  NULL = NULL
INVARIANTS TypeOK OperandsOnTop TempsBalanced BuildsProgram
  ReturnsLastValue KeepsCallersRegisters OperandsIntact
PROPERTY Terminates
CHECK_DEADLOCK FALSE
