SPECIFICATION Spec
CONSTANTS
  Words = {1, 3, 4, 8, 11, 12, 16, 17}
  Opers = {"add", "sub", "mul", "div"}
  Lines <- MCLines
  WordBits = 26
  IntBits = 16
  Offsets = {0, 8, 127, 128}
INVARIANT TypeOK
PROPERTIES CodeReturns ImplementsMachine
CHECK_DEADLOCK FALSE
