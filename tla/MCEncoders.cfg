SPECIFICATION FrameSpec
CONSTANTS
  WordBits = 26
  IntBits = 16
  Registers = {0, 4, 5, 11, 12, 13}
  Scales = {0, 3, 4}
  Displacements <- MCDisplacements
  Immediates <- MCImmediates
  Slots <- MCSlots
  Sizes = {0, 1, 2}
  NIL = 4096
  native = 8192
  call_native = 12288
  Names <- MCNames
  MaxScopes = 3
  MaxLocals = 3
INVARIANT LocalsApart
PROPERTY DecodesBack
CHECK_DEADLOCK FALSE
