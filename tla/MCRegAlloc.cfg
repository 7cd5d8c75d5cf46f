SPECIFICATION MCSpec
CONSTANTS
  MaxLen = 5
  kNumberOfCpuRegisters = 16
  NULL = NULL
INVARIANTS NothingExpires RegistersApart
CHECK_DEADLOCK FALSE
