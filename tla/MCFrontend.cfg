SPECIFICATION FrontendSpec
CONSTANTS
  MaxRuns = 3
  MaxEnd = 4
  Units <- MCUnits
  Files <- MCFiles
INVARIANTS TypeOK TokensInOrder NothingDropped ParsesBack NeverMisread
PROPERTIES Finishes
CHECK_DEADLOCK FALSE
