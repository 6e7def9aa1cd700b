CONSTANTS
  Names = {"C", "c", "d"}
  Fold <- MCFold
  Accesses = {0}
  PartIds = {0, 1}
  DCYPARTITIONS = 2
  MaxCalls = 5
INIT RegInit
NEXT RegNext
INVARIANT
  WritesInBounds
CHECK_DEADLOCK FALSE
