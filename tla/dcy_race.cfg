CONSTANTS
  Names = {"C", "c", "d"}
  Fold <- MCFoldClients
  Accesses = {0}
  PartIds = {0}
  DCYPARTITIONS = 2
  MaxCalls = 3
  Clients = {c1, c2}
INIT ClientInit
NEXT ClientNext
INVARIANT
  UniqueEntries
CHECK_DEADLOCK FALSE
