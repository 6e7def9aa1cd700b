CONSTANTS
  Names = {"C", "c", "d"}
  Fold <- MCFold
  Accesses = {0}
  PartIds = {0}
  DCYPARTITIONS = 2
  MaxCalls = 3
  Builds = {FALSE}
  MaxInstrs = 3
  DCYREGS = 8
  SLACK = 3
  NEWARG_WIDTH = 3
  AllocFailures = {"init", "grow"}
  RegistryDuringPass = TRUE
  FBun <- MCFBun
  LBun <- MCLBun
SPECIFICATION Spec
INVARIANTS
  UnpinsMatch
CHECK_DEADLOCK FALSE
