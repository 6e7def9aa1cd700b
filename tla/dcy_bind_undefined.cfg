CONSTANTS
  Names = {"C", "c", "d"}
  Fold <- MCFold
  Accesses = {0}
  PartIds = {0}
  DCYPARTITIONS = 2
  MaxCalls = 3
  Builds = {TRUE}
  MaxInstrs = 3
  DCYREGS = 8
  SLACK = 3
  NEWARG_WIDTH = 3
  AllocFailures = {"init", "grow"}
  RegistryDuringPass = FALSE
  FBun <- MCFBun
  LBun <- MCLBun
SPECIFICATION Spec
INVARIANTS
  BindOptDefBeforeUse
CHECK_DEADLOCK FALSE
