CONSTANTS
  Names = {"C", "c", "d"}
  Fold <- MCFold
  Accesses = {0}
  PartIds = {0, 1}
  DCYPARTITIONS = 2
  MaxCalls = 3
  Builds = {FALSE, TRUE}
  MaxInstrs = 3
  DCYREGS = 8
  SLACK = 3
  NEWARG_WIDTH = 3
  AllocFailures = {"init", "grow"}
  RegistryDuringPass = FALSE
  FBun <- MCFBun
  LBun <- MCLBun
SPECIFICATION Spec
INVARIANTS
  RegTypeOK
  NoGarbageRead
  OptTypeOK
  DefBeforeUse
  UnpinsMatch
  NoActionsNoChange
  MatHubCovers
CHECK_DEADLOCK FALSE
