CONSTANTS
  BUNBits = 5
  SMALL_OPERAND = 4
  Types = {"oid"}
SPECIFICATION Spec
CHECK_DEADLOCK FALSE
INVARIANTS
  TypeOK
  CostMonotoneNoWrap
