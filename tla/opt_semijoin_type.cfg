CONSTANTS
  BaseVars = {1, 2}
  MaxInstrs = 2
  Kinds = {"semijoin"}
  Types = {"oid", "int"}
  BaseType <- MCBaseTypeSemi
  AllocFailures = {}
SPECIFICATION Spec
CHECK_DEADLOCK FALSE
INVARIANT
  TypePreserved
