CONSTANTS
  BaseVars = {1, 2}
  MaxInstrs = 1
  Kinds = {"join"}
  Types = {"oid"}
  BaseType <- MCBaseTypeOid
  AllocFailures = {"fuserMaps"}
SPECIFICATION Spec
CHECK_DEADLOCK FALSE
INVARIANT
  SemanticsPreserved
