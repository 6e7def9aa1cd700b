CONSTANTS
  BaseVars = {1, 2}
  MaxInstrs = 3
  Kinds = {"join"}
  Types = {"oid"}
  BaseType <- MCBaseTypeOid
  AllocFailures = {}
SPECIFICATION Spec
CHECK_DEADLOCK FALSE
INVARIANT
  SharedJoinReferencedByAll
