CONSTANTS
  BaseVars = {1, 2, 3}
  MaxInstrs = 3
  Kinds = {"join", "leftjoin", "other"}
  Types = {"oid", "void", "int"}
  BaseType <- MCBaseTypeMixed
  AllocFailures = {"fuserBlock", "fuserMaps", "subCandidates", "subBlock"}
SPECIFICATION Spec
CHECK_DEADLOCK FALSE
INVARIANTS
  TypePreserved
