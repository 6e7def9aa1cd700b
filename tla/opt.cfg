CONSTANTS
  BaseVars = {1, 2}
  MaxInstrs = 3
  Kinds = {"join", "leftjoin", "semijoin", "other"}
  Types = {"oid"}
  BaseType <- MCBaseTypeOid
  AllocFailures = {"fuserBlock", "subCandidates", "subBlock"}
SPECIFICATION Spec
CHECK_DEADLOCK FALSE
INVARIANTS
  TypeOK
  SemanticsPreserved
  DefBeforeUse
  NoOpIffZeroActions
  SharedJoinOnce
