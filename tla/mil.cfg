CONSTANTS
  MIL_MAXCHILD = 12
  RES = 2
  Idents <- MCIdents
  Types = {"oid", "int"}
  UsedLeaves = {"lit_int", "comment"}
  UsedWires = {"reverse", "join", "select2"}
  MaxNodes = 3
  MaxSeq = 3
  NDEBUG = FALSE
SPECIFICATION Spec
CHECK_DEADLOCK FALSE
INVARIANTS
  MilTypeOK
  SeqFlattens
  VarNamesDistinct
