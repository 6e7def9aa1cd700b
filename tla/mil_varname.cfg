CONSTANTS
  MIL_MAXCHILD = 12
  RES = 2
  Idents <- MCIdentsWide
  Types = {"oid", "int"}
  UsedLeaves = {"lit_int", "comment"}
  UsedWires = {"reverse", "join", "select2"}
  MaxNodes = 2
  MaxSeq = 3
  NDEBUG = TRUE
SPECIFICATION Spec
CHECK_DEADLOCK FALSE
INVARIANT
  VarNamesDistinct
