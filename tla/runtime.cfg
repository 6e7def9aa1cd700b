CONSTANTS
  Threads = {"w1", "w2"}
  Pcs = {1, 2, 3, 4}
  Traced = {1, 2}
  Bats = {"t1", "t2", "v"}
  Views = {"v"}
  Persistent = {}
  Ret <- MCRet
  Arg <- MCArg
  Size <- MCSize
  MB = 2
  PROFILING = TRUE
  FOOTPRINT = TRUE
  MaxExecs = 4
SPECIFICATION Spec
INVARIANTS RtTypeOK CountsTraced TicksAccounted
CHECK_DEADLOCK FALSE
