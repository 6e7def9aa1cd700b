CONSTANTS
  Cols = {"a", "b", "c"}
  N = 3
  Kinds = {"select", "union", "lit", "attach", "step", "frag", "project", "cross", "semijoin", "funcall", "trace"}
  InjectiveProj = TRUE
  GoalDominates = TRUE
SPECIFICATION Spec
INVARIANTS TraceTypeOK TraceMatchesReference PruneExact
CHECK_DEADLOCK FALSE
