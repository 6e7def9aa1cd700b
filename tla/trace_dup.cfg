CONSTANTS
  Cols = {"a", "b"}
  N = 3
  Kinds = {"select", "union", "lit", "attach", "step", "frag", "project", "cross", "semijoin", "funcall", "trace"}
  InjectiveProj = FALSE
  GoalDominates = TRUE
SPECIFICATION Spec
INVARIANTS TraceMatchesReference
CHECK_DEADLOCK FALSE
