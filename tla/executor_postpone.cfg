CONSTANTS
  BUNBits = 5
  SMALL_OPERAND = 4
  Types = {"oid"}
  Bats = {1, 2}
  Missing = Missing
  MaxArgs = 3
  InputDescs <- MCInputDescs
  ResultDescs <- MCResultDescs
  MaxAttempts <- MCMaxAttempts
  AccessResults = {"ok"}
SPECIFICATION Spec
CHECK_DEADLOCK FALSE
INVARIANT
  FailsOnlyWhenAllPostponed
