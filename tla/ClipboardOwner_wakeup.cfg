SPECIFICATION FairSpec
CONSTANTS
  Callers = {c1}
  MaxSets = 1
  PipeCap = 2
  MaxForeign = 0
  CanLose = FALSE
PROPERTY SetReturns
CHECK_DEADLOCK FALSE
