SPECIFICATION Spec
CONSTANTS
  MaxSelections = 2
  Cap = 1
INVARIANT UntilDone
CHECK_DEADLOCK FALSE
