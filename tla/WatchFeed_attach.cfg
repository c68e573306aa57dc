SPECIFICATION Spec
CONSTANTS
  Names = {"a"}
  HiddenNames = {}
  Enrichable = {}
  PendingCap = 1
  KernelCap = 1
  AttachOnOpen = {FALSE}
  AsksHidden = {FALSE, TRUE}
  MaxOps = 3
  MaxLists = 0
INVARIANT AttachFlushes
CHECK_DEADLOCK FALSE
