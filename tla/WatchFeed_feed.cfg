SPECIFICATION Spec
CONSTANTS
  Names = {"a"}
  HiddenNames = {"a"}
  Enrichable = {"a"}
  PendingCap = 1
  KernelCap = 1
  AttachOnOpen = {FALSE, TRUE}
  AsksHidden = {FALSE, TRUE}
  MaxOps = 3
  MaxLists = 1
INVARIANTS SeqContiguous NoLostChange FeedInSync
CHECK_DEADLOCK FALSE
