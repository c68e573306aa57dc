SPECIFICATION FairSpec
CONSTANTS
  Names = {"a", "h"}
  HiddenNames = {"h"}
  Enrichable = {}
  PendingCap = 1
  KernelCap = 1
  AttachOnOpen = {FALSE, TRUE}
  AsksHidden = {FALSE}
  MaxOps = 3
  MaxLists = 0
INVARIANT TypeOK
PROPERTIES Converges GoneTold
CHECK_DEADLOCK FALSE
