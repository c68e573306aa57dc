SPECIFICATION MCSpec
CONSTANTS
  Proc = {p1, p2}
  Key = {a, b}
  Entry = {1, 2, 3, 4}
  Kinds = {"Swap", "LoadAndDelete", "Range", "LoadOrStore", "CompareAndSwap"}
  Nil = Nil
  Expunged = Expunged
  NoEntry = NoEntry
  NoKey = NoKey
  Free = Free
INVARIANTS TypeOK EntryRule
PROPERTIES LockFree
CHECK_DEADLOCK FALSE
