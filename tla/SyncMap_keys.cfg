SPECIFICATION MCSpec
CONSTANTS
  Proc = {p1, p2}
  Key = {a, b}
  Entry = {1, 2, 3, 4}
  Kinds = {"Load", "Swap", "LoadAndDelete", "Range", "LoadOrStore", "CompareAndSwap", "CompareAndDelete"}
  Nil = Nil
  Expunged = Expunged
  NoEntry = NoEntry
  NoKey = NoKey
  Free = Free
SYMMETRY Symmetry
PROPERTIES Linearizable RangeSees
CHECK_DEADLOCK FALSE
