SPECIFICATION MCSpec
CONSTANTS
  Tasks = {t1, t2, t3}
  Drainers = {d1}
  Max = 2
  Callers = {c1, c2}
  MaxSets = 3
  PipeCap = 2
  MaxForeign = 1
  CanLose = TRUE
  N = 3
  MaxFlights = 2
  MaxResets = 3
  Scans = {s1}
  Cancels = {k1, k2}
  Entries = 4
  PathEnds = {2}
  CheckRun = 3
  Servers = 3
  Https = {1}
  Ipcs = {2}
  None = None
INVARIANTS TypesOK DrainedAll WorkConserving AgreesWithCompositor
           Unbeatable Prompt SizesTrue
PROPERTIES DrainReturns CloseReturns LeaderServed Wakes Answered StopsCleanly
CHECK_DEADLOCK FALSE
