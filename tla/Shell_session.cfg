SPECIFICATION Spec
CONSTANTS
  Procs = {p1, p2, p3}
  Displays = {d1}
  Revs = {r1}
  MaxRuns = 2
  MaxKills = 0
  None = None
PROPERTY RefusesSecond
CHECK_DEADLOCK FALSE
