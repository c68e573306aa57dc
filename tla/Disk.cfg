SPECIFICATION MCSpec
CONSTANTS
  Procs = {p1, p2, p3}
  Paths = {x, y}
  MaxFiles = 2
  MaxCalls = 3
  Displays = {d1}
  Revs = {x, y}
  MaxRuns = 2
  MaxKills = 1
  Jobs = {1, 2}
  Sizes = {"normal"}
  MaxTime = 3
  MaxWrites = 3
  None = None
  Types <- MCTypes
  Alias <- MCAlias
  Parents <- MCParents
  Installed <- MCInstalled
  Files <- MCFiles
  Systems <- MCSystems
  TypeSets <- MCTypeSets
  MaxSets = 2
SYMMETRY Symmetry
INVARIANTS TypesOK Recoverable NothingLost Sticks ThumbsTrue
PROPERTIES EmptyClears TreeKept ChangesOnly
CHECK_DEADLOCK FALSE
