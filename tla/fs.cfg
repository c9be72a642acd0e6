SPECIFICATION Spec
CONSTANTS
  Process = {p, q}
  Inum = {1, 2, 3}
  Name = {"x"}
  Paths <- MCPaths
  NewPaths <- MCNewPaths
  NFILE = 2
  MaxCalls = 4
  MayCrash = TRUE
INVARIANTS PanicsAfterScan RefsCounted Coherent LinksCover LinksExact
CHECK_DEADLOCK FALSE
SYMMETRY Processes
