SPECIFICATION Spec
CONSTANTS
  Process = {p, q}
  Inum = {1, 2, 3}
  Name = {"x"}
  Paths <- MCPaths
  NewPaths <- MCNewPaths
  NFILE = 2
  MaxCalls = 4
  MayCrash = FALSE
INVARIANT NoOrphan
CHECK_DEADLOCK FALSE
