SPECIFICATION Spec
CONSTANTS
  Process = {p, q}
  Inum = {1, 2, 3}
  Name = {"x"}
  Paths <- MCPaths
  NewPaths <- MCNewPaths
  NFILE = 2
  MaxCalls = 3
  MayCrash = FALSE
INVARIANT NoDeadlock
CHECK_DEADLOCK FALSE
