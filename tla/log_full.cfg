SPECIFICATION Spec
CONSTANTS
  Block = {b1, b2, b3}
  Value = {v0}
  Process = {p1, p2, p3}
  Uncached = Uncached
  MAXOPBLOCKS = 1
  LOGSIZE = 3
  LogBlocks = 3
  InodeBlock = b1
  OpBlocks = 1
SYMMETRY Symmetry
INVARIANTS NoPanic
