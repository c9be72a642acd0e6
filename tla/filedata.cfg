SPECIFICATION Spec
CONSTANTS
  Process = {p, q}
  Inode = {f, g}
  File = {f, g}
  InodeOf <- Own
  Source <- Letters
  NBlocks = 5
  BSIZE = 2
  NDIRECT = 1
  NINDIRECT = 2
  BPB = 1
  MAXOPBLOCKS = 6
  Lengths = {1, 3}
  MaxCalls = 3
  Crashes = 1
SYMMETRY Symmetry
INVARIANTS BlocksOwned NoHoles TxnFits
PROPERTIES FileSpec
CHECK_DEADLOCK FALSE
