SPECIFICATION FairSpec
CONSTANTS
  Block = {b1, b2, b3}
  Value = {v0, v1}
  Process = {p1, p2}
  Uncached = Uncached
  InodeBlock = b1
  MAXOPBLOCKS = 1
  LOGSIZE = 3
  LogBlocks = 3
  OpBlocks = 1
INVARIANTS TypeOK QuiescentDurable Pinned Reserved
PROPERTIES StoreSpec CallsBegin
