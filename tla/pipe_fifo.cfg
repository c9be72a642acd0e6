SPECIFICATION FairSpec
CONSTANTS
  Process = {p1, p2}
  Byte = {x, y}
  PIPESIZE = 2
  UintMod = 4
  MaxN = 3
INVARIANTS FreedUnused NoLostWakeup
PROPERTIES ChannelSpec ClosedEnds
CHECK_DEADLOCK FALSE
