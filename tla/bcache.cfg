SPECIFICATION FairSpec
CONSTANTS
  a = a
  b = b
  m = m
  v = v
  w = w
  Process = {p, q}
  Block = {a, b, m}
  Inner = {m}
  Value = {v, w}
  Contents <- OneWritten
  NBUF = 2
  MaxPinned = 1
  Zero = v
  None = None
INVARIANTS OneCopy QueueOwned RefsAccounted
PROPERTIES CacheSpec IoReturns
