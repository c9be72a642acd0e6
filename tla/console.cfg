SPECIFICATION FairSpec
CONSTANTS
  Process = {p, q}
  INPUT_BUF = 3
  UintMod = 6
  MaxN = 2
INVARIANTS TypeOK NoLostWakeup
PROPERTIES LinesSpec InputRead
