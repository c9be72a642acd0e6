SPECIFICATION Spec
CONSTANTS
  NPROC = 3
  NCPU = 2
  MaxSleep = 1
  UserCalls <- Mixed
INVARIANTS StackSafe NoLostChild ParentAlive NoLostTick IInv
