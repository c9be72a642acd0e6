SPECIFICATION FairSpec
CONSTANTS
  NPROC = 3
  NCPU = 1
  MaxSleep = 1
  UserCalls <- Killer
PROPERTIES ZombieStays KilledExits RunnableRuns WaitReturns
