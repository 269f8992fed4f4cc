\* Three lock calls with signals and crashes anywhere: any client may die, so the system
\* may come to a stop.  Width and MaxWake are as small as the assumptions allow.
SPECIFICATION FairSpec
CONSTANTS
  Clients  = {c1, c2, c3}
  MayCrash = {c1, c2, c3}
  Width    = 5
  MaxWake  = 3
INVARIANTS
  TypeOK
  MutualExclusion
  ValueCountsHolders
  SleepersHaveWaker
PROPERTIES
  WordNeverWraps
  ReaderJoinsReaders
  ImplementsRwLock
  SleeperWakes
  DeadlockFree
CHECK_DEADLOCK FALSE
