SPECIFICATION FairSpec
CONSTANTS
  Threads = {t1, t2}
  Names = {n1, n2, bad}
  Invalid = {bad}
  Buffers = {b1, b2, b3}
  KeysStayAlive = TRUE
  NoThread = NoThread
  MaxCalls = 4
INVARIANTS TypeOK NoInternalError
PROPERTIES ImplementsDirectory EveryCallReturns
CHECK_DEADLOCK FALSE
