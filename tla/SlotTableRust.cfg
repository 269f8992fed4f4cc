SPECIFICATION FairSpec
CONSTANTS
  Threads = {t1}
  Names = {n1, n2}
  Invalid = {}
  Buffers = {b1}
  KeysStayAlive = FALSE
  NoThread = NoThread
  MaxCalls = 3
INVARIANTS ReturnsSlotAskedFor
CHECK_DEADLOCK FALSE
