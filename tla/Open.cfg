\* Three processes that open, write, close and open again; two of them may die,
\* the system calls of one of these may fail.  Processes may all be dead in the end.
SPECIFICATION FairSpec
CONSTANTS
  p1 = p1
  p2 = p2
  p3 = p3
  Processes = {p1, p2, p3}
  MaxWrites = 2
  MayCrash  = {p1, p2}
  MayFail   = {p1}
INVARIANTS
  TypeOK
  OneConstructor
  OpenSlotIsConstructed
PROPERTIES
  SlotSeqCountsUp
  OpenOfConstructedSucceeds
CHECK_DEADLOCK FALSE
