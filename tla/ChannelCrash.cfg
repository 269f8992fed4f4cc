\* Two slots, two writers and a waiter; all of them may die or get a signal at any
\* point.  After MaxWrites calls, or crashes, everyone may stop.
SPECIFICATION Spec
CONSTANTS
  s1 = s1
  s2 = s2
  p1 = p1
  p2 = p2
  w1 = w1
  Slots        = {s1, s2}
  Writers      = {p1, p2}
  Waiters      = {w1}
  Lengths      = {1, 2}
  WakeFlags    = {TRUE}
  SeqMod       = 3
  MaxWake      = 1
  MaxWrites    = 2
  MayCrash     = {p1, p2, w1}
  MayInterrupt = {p1, p2, w1}
SYMMETRY Symmetry
INVARIANTS
  TypeOK
  HeaderMatchesData
  ViewIsFresh
  SleeperIsOwedAWake
PROPERTIES
  ImplementsMailbox
CHECK_DEADLOCK FALSE
