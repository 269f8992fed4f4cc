\* Liveness without crashes and signals.  After MaxWrites calls everyone may sleep.
SPECIFICATION FairSpec
CONSTANTS
  s1 = s1
  p1 = p1
  p2 = p2
  w1 = w1
  w2 = w2
  Slots        = {s1}
  Writers      = {p1, p2}
  Waiters      = {w1, w2}
  Lengths      = {1}
  WakeFlags    = {TRUE}
  SeqMod       = 4
  MaxWake      = 2
  MaxWrites    = 2
  MayCrash     = {}
  MayInterrupt = {}
PROPERTIES
  ScanShowsNewMessages
  AnnouncedMessageIsShown
CHECK_DEADLOCK FALSE
