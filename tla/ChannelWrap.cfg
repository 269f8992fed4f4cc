\* A counter of two values, so that it wraps at the second message.
SPECIFICATION FairSpec
CONSTANTS
  s1 = s1
  p1 = p1
  w1 = w1
  Slots        = {s1}
  Writers      = {p1}
  Waiters      = {w1}
  Lengths      = {1}
  WakeFlags    = {TRUE}
  SeqMod       = 2
  MaxWake      = 1
  MaxWrites    = 3
  MayCrash     = {}
  MayInterrupt = {}
PROPERTIES
  ScanVisitsChanged
CHECK_DEADLOCK FALSE
