\* One writer, one waiter: a message that lands between a scan and the next wait.
SPECIFICATION Spec
CONSTANTS
  s1 = s1
  p1 = p1
  w1 = w1
  Slots        = {s1}
  Writers      = {p1}
  Waiters      = {w1}
  Lengths      = {1}
  WakeFlags    = {TRUE}
  SeqMod       = 4
  MaxWake      = 1
  MaxWrites    = 2
  MayCrash     = {}
  MayInterrupt = {}
INVARIANTS
  NoSleepOnUnseen
CHECK_DEADLOCK FALSE
