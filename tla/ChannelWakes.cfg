\* Two slots, one of them not subscribed to, or subscribed with wakeWith = false.
SPECIFICATION Spec
CONSTANTS
  s1 = s1
  s2 = s2
  p1 = p1
  w1 = w1
  Slots        = {s1, s2}
  Writers      = {p1}
  Waiters      = {w1}
  Lengths      = {1}
  WakeFlags    = {TRUE, FALSE}
  SeqMod       = 4
  MaxWake      = 1
  MaxWrites    = 1
  MayCrash     = {}
  MayInterrupt = {}
INVARIANTS
  WakesOnlyThatMust
CHECK_DEADLOCK FALSE
