\* One writer, one reader: a message that lands between the load of the length and
\* the lock.
SPECIFICATION Spec
CONSTANTS
  s1 = s1
  p1 = p1
  w1 = w1
  Slots        = {s1}
  Writers      = {p1}
  Waiters      = {w1}
  Lengths      = {1, 2}
  WakeFlags    = {TRUE}
  SeqMod       = 4
  MaxWake      = 1
  MaxWrites    = 2
  MayCrash     = {}
  MayInterrupt = {}
INVARIANTS
  SpanMatchesMessage
CHECK_DEADLOCK FALSE
