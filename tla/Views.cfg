\* Three slots, so that a scan has targets behind the one that a callback erases; a thread
\* that reads, scans, writes and changes its subscriptions, also in callbacks; another
\* thread that writes.  The thread may block on a view of its own.
SPECIFICATION FairSpec
CONSTANTS
  Slots = {s1, s2, s3}
  MaxWrites = 2
  MaxCalls = 2
INVARIANTS
  TypeOK
  LocksAreViews
  NoTargetTwice
  SeenIsShown
  ScanShowsAll
PROPERTIES
  ImplementsSubscriptions
  WritersGetIn
CHECK_DEADLOCK FALSE
