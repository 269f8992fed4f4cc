\* One process creates the domain, another opens it and writes.
SPECIFICATION FairSpec
CONSTANTS
  p1 = p1
  p2 = p2
  Processes = {p1, p2}
  MaxWrites = 1
  MayCrash  = {}
  MayFail   = {}
PROPERTIES
  DomainSeqCountsUp
CHECK_DEADLOCK FALSE
