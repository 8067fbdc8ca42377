\* The pass ends, and the stage after its last security: the system stops.
CONSTANTS
  a = a
  b = b
  Order <- TwoSecurities
  IssuersOf <- TwoIssuers
  LastSeen <- Seen
  Ciks = {0, 1, 2}
  MaySucceed <- ChainOrJoin
  RunDate = 2
  FreshDays = 1
  MaxRegistrants = 2
  OldHits = FALSE
  w1 = w1
  w2 = w2
  file = file
  client = client
  None = None
  Workers <- MCWorkers
  Locks <- MCLocks
  Count = 3
  MaxReads = 2
SPECIFICATION StageOrPassSpec
INVARIANTS IssuersFormsFound ObjectsExclusive OneLateRequest NothingSkipped
PROPERTIES PassEnds
CHECK_DEADLOCK FALSE
