SPECIFICATION FairSpec
CONSTANTS
  p1 = p1
  p2 = p2
  f1 = f1
  s1 = s1
  s2 = s2
  Publishers = {p1}
  Flushers = {f1}
  Subs = {}
  NoPrimary = FALSE
  Journal = FALSE
  PrimaryCap = 1
  RingCap = 1
  MaxItems = 1
  MaxBytes = 2
  BatchSizes = {1, 2}
  MaxPublishes = 2
  MaxBatches = 2
  MaxLost = 0
INVARIANTS
  BatchesWhole
  FlushMeansCommitted
  AcceptedIsRecorded
PROPERTIES
  CloseEnds
CHECK_DEADLOCK FALSE
