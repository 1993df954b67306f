SPECIFICATION FairSpec
CONSTANTS
  p1 = p1
  p2 = p2
  f1 = f1
  s1 = s1
  s2 = s2
  Publishers = {p1}
  Flushers = {}
  Subs = {s1}
  NoPrimary = TRUE
  Journal = TRUE
  PrimaryCap = 1
  RingCap = 1
  MaxItems = 2
  MaxBytes = 2
  BatchSizes = {1}
  MaxPublishes = 3
  MaxBatches = 0
  MaxLost = 1
PROPERTIES ImplementsFeed SlowOnlyWhenFull ReaderCatchesUp
CHECK_DEADLOCK FALSE
