SPECIFICATION FairSpec
CONSTANTS
  f1 = f1
  f2 = f2
  Flows = {f1, f2}
  Capacity = 2
  TTL = 2
  Signals = {}
  MaxDigests = 3
  MaxTime = 2
  MaxBatch = 2
  MaxLives = 1
  MaxFails = 0
PROPERTY
  LeaseSpec
CHECK_DEADLOCK FALSE
