SPECIFICATION FairSpec
CONSTANTS
  f1 = f1
  f2 = f2
  Flows = {f1, f2}
  Capacity = 2
  TTL = 2
  Signals = {"stop"}
  MaxDigests = 2
  MaxTime = 2
  MaxBatch = 1
  MaxLives = 1
  MaxFails = 0
PROPERTY
  StopExits
CHECK_DEADLOCK FALSE
