SPECIFICATION Spec
CONSTANTS
  f1 = f1
  f2 = f2
  Flows = {f1, f2}
  Capacity = 1
  TTL = 1
  Signals = {"stop", "reset"}
  MaxDigests = 3
  MaxTime = 2
  MaxBatch = 2
  MaxLives = 2
  MaxFails = 1
INVARIANTS
  TypeOK
  Scheduled
CHECK_DEADLOCK FALSE
