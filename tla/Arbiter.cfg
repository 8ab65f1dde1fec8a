SPECIFICATION Spec
CONSTANTS
  s1 = s1
  s2 = s2
  b1 = b1
  b2 = b2
  f1 = f1
  f2 = f2
  f3 = f3
  rA = rA
  rB = rB
  Flows = {f1, f2, f3}
  Sources = {s1, s2}
  Bms = {b1, b2}
  SrcOf <- MCSrcOf
  DstOf <- MCDstOf
  Rollouts = {rA, rB}
  Manifests <- MCManifests
  Digests <- MCDigests
  Capacity = 1
  TTL = 2
  DisableRat = FALSE
  DisableR6 = FALSE
  MaxTime = 3
  MaxDigests = 2
INVARIANTS
  TypeOK
  AllowJustified
  SlotsWithinCap
  AllowHasSlot
  OfflineAgrees
CHECK_DEADLOCK FALSE
