SPECIFICATION Spec
CONSTANTS
  v1 = v1
  v2 = v2
  b1 = b1
  b2 = b2
  b3 = b3
  s1 = s1
  s2 = s2
  Good = {v1, v2}
  Bad = Bad
  Odd = Odd
  Torn = Torn
  Empty = Empty
  Missing = Missing
  Fleet <- MCFleet
  Srcs <- MCSrcs
  DefaultFleet <- MCDefault
  SrcRows = 1
  BmsIndices = 2
  MaxEdits = 3
  MaxLives = 2
INVARIANTS
  TypeOK
  Vetted
  BootApart
PROPERTIES
  KeepsLastGood
  HotReload
CHECK_DEADLOCK FALSE
