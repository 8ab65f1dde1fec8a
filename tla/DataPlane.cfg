SPECIFICATION TwinSpec
CONSTANTS
  good = good
  rogue = rogue
  b1 = b1
  b2 = b2
  fOwn = fOwn
  fShared = fShared
  fRogue1 = fRogue1
  fRogue2 = fRogue2
  Sources <- MCSources
  Bms <- MCBms
  Flows <- MCFlows
  SrcOf <- MCSrcOf
  DstOf <- MCDstOf
  Authorized <- MCAuthorized
  Indexed <- MCIndexed
  Packets <- MCPackets
  Slots <- MCSlots
  SlotOf <- MCSlotOf
  Cells <- MCCells
  CellOf <- MCCellOf
  ArmSlots <- MCArmSlots
  ArmSlotOf <- MCArmSlotOf
  ClockMod = 4
  R1Interval = 2
  UnitBytes = 1
  R4MaxUnits = 1
  BytesMod = 4
  R5Threshold = 0
  CountMod = 2
  OverrideSize = 1
INVARIANTS
  TypeOK
  RollbackFloor
  NotPoisoned
  SameVerdict
  Agreement
PROPERTY
  PassIsFresh
CHECK_DEADLOCK FALSE
