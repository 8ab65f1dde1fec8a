SPECIFICATION Spec
CONSTANTS
  b1 = b1
  Bms = {b1}
  ClockMod = 18
  Half = 9
  Interval = 4
  Period = 3
  Lag = 2
  Gap = 4
  MaxTime = 24
  MaxResets = 1
INVARIANTS
  TypeOK
  NoFalseAlarm
  ReplaySeen
CHECK_DEADLOCK FALSE
