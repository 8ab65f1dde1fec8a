SPECIFICATION Spec
CONSTANTS
  ResetTimes = {9, 11}
  MaxFaults = 1
  Burst <- TwoPackets
  Declared = 63
  Driver <- OnlyE12b
INVARIANT CorruptMeansBad
