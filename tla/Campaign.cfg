SPECIFICATION Spec
CONSTANTS
  ResetTimes = {9, 11}
  MaxFaults = 2
  Burst <- TwoPackets
  Declared = 63
  Driver <- Every
INVARIANTS
  TypeOK
  MarkerHonest
  OwnFiles
  ResetsQuiet
  LabRestored
  ResumeComplete
  DumpHonest
  OutvotedAlone
