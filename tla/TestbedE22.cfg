SPECIFICATION Spec
CONSTANTS
  Flows <- MCFlows
  Scripts <- MCE22
  Bases = {0}
  ClockPhases = {0}
  WindowPhases = {0}
  ReseedPhases = {0}
  Latencies = {3}
  SendTime = 1
INVARIANTS
  E22AsExpected
