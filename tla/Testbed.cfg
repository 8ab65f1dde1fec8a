SPECIFICATION Spec
CONSTANTS
  Flows <- MCFlows
  Scripts <- MCScripts
  Bases = {0, 65530}
  ClockPhases = {0, 400}
  WindowPhases = {0, 59000}
  ReseedPhases = {0, 3595000}
  Latencies = {3, 90}
  SendTime = 1
INVARIANTS
  TypeOK
  LegitReleased
  AttackStopped
  ParserAsLabelled
  ReconcileIsCausal
  TwinAgrees
