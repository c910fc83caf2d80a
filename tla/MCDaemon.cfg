SPECIFICATION Spec
CONSTANTS
  s1 = s1
  r1 = r1
  r2 = r2
  None = None
  Sups <- OneSup
  Runs <- TwoRuns
  WatchOn = TRUE
SYMMETRY Processes
INVARIANTS
  TypeOK
  OneOrchestrator
  WatchdogSparesYoung
  StopIsComplete
