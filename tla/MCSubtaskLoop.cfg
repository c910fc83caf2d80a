SPECIFICATION FairSpec
CONSTANTS
  Plan <- OneSubtask
  Deps <- NoDeps1
  GateId = 8
  FixupId = 9
  HardMax = 2
  TransientMax = 1
  ReprovMax = 1
  CapCr = 2
  CapTr = 2
  CapSs = 2
  ProgressAfter = 1
  ProgressEvery = 2
  FlatMax = 1
  MaxHist = 2
INVARIANTS
  TypeOK
  DoneIsOnBranch
  AttemptIsRetries
  PredecessorsDone
CHECK_DEADLOCK FALSE
PROPERTY SubtaskSettles
