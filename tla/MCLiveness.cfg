SPECIFICATION FairSpec
CONSTANTS
  w1 = w1
  w2 = w2
  None = None
  Workers <- OneWorker
  MaxCycles = 1
  ReleaseAfter = 1
  DeferStages = {}
  RoundsMax = 0
  CiBudget = 1
  MaxAttempts = 1
  StallOn = TRUE
  MayFail = {"behavior"}
  MaxSub = 1
  MaxTodo = 1
PROPERTY FutureSettles
