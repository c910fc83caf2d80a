SPECIFICATION Spec
CONSTANTS
  w1 = w1
  w2 = w2
  None = None
  Workers <- TwoWorkers
  MaxCycles = 1
  ReleaseAfter = 1
  DeferStages = {"rubric"}
  RoundsMax = 1
  CiBudget = 0
  MaxAttempts = 1
  StallOn = FALSE
  MayFail = {"rubric"}
  MaxSub = 1
  MaxTodo = 1
SYMMETRY Threads
INVARIANTS
  SingleDriver
  PostPrHasPr
  PrePrNeverStranded
PROPERTY FollowsProtocol
