SPECIFICATION Spec
CONSTANTS
  w1 = w1
  w2 = w2
  None = None
  Workers <- OneWorker
  MaxCycles = 2
  ReleaseAfter = 2
  DeferStages = {"rubric"}
  RoundsMax = 1
  CiBudget = 1
  MaxAttempts = 1
  StallOn = FALSE
  MayFail = {"rubric"}
  MaxSub = 1
  MaxTodo = 1
INVARIANT ResumeKeepsWork
