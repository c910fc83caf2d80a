SPECIFICATION FairSpec
CONSTANTS
  Chain <- GlmChain
  AuthInitial = 1
  AuthMax = 2
  AuthTotal = 1
  PlannerTransient = 1
  PlannerParse = 1
  PlannerValidator = 1
  FixupTransient = 1
  FixupOutput = 1
  AuditOutput = 1
  MaxCycles = 1
  ValveAfter = 1
  Budget <- Budgets
  MaxDeferred = 1
  Categories <- OneCategory
  Evidence <- TwoEvidence
  Plans <- ThePlans
  Fixups <- TheFixups
  Grades <- TheGrades
  MaxCrashes = 1
INVARIANTS
  TypeOK
  QuotaWalksWholeChain
  PlanPartitionsEvidence
  PrOpensOnGrades
  AcceptedFixupCovers
  InFlightRowIsLive
PROPERTY
  DriveSettles
CHECK_DEADLOCK FALSE
