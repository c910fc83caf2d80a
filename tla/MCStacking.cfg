SPECIFICATION Spec
CONSTANTS
  Specs <- ThreeSpecs
  Deps <- Fork
  Settled = TRUE
  CoalesceOn = TRUE
  MaxParallel = 2
  ExtraSlots = 0
  MaxDepth = 2
  MaxBreadth = 3
  MaxVer <- FirstTwice
  MaxTrouble = 1
INVARIANTS TypeOK MergeNodeForgetsMerged ReadyHoldsSources RebasingIsOwned
PROPERTY ForkHoldsDependencies
CHECK_DEADLOCK FALSE
