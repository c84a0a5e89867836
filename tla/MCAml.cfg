CONSTANTS
  G = 2
  L = 2
  AGGR <- MCAGGR
  NSEND = 1
  Epochs = 2
  Budget <- MCBudget
  Targets <- MCTargets
SPECIFICATION FairSpec
INVARIANTS  HandlerSeesSender AckCounts BarrierDrains
PROPERTIES AMService Terminates
