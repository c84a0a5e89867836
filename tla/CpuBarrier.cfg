CONSTANTS
  Core = {c0, c1, c2, c3}
  main_core = c0
  Calls = 3
SPECIFICATION FairSpec
INVARIANTS BarrierInv
PROPERTIES IsBarrier AllReturn
