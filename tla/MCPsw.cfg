CONSTANTS
  nshards = 3
  ZERO_RUN = 2
  index_interval_edges = 3
  Threads = {1, 2}
  Graphs <- MCGraphs
  RunGraphs <- MCRunGraphs
  niters = 2
  blocksize = 2
  maxwindow = 1
  membudget = 100
  VertexCost = 1
  INDEX_STEP = 100
  Asks <- MCAsks
SPECIFICATION FairSpec
INVARIANTS ShardsExact BlocksHeld 
PROPERTIES ActsInMemory RunEnds
