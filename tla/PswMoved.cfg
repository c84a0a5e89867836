CONSTANTS
  nshards = 2
  ZERO_RUN = 2
  index_interval_edges = 3
  Threads = {1}
  Graphs <- MoveGraphs
  RunGraphs <- MoveGraphs
  niters = 2
  blocksize = 4
  maxwindow = 1
  membudget = 100
  VertexCost = 1
  INDEX_STEP = 1
  Asks <- MoveAsks
SPECIFICATION Spec
INVARIANT OwnEdges
