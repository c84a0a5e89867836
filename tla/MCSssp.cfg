CONSTANTS
  Proc = {0, 1}
  Messages <- MCMessages
  nglobalverts = 5
  BYTES_PER_VERTEX = 3
  Tuples <- MCTuples
  NRoots = 2
  Draws <- MCDraws
  delta = 2
SPECIFICATION FairSpec
INVARIANTS HandlerMatches  CsrExact QueuesFit RootsGood BucketSettled ShortestPaths
PROPERTIES SearchesEnd
