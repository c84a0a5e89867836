CONSTANTS
  Proc = {0, 1, 2}
  Messages <- MCMessages
  nglobalverts = 5
  Graphs <- MCGraphs
  NRoots = 2
SPECIFICATION FairSpec
INVARIANTS QueuedOnce PredsAreNearer SearchIsComplete EdgeCountExact
PROPERTIES SearchesEnd
