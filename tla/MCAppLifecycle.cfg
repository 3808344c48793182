CONSTANTS
  root = root
  leaf = leaf
  p1 = p1
  p2 = p2
  c1 = c1
  c2 = c2
  w1 = w1
  w2 = w2
  Modules <- RootAndLeaf
  Own <- OwnEach
  Closers = {c1, c2}
  Watchers = {w1, w2}
  MaxSignals = 2
  Reentrant = {p2}
CHECK_DEADLOCK FALSE
SPECIFICATION FairSpec
INVARIANTS
  
  OneOutcome

  
  
