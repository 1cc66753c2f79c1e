CONSTANTS
  IoThreads = {i1, i2}
  Handlers = {h1, h2}
  Requests = {r1, r2}
  Nodes = {n1, n2}
  Null = null
  Garbage = garbage
SPECIFICATION FairSpec
CHECK_DEADLOCK FALSE
INVARIANTS StackIntact NoLostSignal
PROPERTIES ImplementsHandOff DestroyReturns
