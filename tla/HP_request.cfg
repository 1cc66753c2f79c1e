CONSTANTS
  IoThreads = {i1}
  Handlers = {h1}
  Requests = {r1, r2}
  Nodes = {n1, n2}
  Null = null
  Garbage = garbage
SPECIFICATION Spec
CHECK_DEADLOCK FALSE
INVARIANTS HandlerSeesItsRequest
