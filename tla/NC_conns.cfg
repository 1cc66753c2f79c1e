CONSTANTS
  Slots = {s1, s2}
  Clients = {k1, k2}
  None = none
  MaxRequests = 2
  HeaderLen = 1
  BodyLen = 2
  Initial = 1
  Repost = 1
  MaxAccepts = 2
  Threads = {t1, t2}
  Allocators = {t1}
  Cap = 1
  MaxPages = 2
  PerPage = 2
  Heap = 1
  Null = null
  Junk = junk
SPECIFICATION ConnectionsSpec
CHECK_DEADLOCK FALSE
INVARIANTS OneOwner WireInOrder  
PROPERTIES RequestsAnswered
