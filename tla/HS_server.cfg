CONSTANTS
  Conns = {c1, c2}
  Steady = c1
  Many = 2
  Few = 1
  MaxRequests <- Limits
  MaxBody = 2
  PoolCap = 1
  Middleware = 0
  Logger = TRUE
  Reckless = {c2}
SPECIFICATION FairSpec
CHECK_DEADLOCK FALSE
INVARIANTS HandlersIsolated AnswersWhole
PROPERTIES RequestsAnswered
