CONSTANTS
  Workers = {w1, w2}
  Jobs = {j1, j2, j3}
  Threads = {t1}
  Shutdown = shutdown
  None = none
SPECIFICATION FairSpec
CHECK_DEADLOCK FALSE
 
PROPERTIES DropReturns JobsEnd ImplementsTaskPool
