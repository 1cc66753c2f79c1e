CONSTANTS
  NumWorkers = 2
  Tasks = {t1, t2, t3}
  Main = main
  NoTask = noTask
SPECIFICATION FairSpec
CHECK_DEADLOCK FALSE
INVARIANTS TypeOK OnePlace NoLostWakeup SleepersHoldNothing
PROPERTIES DropReturns EverySpawnedTaskEnds ImplementsTaskPool
