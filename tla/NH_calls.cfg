CONSTANTS
  Tasks = {t1, t2}
  None = none
  MaxCalls = 4
SPECIFICATION Spec
CHECK_DEADLOCK FALSE
PROPERTIES CallsReturn
