\* One lease, every boundary of the lease times.
CONSTANTS
  I64Max = 60
  U32Max = 30
  Floor = 2
  Hour = 3
  Day = 5
  ConfigTimes = {3, 4, 54}
  Requested = {1, 3, 31, 50, 57, 61}
  MaxNow = 9
  HandLimit = 1
SPECIFICATION Spec
INVARIANTS TypeOK TermInRange PromiseCovered
CHECK_DEADLOCK FALSE
