SPECIFICATION Spec
CONSTANTS
  Threads = {1, 2, 3, 4}
  Undisciplined = {1}
  None = None
INVARIANTS MutualExclusion NoLostWakeup
PROPERTY ImplementsMutex
CHECK_DEADLOCK FALSE
