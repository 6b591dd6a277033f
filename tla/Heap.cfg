SPECIFICATION Spec
CONSTANTS
  Threads = {t1, t2}
  Heaps = {1}
  None = None
  Requests = {2, 5}
  CellBytes = 2
  ClassCells <- MCClasses
  Chunk = 6
  LastCell = 12
  Misuse = {}
INVARIANTS NothingLost ReturnsZeroed NoFalseAlarm
PROPERTY ImplementsAllocator
CHECK_DEADLOCK FALSE
