SPECIFICATION Spec
CONSTANTS
  Threads = {t1}
  Heaps = {1, 2}
  None = None
  Requests = {2, 3, 5}
  CellBytes = 2
  ClassCells <- MCClasses
  Chunk = 4
  LastCell = 8
  Misuse = {"again", "wrong", "write"}
INVARIANTS HandedOutOnce FreeListsSound WriteAfterFreeReported
CHECK_DEADLOCK FALSE
