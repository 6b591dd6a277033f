SPECIFICATION Spec
CONSTANTS
  Threads = {1, 2}
  Align = 2
  Page = 4
  MaxBytes = 16
  Start = 2
  Modulus = 64
  Requests = {1, 10}
  RecordBytes = 4
  ScratchBytes = 6
  AppGrows = TRUE
INVARIANTS BlocksDisjoint BlocksInMemory
PROPERTY CursorNeverWraps
CHECK_DEADLOCK FALSE
