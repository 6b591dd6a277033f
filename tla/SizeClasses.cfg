SPECIFICATION Spec
CONSTANTS
  W = 16
  MaxRequest = 28664
INVARIANT SmallestClass
PROPERTY ClassFound
CHECK_DEADLOCK FALSE
