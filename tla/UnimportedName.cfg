SPECIFICATION Spec
CONSTANTS
  Bits = 8
  Word = 256
  Fuel = 2000
  Families = {}
  Sorts = {"unnamed"}
  MaxName = 7
  MaxInstances = 12
  Shapes = {}
INVARIANTS NamesWhatItImports
CHECK_DEADLOCK FALSE
