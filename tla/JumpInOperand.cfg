SPECIFICATION Spec
CONSTANTS
  Bits = 8
  Word = 256
  Fuel = 2000
  Families = {"operands"}
  Sorts = {}
  MaxName = 7
  MaxInstances = 12
  Shapes = {}
INVARIANTS CompiledAsInterpreted
CHECK_DEADLOCK FALSE
