SPECIFICATION Spec
CONSTANTS
  Bits = 8
  Word = 256
  Fuel = 2000
  Families = {"jumps", "values", "pointers", "exits", "mixed", "numbers", "constants"}
  Sorts = {"graphs", "uses", "exposed"}
  MaxName = 7
  MaxInstances = 12
  Shapes = {"chains", "usings", "declared"}
INVARIANTS ConstantsMeanTheirValue DeclaredOnce LoweringKeepsMeaning NeverStuck AcceptedCompiles CompiledAsInterpreted NoStaleAccess NamesMeanTheSame RefusedForCause TemplatesCheckedOnce
CHECK_DEADLOCK FALSE
