SPECIFICATION Spec
CONSTANTS
  LastThread = 2
  Results = {"zero", "seven"}
  Zero = "zero"
  Hosts = {"native", "runner"}
INVARIANTS JoinReturnsResult NoJoinerForgotten
PROPERTIES JoinReturns FailuresAreSeen
CHECK_DEADLOCK FALSE
