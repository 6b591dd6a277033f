SPECIFICATION Spec
CONSTANTS
  LastThread = 2
  Results = {"zero", "seven"}
  Zero = "zero"
  Hosts = {"runner"}
PROPERTY ExitEndsProgram
CHECK_DEADLOCK FALSE
