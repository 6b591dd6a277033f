SPECIFICATION Spec
CONSTANTS
  Threads = {1, 2}
  MaxChildren = 1
  FirstPipe = 3
  FirstProc = 1024
  Pids = {101}
  ExitCodes = {7}
  Signals = {15}
  Stdio = {{"output"}, {"input", "output"}}
  PipeSize = 1
  RelayPipe = 2
  ToSend = 3
  WireSize = 2
  Clients = {1, 2}
  Requests = 2
  Cap = 1
  LastThread = 2
  Results = {"zero", "seven"}
  FailsAt = {"running"}
INVARIANTS StatusKept BytesKept OwnAnswerWhole
PROPERTIES ProcessCallsReturn BothWaysFlow EveryoneServed ImplementsMutex
CHECK_DEADLOCK FALSE
