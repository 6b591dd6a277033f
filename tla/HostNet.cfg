SPECIFICATION Spec
CONSTANTS
  Threads = {1, 2}
  MaxSocks = 2
  MaxOpened = 1
  Fds = {4, 5}
  MaxSent = 1
  MaxTickets = 1
INVARIANTS ClosedStaysClosed NothingLost PollIsTrue
PROPERTIES CallsReturn
CHECK_DEADLOCK FALSE
