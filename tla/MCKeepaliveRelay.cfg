SPECIFICATION Spec
CONSTANTS
  WriteTimeout = 2
  ReadTimeout = 18
  PingInterval = 3
  Delay = 1
  Faults = {}
INVARIANT
  RelayReaches
CHECK_DEADLOCK FALSE
