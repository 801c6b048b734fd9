SPECIFICATION FairSpec
CONSTANTS
  WriteTimeout = 2
  ReadTimeout = 18
  PingInterval = 3
  Delay = 1
  Faults = {"silent", "jammed"}
INVARIANTS
  PingsKeepAlive
  PumpNeverLate
  CutOffIsNoticed
  RelayIsReleased
PROPERTY
  SilenceEnds
CHECK_DEADLOCK FALSE
