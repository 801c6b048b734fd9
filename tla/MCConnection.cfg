SPECIFICATION FairSpec
CONSTANTS
  hub = hub
  main = main
  pion = pion
  app = app
  admin = admin
  Goroutine = {hub, main, pion, app, admin}
  Reader = Reader
  Uses <- MCUses
  SendCap = 2
  MaxAccepted = 3
INVARIANTS
  WireIsPrefix
  ChannelSafe
  OneCloser
PROPERTIES
  ClosedStopsPumps
  AcceptedIsWritten
CHECK_DEADLOCK FALSE
