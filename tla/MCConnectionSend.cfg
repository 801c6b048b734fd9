SPECIFICATION Spec
CONSTANTS
  hub = hub
  main = main
  pion = pion
  app = app
  admin = admin
  Goroutine = {hub, main, pion, app, admin}
  Reader = Reader
  Uses <- MCPeer
  SendCap = 2
  MaxAccepted = 3
INVARIANT
  SendFailsGently
CHECK_DEADLOCK FALSE
