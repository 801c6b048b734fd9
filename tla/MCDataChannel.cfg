SPECIFICATION PeerSpec
CONSTANTS
  g1 = g1
  g2 = g2
  Caller = {g1, g2}
  Script <- MCScript
  MaxMessages = 2
INVARIANTS
  NoneLostOrDoubled
  HandledIsPrefix
  CountsAgree
PROPERTY
  GreetingArrives
CHECK_DEADLOCK FALSE
