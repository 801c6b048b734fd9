SPECIFICATION FairSpec
CONSTANTS
  a = a
  c1 = c1
  c2 = c2
  Id = {a}
  Client = {c1, c2}
  IDOf <- MCIDOf
  NoClient = NoClient
  Caller = {p}
  TargetLists <- MCTargetLists
  RegisterCap = 1
  UnregisterCap = 1
  BroadcastCap = 1
  SendToCap = 1
  MaxDirect = 2
  MaxBroadcast = 1
INVARIANTS
  OrderedDelivery
  NoUseAfterClose
  StopClosesEveryStored
  ReceivedAddsUp
PROPERTIES
  ImplementsPostbox
  StopReturns
  AcceptedIsTaken
CHECK_DEADLOCK FALSE
