SPECIFICATION SigFairSpec
CONSTANTS
  a = a
  k1 = k1
  k2 = k2
  c1 = c1
  c2 = c2
  Id = {a}
  Client = {c1, c2}
  IDOf <- MCIDOf
  ConnOf <- MCConnOf
  NoClient = NoClient
  Caller = {k1, k2}
  TargetLists <- MCTargetLists
  RegisterCap = 1
  UnregisterCap = 1
  BroadcastCap = 1
  SendToCap = 1
  MaxDirect = 0
  MaxBroadcast = 0
  OutboxCap = 1
PROPERTY
  DisconnectedIsForgotten
CHECK_DEADLOCK FALSE
