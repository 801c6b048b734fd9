SPECIFICATION FairSpec
CONSTANTS
  alice = alice
  bob = bob
  carol = carol
  Peer = {alice, bob, carol}
  Offerer = {alice, bob, carol}
  Target <- MCTarget
  NoPeer = NoPeer
  MaxCandidates <- MCCandidates
INVARIANTS
  CandidatesInOrder
  QueueOnlyBeforeRemote
  NoCandidateLost
  AnswersAreAwaited
PROPERTIES
  ImplementsCalls
  SessionEstablishes
CHECK_DEADLOCK FALSE
