CONSTANTS
  c1 = c1
  c2 = c2
  Connections = {c1, c2}
  NoConn = NoConn
  NoMessage = NoMessage
  MaxTickets = 20
  Scripts <- MixedScripts
  BulkSize = 3
  ReadPauseThreshold = 2
  MaxPendingBatch = 3
SPECIFICATION FairSpec
INVARIANTS
  WireInvariant
PROPERTIES
  UsesSessionQueue
  ClientsAreServed
CHECK_DEADLOCK FALSE
