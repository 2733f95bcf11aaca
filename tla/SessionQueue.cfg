CONSTANTS
  Connections = {c1, c2, c3}
  NoConn = NoConn
  NoMessage = NoMessage
  MaxTickets = 6
SPECIFICATION FairSpec
INVARIANTS
  QueueInvariant
  TransactionIsolation
PROPERTIES
  PerConnectionOrder
  ImplementsExclusiveSessions
  SessionsProgress
CHECK_DEADLOCK FALSE
