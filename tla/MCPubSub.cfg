CONSTANTS
  orders = orders
  dead = dead
  s1 = s1
  s2 = s2
  snap = snap
  NoRow = NoRow
  Topics = {orders, dead}
  Subs = {s1, s2}
  Snapshots = {snap}
  SubConfigs <- MCSubConfigs
  BatchSize = 2
  CleanupTicks = 1
  PubSubOperations <- MCOperations
  Touched = {orders, s1}
  MaxPublishes = 2
  MaxMessages = 3
  MaxDeliveries <- MCMaxDeliveries
SPECIFICATION PubSubSpec
INVARIANTS
  PubSubInvariant
PROPERTIES
  DeliveriesHold
  
CHECK_DEADLOCK FALSE
