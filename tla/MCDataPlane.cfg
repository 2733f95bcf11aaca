CONSTANTS
  i1 = i1
  i2 = i2
  d1 = d1
  d2 = d2
  Instances = {i1}
  Names = {d1, d2}
  NoId = NoId
  Requesters = {a, b}
  Shutdown = Shutdown
  NoCaller = NoCaller
  Requests <- AllRequests
  MaxPort = 1
SPECIFICATION Spec
SYMMETRY Symmetry
INVARIANTS
  CallsTakeTurns
  OneEnginePerDirectory
  EnginesMatchListeners
PROPERTIES
  DropLeavesNothing
  UsesDatabaseManager
CHECK_DEADLOCK FALSE
