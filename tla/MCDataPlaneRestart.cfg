CONSTANTS
  i1 = i1
  i2 = i2
  d1 = d1
  d2 = d2
  Instances = {i1, i2}
  Names = {d1}
  NoId = NoId
  Requesters = {a, b}
  Shutdown = Shutdown
  NoCaller = NoCaller
  Requests <- PortRequests
  MaxPort = 2
SPECIFICATION Spec
SYMMETRY Symmetry
INVARIANTS
  RestartKeepsPort
CHECK_DEADLOCK FALSE
