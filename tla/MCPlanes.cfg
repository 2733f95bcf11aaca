CONSTANTS
  i1 = i1
  i2 = i2
  d1 = d1
  d2 = d2
  Instances = {i1, i2}
  Names = {d1}
  NoId = NoId
  Requesters = {a, b}
  Shutdown = Shutdown
  NoCaller = NoCaller
  Requests <- PortRequests
  MaxPort = 2
  NoRow = NoRow
  a1 = a1
  a2 = a2
  cl = cl
  q1 = q1
  q2 = q2
  PlaneInstances = {i1, a1, a2}
  PlaneDatabases = {"postgres", "app"}
  PlaneCallers = {q1, q2}
  SqlCalls = {q1, q2}
  SqlInstances = {i1}
  MaxSettings = 2
  AlloyCalls = {q1, q2}
  Clusters = {cl}
  AlloyInstances = {a1, a2}
  AlloyBackups = {"backup"}
  ClusterOf <- MCClusterOf
SPECIFICATION PlanesSpec
SYMMETRY Symmetry
INVARIANTS
  PortsAccounted
  CloudSqlInvariant
  AlloyInvariant
CHECK_DEADLOCK FALSE
