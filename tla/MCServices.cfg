CONSTANTS
  NoRow = NoRow
  m1 = m1
  m2 = m2
  k1 = k1
  k2 = k2
  k3 = k3
  u1 = u1
  p1 = p1
  p2 = p2
  e1 = e1
  e2 = e2
  w1 = w1
  q1 = q1
  q2 = q2
  MemoryInstances = {m1, m2}
  MemoryCalls = {q1, q2}
  PortRangeEnd = 2
  HashPort <- SamePort
  InstanceRequests <- MCInstanceRequests
  ForeignRange = {2}
  Policies = {"p1"}
  Rules = {"open", "closed"}
  MaxEtags = 4
  Buckets = {"b"}
  ObjectNames = {"o", "p"}
  Uploads = {u1}
  StorageClients = {q1, q2}
  MaxGenerations = 2
  MaxMetageneration = 2
  MaxPendingUploads = 1
  CopySources <- MCCopySources
  Keys = {k1, k2, k3}
  Callers = {q1, q2}
  MaxSize = 2
  MemoryLimit = 3
  BytesOf <- MCBytesOf
  Filtered <- MCFiltered
  MaxVersion <- MCMaxVersion
  RowNames <- MCRowNames
  ListPrefixes <- MCListPrefixes
  States = {1, 2}
  Times = {1}
  Columns = {"a", "b", "c", "d"}
  Schemas <- MCSchemas
  RowIds = {1, 2}
  WorkflowNames = {w1}
  WorkflowSources = {p1, p2}
  ExecutionIds = {e1, e2}
  RevisionTags = 3
  GroupNames <- MCGroupNames
  GlobalLocation <- Global
  TypeOfItem <- MCTypeOfItem
  ItemLists <- MCItemLists
  Capacities = {1, 2}
  Wildcards = {}
  OperationNames = {1, 2, 3}
  PageSize = 1
  Digits = {0, 2}
  ExpressionDepth = 3
  Wraps = {0, 1}
  ExpressionTrees <- AllTrees
  MaxSubexpressions = 2
  Bodies = {"", "GET"}
  Signatures = {"s1", "s2"}
  WordWidth = 5
  GroupValues = {0, 65535}
  BodyKeys = {"x", "y"}
  MaxMembers = 2
  ValueTexts <- MCValueTexts
  ArmorPolicies = {"p"}
  Clients = {"c"}
  Priorities = {1, 2}
  DefaultPriority = 2
  DefaultPolicy = NoRow
  RuleBodies <- MCRuleBodies
  RuleLists <- MCRuleLists
  ArmorHorizon = 2
  MaxCounted = 3
  RouteIds = {"r1", "r2"}
  RoutePatterns <- MCRoutePatterns
  RequestPaths <- MCRequestPaths
  d1 = d1
  d2 = d2
  Services = {"s1", "s2"}
  Dispatches = {d1, d2}
  Sessions = {"x"}
  SessionOf <- MCSessionOf
  MaxAttempts = 2
  FailureThreshold = 1
  MinimumThroughput = 2
  Configurations <- MCConfigurations
SYMMETRY Symmetry
SPECIFICATION Spec
INVARIANTS
  
  CloudStorageInvariant
  StorageHolds
  WorkflowsInvariant
  
  
  
PROPERTIES
  EmulatorHolds
CHECK_DEADLOCK FALSE
