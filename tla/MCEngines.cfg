CONSTANTS
  NoId = NoId
  i1 = i1
  Instances = {i1}
  Names = {d1, d2}
  Callers = {q1, q2}
  NoRow = NoRow
  j1 = j1
  j2 = j2
  f1 = f1
  d1 = d1
  d2 = d2
  t1 = t1
  t2 = t2
  k1 = k1
  q1 = q1
  q2 = q2
  orders = orders
  s1 = s1
  Jobs = {j1, j2}
  Periods = {1, 2}
  FirstPeriods <- MCFirstPeriods
  RetryCount <- MCRetryCount
  ChangedJobs = {j1}
  ForcedRuns = {f1}
  SchedulerHorizon = 2
  Registrable = {"s1"}
  HealthChecks = {1, 2, 3}
  MaxFailures = 2
  FailureCeiling = 3
  Streams = {t1, t2}
  WorkflowPrograms <- MCPrograms
  Subworkflows = {"sub", "again"}
  CallStackLimit = 2
  CryptoKeys = {k1}
  KeyRings = {"r"}
  RingOf <- MCRingOf
  KmsCallers = {q1, q2}
  KmsVersions = 2
  KeyAlgorithms = {"SYMMETRIC", "EC_SIGN"}
  Topics = {orders}
  Subs = {s1}
  Snapshots = {}
  SubConfigs <- MCSubConfigs
  BatchSize = 2
  CleanupTicks = 1
  PubSubOperations <- MCOperations
  Touched = {orders, s1}
  MaxPublishes = 2
  MaxMessages = 2
  MaxDeliveries <- MCMaxDeliveries
SPECIFICATION EnginesSpec
INVARIANTS
  StreamInvariant
  WorkflowEngineInvariant
PROPERTIES
  ManagerHolds
  
  RegistryFollowsChecks
  KeysHold
  EnginesFinish
CHECK_DEADLOCK FALSE
