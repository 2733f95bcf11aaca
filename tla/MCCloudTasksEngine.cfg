CONSTANTS
  q1 = q1
  q2 = q2
  t1 = t1
  t2 = t2
  t3 = t3
  NoRow = NoRow
  NoBucket = NoBucket
  TokenUnit = 2
  BatchLimit = 2
  CleanupInterval = 1
  Queues = {q1, q2}
  Tasks = {t1, t2, t3}
  QueueOf <- TwoQueues
  HttpTasks = {t1, t2, t3}
  RateLimits <- SlowOnly
  RetryConfigs = {2}
  Operations <- EngineCalls
  MaxDispatches = 3
  MaxBirths <- Once
SPECIFICATION Spec
INVARIANTS
  AttemptsAccounted
  DispatchingHasFlight
CHECK_DEADLOCK FALSE
