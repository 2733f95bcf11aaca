CONSTANTS
  q1 = q1
  q2 = q2
  t1 = t1
  t2 = t2
  t3 = t3
  NoRow = NoRow
  NoBucket = NoBucket
  TokenUnit = 2
  BatchLimit = 2
  CleanupInterval = 1
  Queues = {q1, q2}
  Tasks = {t1, t2}
  QueueOf <- OneQueueEach
  HttpTasks = {t1, t2}
  RateLimits <- SlowOnly
  RetryConfigs <- TwoOrMalformed
  Operations <- LiveCalls
  MaxDispatches = 2
  MaxBirths <- Once
SPECIFICATION FairSpec
INVARIANTS
  BucketAccounting
PROPERTIES
  EveryTaskSettles
CHECK_DEADLOCK FALSE
