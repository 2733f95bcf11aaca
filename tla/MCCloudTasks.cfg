CONSTANTS
  q1 = q1
  q2 = q2
  t1 = t1
  t2 = t2
  t3 = t3
  NoRow = NoRow
  NoBucket = NoBucket
  TokenUnit = 2
  BatchLimit = 2
  CleanupInterval = 1
  Queues = {q1}
  Tasks = {t1, t2}
  QueueOf <- OneQueue
  HttpTasks = {t1, t2}
  RateLimits <- BurstsOfTwo
  RetryConfigs = {2}
  Operations <- ClientCalls
  MaxDispatches = 2
  MaxBirths <- TwiceFirst
SPECIFICATION Spec
INVARIANTS
  OneEngineDispatch
PROPERTIES
  SettledIsFinal
CHECK_DEADLOCK FALSE
