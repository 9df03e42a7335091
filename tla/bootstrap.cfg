CONSTANTS
  t1 = t1
  t2 = t2
  Queues = {q1}
  Ticks = {t1, t2}
  BootTick = t1
  None = None
  Concurrency = 2
  MaxFailures = 2
SPECIFICATION FairSpec
CHECK_DEADLOCK FALSE
INVARIANTS
  ServedQueueIsPolled
  StoppedIsDrained
  CleanShutdown
PROPERTIES
  ShutdownTerminates
  EveryQueueServed
