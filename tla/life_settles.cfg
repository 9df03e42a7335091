CONSTANTS
  p1 = p1
  p2 = p2
  w1 = w1
  w2 = w2
  Procs = {p1, p2}
  Workers = {w1, w2}
  RowOf <- OwnRows
  Concurrency = 1
  None = None
  Jobs = {1, 2}
  BatchJobs = {}
  MaxAttempts = 2
  PolicyMaxAttempts = 3
  AttemptBound = 3
  Faults = {"crash"}
  ApiOps = {}
  Clients = {}
SPECIFICATION FairSpec
CHECK_DEADLOCK FALSE
INVARIANTS
  NobodyIsOrphaned
PROPERTIES
  EveryJobSettles
