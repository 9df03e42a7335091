CONSTANTS
  t1 = t1
  t2 = t2
  c1 = c1
  c2 = c2
  None = None
  Tabs = {t1, t2}
  Calls = {c1, c2}
  Buckets = {"auth", "write"}
  MaxRequests <- Limits
  WindowMs = 3
  SecondMs = 2
  Horizon = 6
  Life = 1
  RefreshLife = 3
  MaxFailures = 2
SPECIFICATION Spec
CHECK_DEADLOCK FALSE
SYMMETRY Symmetric
INVARIANTS
  CallsEndTruly
  LimitHolds
