CONSTANTS
  x1 = x1
  x2 = x2
  x3 = x3
  seed = seed
  lower = lower
  upper = upper
  k1 = k1
  k2 = k2
  None = None
  Requests = {x1, x2, x3}
  Seed = seed
  Names = {lower, upper}
  Keys = {k1, k2}
  Operations <- Asked
  MaxFailures = 1
SPECIFICATION FairSpec
CHECK_DEADLOCK FALSE
INVARIANTS
  ReferencesHold
  BatchIsWhole
PROPERTIES
  ImplementsStore
  EveryRequestAnswered
