CONSTANTS
  d1 = d1
  d2 = d2
  Definitions = {d1, d2}
  Queues = {1, 2}
  QueueOf <- Homes
  NextRun <- Crons
  Present = {d1}
  FirstRun <- Firsts
  Ticks = {t1, t2}
  ApiOps = {"delete", "pause", "enable", "postpone"}
  Horizon = 2
  MaxEvents = 2
SPECIFICATION FairSpec
CHECK_DEADLOCK FALSE
INVARIANTS
  NothingEarly
  PointerIsAhead
PROPERTIES
  ImplementsTimetable
  NoBacklog
  PausedQueueRests
  DueOccurrenceFires
  DueJobIsPromoted
