----------------------------- MODULE Scheduler -----------------------------
(***************************************************************************)
(* The recurring schedules and the scheduler tick that walks the queues:   *)
(* Scheduler.materializeDueScheduledJob and promoteDueScheduledJobs as     *)
(* server.ts drives them.  A setInterval starts a tick without waiting for *)
(* the previous one, and every process has its own, so several ticks run   *)
(* at once.                                                                *)
(*                                                                         *)
(* A materialized job is the pair of its definition and its occurrence:    *)
(* that is what its idempotency key says.  What becomes of it once it is   *)
(* QUEUED is JobLifecycle's matter, and so are the retry and dead-letter   *)
(* steps of the tick, which touch nothing of this module's state.          *)
(***************************************************************************)
EXTENDS Integers, FiniteSets, FiniteSetsExt

CONSTANTS
  Queues,       \* the queues, numbered in the order findMany returns them
  Definitions,  \* the ScheduledJob rows
  QueueOf,      \* the queue of each definition
  NextRun,      \* cron-parser: the first occurrence after a given time
  Present,      \* the definitions there are at the start
  FirstRun,     \* their nextRunAt then
  Ticks,        \* ticks that may be under way together
  ApiOps,       \* what the API does meanwhile
  Horizon,      \* bound of the model: the last value of the clock
  MaxEvents     \* bound of the model: API calls and failed ticks in a behaviour

ASSUME QueuesAssumption      == Queues \subseteq Nat /\ IsFiniteSet(Queues) /\ Queues # {}
ASSUME DefinitionsAssumption ==
  QueueOf \in [Definitions -> Queues] /\ Present \subseteq Definitions
ASSUME BoundsAssumption      == Horizon \in Nat /\ MaxEvents \in Nat
ASSUME CronAssumption        ==
  /\ FirstRun \in [Definitions -> Nat]
  /\ NextRun \in [Definitions -> [0 .. Horizon -> Nat]]
  /\ \A d \in Definitions, t \in 0 .. Horizon : NextRun[d][t] > t
ASSUME ApiAssumption         == ApiOps \subseteq
  { "delete", "enable", "pause", "postpone", "rewind" }

VARIABLES
  now,        \* the database clock
  nextRunAt,  \* ScheduledJob.nextRunAt
  enabled,    \* ScheduledJob.enabled
  row,        \* per definition: whether its row is "unborn", "live" or "deleted"
  isPaused,   \* Queue.isPaused
  scheduled,  \* the materialized jobs that are SCHEDULED
  promoted,   \* the materialized jobs that were promoted to QUEUED
  tick,       \* where every tick is
  events      \* API calls and failed ticks so far

tables == << nextRunAt, enabled, row, isPaused, scheduled, promoted >>
vars   == << now, tables, tick, events >>

materialized == scheduled \cup promoted

(* A tick works on one queue: it promotes, it reads the due definitions, and
   then opens and commits one transaction per definition it read. *)
NoTick       == [pc |-> "idle", queue |-> 0, todo |-> {}, asOf |-> 0]
AtQueue(q)   == [pc |-> "promote", queue |-> q, todo |-> {}, asOf |-> 0]

(* The next queue of the loop, or the end of the tick. *)
nextQueue_onlyOne(q) == NoTick                              \* mutant
nextQueue(q) == LET later == { r \in Queues : r > q } IN
                IF later = {} THEN NoTick ELSE AtQueue(Min(later))

(* calculateNextRunAt. *)
calculateNextRunAt_inclusive(d, from) == from               \* mutant: not strictly after
calculateNextRunAt(d, from) == NextRun[d][from]

(* nextRunAt after the occurrence it has now, at transaction time `at`: missed
   occurrences are passed over. *)
followingRun_keepsBacklog(d, at) == calculateNextRunAt(d, nextRunAt[d])    \* mutant
followingRun(d, at) ==
  LET next == calculateNextRunAt(d, nextRunAt[d])
  IN  IF next <= at THEN calculateNextRunAt(d, at) ELSE next

(* The check under the row lock. *)
isDue_unchecked(d, at) == TRUE                              \* mutant
isDue(d, at) == row[d] = "live" /\ enabled[d] /\ nextRunAt[d] <= at

Init ==
  /\ now = 0
  /\ nextRunAt = FirstRun
  /\ enabled = [d \in Definitions |-> TRUE]
  /\ row = [d \in Definitions |-> IF d \in Present THEN "live" ELSE "unborn"]
  /\ isPaused = [q \in Queues |-> FALSE]
  /\ scheduled = {} /\ promoted = {}
  /\ tick = [t \in Ticks |-> NoTick]
  /\ events = 0

-----------------------------------------------------------------------------
(* The tick. *)

startTick(t) ==
  /\ tick[t] = NoTick
  /\ tick' = [tick EXCEPT ![t] = AtQueue(Min(Queues))]
  /\ UNCHANGED << now, tables, events >>

(* One UPDATE for the queue's SCHEDULED jobs that are due, unless paused. *)
promotable_paused(q) == { j \in scheduled : QueueOf[j[1]] = q /\ j[2] <= now } \* mutant
promotable_missed(q) ==                                     \* mutant: = for <=
  { j \in scheduled : QueueOf[j[1]] = q /\ j[2] = now /\ ~isPaused[q] }
promotable(q) ==
  { j \in scheduled : QueueOf[j[1]] = q /\ j[2] <= now /\ ~isPaused[q] }

promoteDueScheduledJobs(t) ==
  LET D == promotable(tick[t].queue) IN
  /\ tick[t].pc = "promote"
  /\ scheduled' = scheduled \ D
  /\ promoted' = promoted \cup D
  /\ tick' = [tick EXCEPT ![t].pc = "read"]
  /\ UNCHANGED << now, nextRunAt, enabled, row, isPaused, events >>

(* findMany of the queue's definitions that look due, without a lock. *)
readDueDefinitions(t) ==
  LET q   == tick[t].queue
      due == { d \in Definitions : QueueOf[d] = q /\ isDue(d, now) }
  IN
  /\ tick[t].pc = "read"
  /\ tick' = [tick EXCEPT ![t] =
       IF due = {} THEN nextQueue(q)
       ELSE [pc |-> "next", queue |-> q, todo |-> due, asOf |-> 0]]
  /\ UNCHANGED << now, tables, events >>

(* The transaction begins: CURRENT_TIMESTAMP stays what it is now, however
   long the FOR UPDATE waits for another tick's transaction. *)
beginMaterialization(t) ==
  /\ tick[t].pc = "next"
  /\ tick' = [tick EXCEPT ![t].pc = "open", ![t].asOf = now]
  /\ UNCHANGED << now, tables, events >>

(* After the transaction for d, the tick goes on with the rest of its list. *)
done(t, d) ==
  LET rest == tick[t].todo \ {d} IN
  tick' = [tick EXCEPT ![t] = IF rest = {} THEN nextQueue(tick[t].queue)
                              ELSE [tick[t] EXCEPT !.pc = "next", !.todo = rest]]

(* materializeDueScheduledJob: the definition is locked, read again if it is
   still there, and checked.  Creating a job under a key the queue already has throws; the tick
   does not catch it and ends there, with all that it still had to do. *)
materializeDueScheduledJob(t, d) ==
  LET at  == tick[t].asOf
      job == << d, nextRunAt[d] >>
  IN
  /\ tick[t].pc = "open" /\ d \in tick[t].todo
  /\ \/ /\ isPaused[QueueOf[d]] \/ ~isDue(d, at)
        /\ done(t, d)
        /\ UNCHANGED << scheduled, nextRunAt >>
     \/ /\ ~isPaused[QueueOf[d]] /\ isDue(d, at) /\ job \notin materialized
        /\ scheduled' = scheduled \cup {job}
        /\ nextRunAt' = [nextRunAt EXCEPT ![d] = followingRun(d, at)]
        /\ done(t, d)
     \/ /\ ~isPaused[QueueOf[d]] /\ isDue(d, at) /\ job \in materialized
        /\ tick' = [tick EXCEPT ![t] = NoTick]
        /\ UNCHANGED << scheduled, nextRunAt >>
  /\ UNCHANGED << now, enabled, row, isPaused, promoted, events >>

outside == events < MaxEvents /\ events' = events + 1

(* A database call of the tick rejects, or its process dies: the open
   transaction is rolled back and the tick ends. *)
abortTick(t) ==
  /\ tick[t] # NoTick /\ outside
  /\ tick' = [tick EXCEPT ![t] = NoTick]
  /\ UNCHANGED << now, tables >>

-----------------------------------------------------------------------------
(* The API and the clock. *)

(* createScheduledJob: the row, whose first occurrence may be past. *)
createScheduledJob(d, r, b) ==
  /\ row[d] = "unborn"
  /\ row' = [row EXCEPT ![d] = "live"]
  /\ nextRunAt' = [nextRunAt EXCEPT ![d] = r]
  /\ enabled' = [enabled EXCEPT ![d] = b]

(* POST /queues/:id/scheduled-jobs: with the nextRunAt of the body, any date, or
   a later time than now. *)
postScheduledJob(d) ==
  /\ outside
  /\ \E r \in 0 .. Horizon, b \in BOOLEAN : createScheduledJob(d, r, b)
  /\ UNCHANGED << now, isPaused, scheduled, promoted, tick >>

(* DELETE /scheduled-jobs/:id: the jobs it was turned into stay. *)
deleteScheduledJob(d) ==
  /\ "delete" \in ApiOps /\ row[d] = "live" /\ outside
  /\ row' = [row EXCEPT ![d] = "deleted"]
  /\ UNCHANGED << now, nextRunAt, enabled, isPaused, scheduled, promoted, tick >>

(* PATCH /scheduled-jobs/:id with enabled. *)
setEnabled(d) ==
  /\ "enable" \in ApiOps /\ row[d] = "live" /\ outside
  /\ enabled' = [enabled EXCEPT ![d] = ~@]
  /\ UNCHANGED << now, nextRunAt, row, isPaused, scheduled, promoted, tick >>

(* PATCH /scheduled-jobs/:id with nextRunAt: any date is accepted, a later one
   or one that is back before occurrences that have run. *)
setNextRunAt(d) ==
  /\ row[d] = "live" /\ outside
  /\ \E r \in 0 .. Horizon :
       /\ \/ "postpone" \in ApiOps /\ r > nextRunAt[d]
          \/ "rewind" \in ApiOps /\ r < nextRunAt[d]
       /\ nextRunAt' = [nextRunAt EXCEPT ![d] = r]
  /\ UNCHANGED << now, enabled, row, isPaused, scheduled, promoted, tick >>

(* PATCH /queues/:id with isPaused. *)
setPaused(q) ==
  /\ "pause" \in ApiOps /\ outside
  /\ isPaused' = [isPaused EXCEPT ![q] = ~@]
  /\ UNCHANGED << now, nextRunAt, enabled, row, scheduled, promoted, tick >>

advanceClock ==
  /\ now < Horizon
  /\ now' = now + 1
  /\ UNCHANGED << tables, tick, events >>

Work(t) == \/ startTick(t)
           \/ promoteDueScheduledJobs(t)
           \/ readDueDefinitions(t)
           \/ beginMaterialization(t)
           \/ \E d \in Definitions : materializeDueScheduledJob(t, d)

Next == \/ \E t \in Ticks : Work(t) \/ abortTick(t)
        \/ \E d \in Definitions : postScheduledJob(d) \/ deleteScheduledJob(d)
        \/ \E d \in Definitions : setEnabled(d) \/ setNextRunAt(d)
        \/ \E q \in Queues : setPaused(q)
        \/ advanceClock

Spec == Init /\ [][Next]_vars

(* Ticks are started again and again, and one that is under way goes on. *)
Fairness == \A t \in Ticks : WF_vars(Work(t))

FairSpec == Spec /\ Fairness

-----------------------------------------------------------------------------
Jobs == Definitions \X (0 .. Horizon)

(* Every variable has its type. *)
TypeOK ==
  /\ now \in 0 .. Horizon
  /\ nextRunAt \in [Definitions -> Nat]
  /\ enabled \in [Definitions -> BOOLEAN]
  /\ row \in [Definitions -> { "unborn", "live", "deleted" }]
  /\ isPaused \in [Queues -> BOOLEAN]
  /\ scheduled \subseteq Jobs
  /\ promoted \subseteq Jobs
  /\ tick \in [Ticks -> [pc    : {"idle", "promote", "read", "next", "open"},
                         queue : Nat,
                         todo  : SUBSET Definitions,
                         asOf  : 0 .. Horizon]]
  /\ \A t \in Ticks : tick[t].pc \in {"next", "open"} => tick[t].todo # {}
  /\ events \in 0 .. MaxEvents

(* No occurrence is turned into a job before its time, although ticks overlap
   and each decides by a list and a clock it read before it got the row. *)
NothingEarly == \A j \in materialized : j[2] <= now

(* nextRunAt always points behind every occurrence that has a job: whatever
   ticks overlap, fail or are paused, no transaction meets the key of a job
   that exists, as long as nobody sets nextRunAt by hand. *)
PointerIsAhead == \A j \in materialized : j[2] < nextRunAt[j[1]]

(* The tables implement the timetable: in spite of overlapping, failing and late
   ticks, pauses and edits, the occurrences of a definition become jobs in their
   order, each once, and are released once, as long as nobody sets nextRunAt
   back. *)
Promise == INSTANCE Timetable
ImplementsTimetable == Promise!Spec

(* A materialization leaves no backlog: the pointer moves forward, past the
   time at which the tick opened the transaction, so a schedule that was due
   many times while the scheduler was down yields one job. *)
NoBacklog ==
  [][\A j \in materialized' \ materialized :
       /\ nextRunAt'[j[1]] > j[2]
       /\ \E t \in Ticks : tick[t].pc = "open" /\ nextRunAt'[j[1]] > tick[t].asOf]_vars

(* Pausing a queue holds its jobs back: while it is paused none is created
   or promoted, also not by a tick that was under way. *)
PausedQueueRests ==
  [][\A j \in (scheduled' \ scheduled) \cup (promoted' \ promoted) :
       ~isPaused[QueueOf[j[1]]]]_vars

(* A due occurrence of an enabled definition becomes a job, unless its queue
   is paused or the definition disabled or deleted before. *)
DueOccurrenceFires ==
  \A d \in Definitions : \A r \in 0 .. Horizon :
    (row[d] = "live" /\ nextRunAt[d] = r /\ r <= now)
      ~> (row[d] # "live" \/ nextRunAt[d] # r \/ ~enabled[d] \/ isPaused[QueueOf[d]])

(* docs/05: execution is eventually eligible: a SCHEDULED job whose time has
   come is promoted, unless its queue is paused. *)
DueJobIsPromoted ==
  \A j \in Jobs : j \in scheduled ~> (j \in promoted \/ isPaused[QueueOf[j[1]]])
=============================================================================
