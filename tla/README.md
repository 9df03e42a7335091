# Verification of the distributed job scheduler

TLA+ models of the scheduler (`Distributed-job-scheduler/`), TLC configurations
that check them on small instances, and TLAPS proofs that hold for every size.
Paths below are relative to `backend/src` unless they start with `docs/`,
`prisma/` or `frontend/`.

## The system

All durable state is in PostgreSQL. Node.js processes run the same program
(`server.ts`): an HTTP API, a scheduler tick driven by `setInterval`, and one
`WorkerRuntime` per queue. They meet only in the database rows, so correctness
rests on which statements lock what, and on what a transaction does with values
it read without a lock. Redis holds the counters of the rate limiter. A Next.js
dashboard calls the API and listens to a WebSocket hub in the API process.

| Component | State | Operations | Interacts with |
|---|---|---|---|
| Job state machine (`core/jobStateMachine.ts`) | the transition table | `canTransition`, `assertValidTransition` | called by all, with constants, never with the row's status |
| Claimer (`core/jobClaimer.ts`) | Job, Queue rows | `claimNextJob` | runtimes of all processes |
| Worker runtime (`core/workerRuntime.ts`) | active jobs, stop flag, timer; Job, JobExecution, JobBatch rows | `start`, `pollLoop`, `executeJob`, `stop` | claimer, recovery, events |
| Worker recovery (`core/workerRecovery.ts`) | Worker, Job, JobExecution rows | heartbeats, status updates, `recoverStaleWorkers` | tick; races with late workers |
| Retry processor (`core/retryProcessor.ts`) | Job rows | `scheduleFailedJob`, `promoteDueRetries`, `calculateRetryDelay` | tick, `POST /jobs/:id/retry` |
| Dead-letter processor (`core/deadLetterProcessor.ts`) | Job, DeadLetterEntry, JobBatch rows | `processDeadLetter` | tick |
| Recurring scheduler (`core/scheduler.ts`) | ScheduledJob, Job rows | create, materialize, promote | tick, routes |
| Bootstrap (`server.ts`) | Map of runtimes, ticks under way, shutdown flag | start, tick, `ensureRuntimeWorkers`, `shutdown` | everything above |
| Routes (`api/routes/queues.ts`) | Job, Queue, RetryPolicy, ScheduledJob, DeadLetterEntry rows | submit, cancel, retry, requeue, pause, schedules, queues, policies, worker heartbeats | all of the above through the rows |
| Projects and job types (`api/routes/projects.ts`) | Project, ProjectJobType rows | create, rename, delete | queues, through foreign keys; the handlers' map |
| Batch creator (`core/jobBatchCreator.ts`) | JobBatch, Job rows | `createJobBatch` | single submissions, through the idempotency key |
| Handlers (`core/jobHandlers.ts`, `dispatcher.ts`) | a map of handlers | pure functions of a payload | runtime |
| Event bus, WebSocket hub (`events/`) | listeners; clients and their subscriptions | publish, broadcast, subscribe | awaited inside runtime, tick and routes |
| Rate limiter (`api/middleware/rateLimit.ts`) | a Redis counter per policy, identity and window | count, expire, fail open | routes |
| Authentication (`api/routes/auth.ts`, `api/middleware/auth.ts`) | User rows, cookies | register, login, refresh, session, logout | API client |
| API client, session (`frontend/lib/api.ts`) | token per tab, requests in flight | request, refresh and send again, join | every page |
| Live views (`frontend/lib/socket.ts`, `hooks/useScheduler.ts`, job page) | socket, timers, wanted topics, what is shown | connect, reconnect, load, patch | hub, API client |
| Metrics, readiness, logging, other pages | - | - | nothing decides by them |

What is hard: outcomes written by primary key over a status that changed in the
meantime (cancel, recovery, requeue); awaits that throw after a commit; workers
declared dead that are alive; crashes between two transactions; ticks that
overlap; shutdown while a tick creates a runtime; schedules moved by hand; keys
and rows checked in one statement and relied on in a later one; transactions that
wait for each other; answers and events that arrive after the page has changed;
connections lost at any step; tokens that expire between two requests.
`PROJECT.json` lists each hazard at its line, with the properties that cover it.

What makes each part correct: a job is executed by one worker at a time, within
its attempt budget, and ends; its rows agree with each other; an attempt number
is used once; a dead-lettered job can be requeued; no occurrence of a schedule is
lost, early or doubled; every queue is served; shutdown ends and drains; an
idempotency key names one job; a batch is whole; rows refer to rows that exist;
a page shows its own project, stays connected and loads; the rate limit holds; a
call's work is done as often as the call reports.

## Modules

| Module | What it is |
|---|---|
| `JobStates` | status enums and the transition table; constant-level |
| `JobStateMachine` | abstract specification: every job moves along the table, or is requeued from the DLQ |
| `JobLifecycle` | claim, execution, heartbeats, recovery, retry, dead letter, promotion, cancel, requeue, pause, crash, restart on the jobs of one queue |
| `MCJobLifecycle` | instances: a Worker row per process (`OwnRows`) or one for all (`SharedRow`) |
| `Timetable` | abstract specification: occurrences become jobs in order, each once and not early, and are released once |
| `Scheduler`, `MCScheduler` | overlapping ticks over several queues: materialization, promotion; schedules created, edited, deleted |
| `Bootstrap`, `MCBootstrap` | one process: runtimes created by ticks, poll loops, `stop()`, `shutdown` |
| `IdempotentStore` | abstract specification: a key that is taken names one job, and everybody is told of it |
| `Catalog` | projects, job types, retry policies, queues, statement by statement |
| `Submission`, `MCSubmission` | single and batch submission among the requests of `Catalog` (EXTENDS it) |
| `RateLimiter` | counters with windows and time-to-live; a specification of its own |
| `Sessions`, `MCSessions` | tabs, tokens, cookies, refresh; every request passes through `RateLimiter` (EXTENDS it) |
| `WebSocketHub` | transitions, publication, subscriptions at the hub |
| `LiveView`, `MCLiveView` | one tab against the hub: socket, overview, job page, shared GET requests (EXTENDS it) |
| `JobLifecycleProofs`, `SchedulerProofs`, `BootstrapProofs`, `RateLimiterProofs`, `SessionsProofs`, `CatalogProofs`, `SubmissionProofs`, `LiveViewProofs` | theorems, for all constants |

Refinements: `JobLifecycle` implements `JobStateMachine` (the status column),
`Scheduler` implements `Timetable` (clock, waiting and released jobs),
`Submission` implements `IdempotentStore` (keys taken by committed jobs, keys and
jobs of the answers), `Sessions` implements `RateLimiter` (the limiter's state).
`Scheduler` ends where a job is `QUEUED`; `JobLifecycle` takes it from there
(its `Init` has jobs that are `SCHEDULED` or `QUEUED`). `Bootstrap` decides which
runtimes and ticks exist; `JobLifecycle` and `Scheduler` say what they do.

### JobLifecycle

State is the columns the code tests: `status`, `claimedBy`, `attemptCount`, a
boolean `due` for `scheduledAt <= CURRENT_TIMESTAMP`, the set of JobExecution
rows, the dead-letter entry (`none`, `active`, `requeued`), the batch counters,
the pause flag, and per Worker row its status and whether its last heartbeat is
too old. Per process: whether it is up, and for each place in `activeJobs` where
the `executeJob` invocation is. `rec` holds what an open recovery transaction
has read, `req` what a cancel or requeue request has read and not yet written.

Isolation is READ COMMITTED. An action is one locking statement with the commit,
or a whole transaction whose first statement takes the lock. Reads without a
lock that are used later are actions of their own:

- `executeJob`: ownership check (line 180) and writes (184-208) are
  `verifyOwnership` and `startExecution`; success (249-277) and catch block
  (307-328) are `recordSuccess` and `recordFailure`. `recordFailure` is also
  enabled after a committed success, because publication and log are awaited in
  the same `try`. `abandon` is any await that throws where nobody cleans up.
- `recoverWorker`: lock and read of owned jobs (`lockStaleWorker`), search for
  executions (`findExecutions`), writes and commit (`commitRecovery`). The Worker
  row stays locked, which blocks claims and starts by that worker because of the
  foreign keys.
- cancel and requeue: read (`readForCancel`, `readForRequeue`) and write.
- `scheduleFailedJob` repeats its conditions in the UPDATE and `processDeadLetter`
  holds the row lock: one action each.

- `POST /jobs/:id/retry` and `POST /workers/:id/heartbeat` are the same calls as
  the tick's and the timer's, made by a client (`retryJob`, `postHeartbeat`): the
  heartbeat of a client keeps a dead worker's row fresh.

Abstracted: timestamps, delays, priorities (jobs are numbered in claim order),
payloads, logs, events. Bounds: `AttemptBound` stops starts after that number of
attempts (requeues would go on for ever).

### Scheduler

State: clock, `nextRunAt`, `enabled`, whether a definition's row exists (`row`),
pause flag, materialized jobs (pairs of definition and occurrence, which is their
idempotency key) in `scheduled` or `promoted`, and the position of every tick.
`Present` are the definitions there at the start; others are created through the
API with any first occurrence, and any may be deleted while a tick has it on its
list. `CURRENT_TIMESTAMP` is the start of the transaction (`asOf`), which may be
earlier than the moment the row lock is granted. A job under an existing key
throws; the tick's catch ends the tick. cron-parser is `NextRun`, any function
that returns a later time. Bounds: `Horizon` of the clock, `MaxEvents` API calls
and failed ticks.

### Bootstrap

State: phase of the process, queues, Worker status per queue (also left over from
earlier processes), the Map `runtimeWorkers`, for every runtime its loop, number
of handlers and progress of `stop()`, ticks, and the runtimes shutdown found.
The await in `ensureQueueWorker` separates `has` from `set`. Staleness is the
choice of `startTick`: a row with a live timer is stale only if heartbeats are
late, which counts as a failure. Bound: `MaxFailures`.

### Catalog and Submission

A request is an operation, the next statement of its handler (`at`) and, when it
is answered, a status; the row it creates has its name. Each `await prisma...` is
a step, so other requests come between a count or a lookup and the write that
relies on it. What the write meets then is decided by the unique keys and the
foreign keys (`onDelete: Restrict`, `Cascade`) of `prisma/schema.prisma`: a
conflict that the handler catches is its status, one it does not catch is 500.
Names exist in two spellings, since one lookup ignores case and the constraint
does not.

A batch inserts row by row in its transaction (`inserted`); other requests see
nothing of it, but an insert under the same key waits (`blocked`) until it ends.
A transaction that waits may be rolled back (`timeoutBatch`: Prisma's timeout or
the deadlock detection, which the model does not tell apart). `Known` restricts
identifiers to rows a client can have been told of, gone ones included. Bounds:
the number of `Requests`, `MaxFailures` awaits that throw.

### RateLimiter and Sessions

The limiter's key contains the window and is chosen before Redis is awaited, so a
request may count under the key of a window that has ended. Time is in the units
of the window and the time-to-live in seconds of `SecondMs` units: rounding is
part of the model. `admitted` is a history variable.

A token is its expiry time. A call is one `api()` of a page: its request travels
(`sent`), passes `requireAuth`, waits for Redis (`counting`), runs its handler,
and is received; after a 401 it refreshes and is sent once more. Cookies are
shared by the tabs, `storage` is per tab. `work` stands for every route that
changes something under the write limit, the API key routes included. A handler
that throws may have done its part: work counts as done, and a registration may
have committed the account that its answer of 500 denies. Bounds: calls, `Horizon`,
`MaxFailures`.

### WebSocketHub and LiveView

A job's row is a version; an event carries the version its transition wrote. The
hub has the clients, the topics of each, and subscribe messages that are applied
in any order. The browser has the current socket, the state of each connection,
the reconnect timer, the topics to restore (`wanted`), the requests in flight
with those who await them (`gets`), and the timers of the overview. A page that is
left leaves its requests, and possibly a retry timer (`zombies`), behind. Leaving
a page and mounting the next is one step, since React runs both in one commit.
Bounds: `MaxVersion` transitions, `MaxDrops` lost connections, `MaxFailures`
failed requests.

## Runs

All runs disable TLC's deadlock check: jobs are finitely many, clocks end at
`Horizon`, requests end and a process may be shut down, so the models may stop.

| Run | Shows | Instance |
|---|---|---|
| `life_everything` | `TypeOK`, `AttemptIdentity`, `RunOwnsItsExecution`, `OwnedIsActive`, `DeadLetterHasEntry`, `StatusBackedByExecution` with every fault | 1 job, 2 processes with rows of their own, 2 API requests, 2 attempts |
| `life_faults` | `NoDoubleExecution`, `RetryBudget`, `OnlyKnownMoves` when heartbeats are in time | 2 jobs, 2 processes, 3 attempts |
| `life_machine` | `ImplementsStateMachine`, `BatchReflectsJobs` without late heartbeats, cancels and failing awaits, with requeue, retry and heartbeats through the API | 2 jobs, 2 processes, 3 attempts |
| `life_settles` | `NobodyIsOrphaned` and `EveryJobSettles` (liveness) with crashes | 2 jobs, 2 processes |
| `schedule` | `ImplementsTimetable`, `NothingEarly`, `PointerIsAhead`, `NoBacklog`, `PausedQueueRests`, `DueOccurrenceFires`, `DueJobIsPromoted` | 2 queues, a schedule in one and one to be created in the other, 2 ticks, 3 times, 2 events |
| `bootstrap` | `ServedQueueIsPolled`, `StoppedIsDrained`, `CleanShutdown`, `ShutdownTerminates`, `EveryQueueServed` | 1 queue, start-up and 2 overlapping ticks, 2 places, 2 failures |
| `live` | `SocketIffListening`, `WantedIsAsked`, `ViewIsOwn`, `LoadingIsUnderWay`, `ListenersGetConnected`, `OverviewLoads` | 2 projects with a job each, 3 pages, 2 connections, 1 loss, 1 failure |
| `submit` | `ReferencesHold`, `BatchIsWhole`, `ImplementsStore`, `EveryRequestAnswered` | 3 requests among 20 operations, 2 keys, 1 failure |
| `session` | `LimitHolds`, `CallsEndTruly` | 2 tabs, 2 calls, limit 1, window of 1.5 seconds, 2 failures |
| `doc_terminal` | violated: `CANCELLED` and `COMPLETED` are terminal (docs/03-JOB-LIFECYCLE.md:39, :35) | 1 job, 1 cancel, failing awaits |
| `doc_requeued` | violated: exhausted `FAILED` jobs become `DEAD_LETTER` (docs/07-RETRY-AND-DLQ.md:39) | 1 job, 1 requeue |
| `doc_orphans` | violated: jobs of a crashed worker are recovered (docs/06:12) | 1 job, shared row |

`TypeOK` is a theorem for each component; the run `life_everything` checks it as
well, where it says what is not just a domain: that a batch counter never goes
below zero, whatever outcomes are written late.

Why these bounds: two workers, two requests and two attempts are enough for every
race between an owner, its successor and an operator on one job; a second job
matters for claim order, recovery of several jobs and batch counts. Two ticks
contend for one definition or one queue, and two queues show what an aborted tick
leaves behind. Three clock values make a schedule fall due twice. Two connections
are the one that closes and the one that replaces it; one loss and one failure
meet every step of the page, and pages of two projects and one without a socket
are every kind of navigation. A deadlock needs two batches; a third request
creates or deletes what they refer to. A limit of 1 and a window that is no whole
number of seconds make the rounding matter; two calls are one that is refreshed
and one that signs in, out or refreshes beside it. The invariants of
`life_everything`, `submit`, `session` and `live` are proved for all sizes.

The violated properties are not environment artefacts: `doc_requeued` needs no
fault at all, and `doc_terminal` needs either only a cancel or only an await that
throws.

### Preconditions of the passing runs

`NoDoubleExecution` and `RetryBudget` need heartbeats in time (a live worker that
is declared stale runs its job beside its successor), requests one at a time, and
constant limits (a policy lowered later may be below a job's count already).
`ImplementsStateMachine` also needs no cancel and no failing await: with them the
row leaves CANCELLED or COMPLETED, which `doc_terminal` shows.
`OnlyKnownMoves` allows for cancels and failing awaits and names the moves they
cause (`deviates`): a cancel by a status that has changed, the start or outcome of
an invocation whose job was cancelled, the catch block after a committed
completion, a recovery whose job was cancelled in between.
`NobodyIsOrphaned` needs that heartbeats are in time, that requeues do not overlap,
that nothing is cancelled, no await fails, no process comes back, and that each has
a Worker row of its own. None of the six can be left out: with any one of them
dropped TLC finds an active job that nobody works on and no recovery will find.
`BatchReflectsJobs` speaks of batches none of whose jobs was requeued: a requeued
job stays counted as failed. `EveryJobSettles` needs a Worker row per process, no
requeue and no cancel. `PointerIsAhead` and `DueJobIsPromoted` need that nobody
sets `nextRunAt` back. `LimitHolds` speaks of the requests Redis counted: without
Redis the limiter lets everything through. `ViewIsOwn` does not say that the page
shows the newest version: it may show an older one until the next event or load.

What lies outside these preconditions, or fails by the code, no passing property
covers: a job left CLAIMED or RUNNING by a publication that throws
(`core/workerRuntime.ts:215`), the writes of a recovery over a job that a late
worker moved (`core/workerRecovery.ts:155`, except for claims, attempts and
executions), counters after late outcomes, cancels and requeues
(`core/workerRuntime.ts:271`), starvation behind a schedule set back
(`core/scheduler.ts:137`), the runtimes that nobody stops (`server.ts:115`, `:220`)
and handlers not awaited after a `stop()` that rejects
(`core/workerRuntime.ts:112`). The actions are in the models, a schedule set back
too; `PROJECT.json` says so at each hazard.

### Fairness

`JobLifecycle`: the poll loop and `executeJob` are loops and awaits that go on,
`setInterval` revisits stale workers, promotions and every FAILED job, handlers
return, time passes, a request that was read is written; weak fairness on each.
Crashes, restarts, late heartbeats and API calls are not fair. `Scheduler`: ticks
are started again and go on. `Bootstrap`: ticks, loops, handlers, `stop()` and
`shutdown` go on; nobody has to ask for the shutdown. `LiveView`: handshakes end,
timers fire, loads start and are answered; nothing is assumed of the user, the
jobs, losses or failures. `Submission`: the event loop runs the handlers that can
go on, weak fairness on one step of any; arrivals and failures are free.
`Sessions` and `RateLimiter` are checked for safety only. Every await is taken to
end, which a Redis ping that never answers would break (see hazards).

## Proofs

`JobLifecycleProofs` proves ten invariants, two action properties and a refinement
for any set of jobs, processes, Worker rows, any concurrency, faults and API use,
from the assumptions named in `JobLifecycle`. What is assumed beyond them:

| Theorems | Conditions | Run with the same conditions |
|---|---|---|
| `TypeCorrect`, `OwnershipCorrect`, `DeadLetterCorrect`, `AttemptsCorrect`, `RunsCorrect`, `HistoryCorrect` | none | `life_everything` |
| `OneHandlerPerJob`, `BudgetIsKept`, `OnlyKnownMovesHappen` | heartbeats in time (`HeartbeatsInTime`), requeues that do not overlap (`OneRequeueAtOnce`) | `life_faults` |
| `StateMachineImplemented`, `TerminalWithoutCancels`, `BatchCountsAreTrue` | besides, nothing is cancelled and no await fails (`NoCancels`, `NoErrors`) | `life_machine` |
| `ActiveJobsAreInReach` | besides, no restarts and a row per process (`NoRestarts`, `OwnRow`) | `life_settles`, which has no requeue |

Along which argument:

- `TypeOK` is inductive with one lemma per helper; that the batch counters stay
  natural rests on the guard `pendingJobs > 0`.
- `OwnedIsActive` and `DeadLetterHasEntry` are inductive relative to `TypeOK`.
  An entry turns `requeued` only with the job leaving DEAD_LETTER, and the
  processor refuses a job that has an entry.
- `AttemptIdentity` is carried by a strengthening (`Numbered`): attempts are at
  most `attemptCount`, every number up to it is used, keys are unique. Status
  updates keep the numbers; only `startExecution` adds one, the next.
- `RunOwnsItsExecution` follows from it: two handlers of one job got different
  numbers because each increments the same counter.
- `StatusBackedByExecution` needs that the rows recovery has found and the row a
  handler holds still exist when they are overwritten (`NextFoundRows`), and that
  overwriting one row removes an outcome only together with the job's status.
- `NoDoubleExecution` is not inductive: it says nothing of an invocation before its
  handler. The strengthening counts an invocation as the holder of its job from the
  claim on (`HoldersInv`: a job has one holder, whose process is up and whose row, if
  any, the job names). Recovery takes only jobs of rows no process serves
  (`TimelyInv`), so never a held one, and what it has read only a cancel touches
  before it commits (`TakenInv`). A requeue that was read is still due when it is
  written (`RequeueInv`).
- `RetryBudget` follows with it (`BudgetInv`): a job that may still be started, also
  one that is claimed or about to be put back, has an attempt left.
- `OnlyKnownMoves`: no write checks the status, so each must meet the status its
  reader saw. `AsReadInv` says it does, or meets CANCELLED: a job a runtime claimed
  is CLAIMED until that runtime starts it and RUNNING until it ends it, the jobs a
  recovery has read are as it read them, and only a cancel comes between. It is
  inductive with `SoleInv`: another runtime or recovery would need a second owner.
  Every step is then a move of the table, a requeue or one of `deviates`.
- `ImplementsStateMachine` and `TerminalIsFinal` follow where the deviations cannot
  happen (`CancelInv`): the two causes that `doc_terminal` shows are the only ones.
- `BatchReflectsJobs` is inductive with what was read being exactly so
  (`SteadyIsExact`): an open job becomes COMPLETED or DEAD_LETTER in the two steps
  that also count it, and the guard `pendingJobs > 0` holds there because the job
  itself is open.
- `NobodyIsOrphaned` is the safety half of `EveryJobSettles`: it names who moves an
  active job on. It is not inductive, for recovery skips a RUNNING job without a
  RUNNING execution and makes the row OFFLINE all the same. `AttemptInv` ties each
  RUNNING job to the one RUNNING execution of its owner and its last attempt;
  `RecoverableInv` says that a row is ONLINE while it owns a job, and that an open
  recovery holds all jobs of its row with their executions, so that no commit
  leaves one behind; `OwnerInv` says that an owned job has its invocation until the
  owner dies.

`SchedulerProofs` proves, for any queues, definitions, cron schedules, ticks and
horizon, everything the run `schedule` checks except the two liveness properties.
The strengthening (`TimesArePast`) says that a tick's transaction time is never
ahead of the clock; `NothingEarly` follows from it. `FollowingRun` says that the
pointer moves behind the occurrence and behind the transaction's time, whichever
branch of the code is taken; `PointerIsAhead` (when `"rewind"` is not in `ApiOps`)
and `NoBacklog` follow from it. `PausedQueueRests` needs the check that is made
again under the row lock. `TimetableImplemented` maps every step to the timetable:
a materialization fires an occurrence that is due and, by `PointerIsAhead`, later
than all before; all else that touches the jobs releases them. `OccurrencesRunOnce`,
that a released job never waits again, needs only the idempotency key and holds
even if somebody sets `nextRunAt` back. `NoneUnborn` says that a definition that has a
job has a row that was created: creating one cannot set back the pointer of
occurrences that have jobs.

`BootstrapProofs` proves type correctness and `StoppedIsDrained` for any queues,
ticks, concurrency and number of failures. That handlers never exceed the
concurrency needs `ClaimHasPlace`: the place seen free at the head of the loop is
still free when the claim returns. `StoppedIsDrained` is inductive: `poll` leaves a
loop that is done alone, and only the loop starts handlers. `ShutdownIsClean` needs
more (`ShutdownInv`): the map names the runtime started last and only that one
(`MapInv`), so `stop()` is called for at most one runtime of a queue and never for
one that is started after it (`StoppingInv`), and once a runtime is stopped its row is
STOPPED unless a tick is about to start, or has started, another (`RowInv`).
`MappedRuntimePolls` is what makes `has` a sufficient check in `EveryQueueServed`: only
`stop()` ends a loop (`LoopInv`; a claim that throws is caught), and it is called for
what the Map holds no earlier than at shutdown.

`RateLimiterProofs` proves `WindowLimit`. The counter says nothing by itself, for
it expires; the strengthening (`LimiterInv`) says that what was admitted in a
window is at most the counter while the counter lives, and that the counter of
the current window lives until the window ends, because its time-to-live is at
least a window (`windowSeconds` rounds up). `SessionsProofs` shows that every step
of `Sessions` is a step of the limiter or leaves it alone (`SessionsUseLimiter`),
takes the limit over (`SessionsKeepLimit`), and proves `CallsEndTruly` from an
invariant that follows a call through its stages: whether it has worked, whether
it was refreshed, and which token it carries.

`SubmissionProofs` rests on `CatalogProofs`, which says what a statement of the
catalog changes and that references survive it. `SubmissionInv` has the unique key
over committed rows and the rows of open transactions together: that is why a
commit, which checks nothing, violates no key. `NothingDangles`, `BatchesAreWhole`
and the refinement `SubmissionRefinesStore` follow from it; `KeysNameOneJob`
proves the promise of the abstract store and carries it over to the submissions.

`LiveViewProofs` proves the five invariants of `live` for any jobs, pages,
connections, losses and failures. `SocketIffListening` needs that only the current
connection's link is connecting or open, and that without a socket the status is
`DISCONNECTED` (`SocketInv`): else the reconnect timer would fire and do nothing.
`ViewIsOwn` needs that an event never runs ahead of its row (`EventsInv`) and that
only the page that asked is among those who are shown an answer (`GetInv`).
`LoadingIsUnderWay`, the safety half of `OverviewLoads`, needs that a request which
somebody awaits is in flight (`InFlight`), and that nothing ends the page's own
request without showing the answer, showing an error or arming the retry; joining a
request in flight keeps its waiters (`ApiServes`).

Every invariant, action property and refinement that a passing run checks is proved.
Liveness under fairness (`EveryJobSettles`, `DueOccurrenceFires`,
`DueJobIsPromoted`, `ShutdownTerminates`, `EveryQueueServed`,
`ListenersGetConnected`, `OverviewLoads`, `EveryRequestAnswered`) and anything
about ENABLED is out of the prover's reach and stays with TLC. No module uses a
RECURSIVE operator.

## Where code and documentation disagree

The findings in `PROJECT.json` quote them. Further differences met while
modelling, without a run of their own.

Jobs, schedules, processes:

- docs/TESTING.md:232, terminal jobs cannot be cancelled: the check reads an old
  status (`api/routes/queues.ts:704-709`).
- docs/TESTING.md:263, requeueing a stale entry gives 409: two requests may both
  pass the check (`api/routes/queues.ts:838-845`).
- docs/03-JOB-LIFECYCLE.md:52, no `FAILED -> COMPLETED`: a late worker does it.
- docs/03-JOB-LIFECYCLE.md:60 and docs/08-BATCH-JOBS.md:30, batch counters are not
  updated and the claim ignores pause: the code does both.
- docs/05-SCHEDULER.md:27, no routes that write schedules: there are three.
- docs/05-SCHEDULER.md:35, due work is eventually eligible: a schedule set back
  before an occurrence that has a job makes every tick throw at its queue
  (`core/scheduler.ts:137`) and starves the queues behind it.
- docs/06-RELIABILITY-AND-FAULT-TOLERANCE.md:19, shutdown awaits the handlers: a
  tick that is in `ensureQueueWorker` starts a runtime that nobody stops
  (`server.ts:220`).
- docs/DESIGN-DECISIONS.md:110, `claimNextJob()` counts active jobs against
  `concurrencyLimit`: the column is selected and not compared.
- docs/PROJECT-STRUCTURE.md:108, one runtime per queue: overlapping ticks start
  two.

Catalog and submission:

- docs/API.md:165, a duplicate registration gives 409: two that race give 500.
  Duplicate project names, renames that collide and the deletion of a policy that
  was just assigned give 500 too.
- Queue names are unique in any case for a creation that is alone; two that race,
  and every PATCH, may leave names that differ in case only.
- Two first reads of the retry policies create the defaults twice.
- A job or batch whose publication fails is answered 500 after it was committed;
  without a key, the client's repetition creates it again.
- A custom job type replaces the handler of that name for every project, a
  built-in one too (`core/jobHandlers.ts:92-108`).

Sessions:

- docs/13-SECURITY.md:17, no JWT is in browser-readable storage: the access token
  is in `sessionStorage`.
- A refresh that is answered after a logout signs the tab in again; of two calls
  that refresh together, the one whose refresh is refused drops the token that
  the other stored.
- The session request is not refreshed, so the shell sends a browser with a valid
  refresh cookie to the login page; the registration page does not keep its token.
- `Retry-After` is a whole window, also near its end.

Dashboard:

- docs/12-FRONTEND-DASHBOARD.md:31, reload obtains the current state: a reload
  joins a GET in flight that the server may have answered before the change.
- The creation forms watch the socket's status and never connect it.
- `fetchAllPages` reads pages by offset, so rows move between them.

## Not modelled

- Job handlers (functions of a payload) and `calculateRetryDelay` (a function of a
  policy and an attempt; only that the retry is later matters here).
- Metrics, queue depth snapshots, readiness, logging, wiring: nothing decides by
  them. `middleware/authorization.ts` and a part of `auth.ts` are used by nothing.
- Organisations: one is modelled; memberships do not change while the program runs.
- The WebSocket hub's refusals, which one organisation makes impossible.
- The other pages of the dashboard: each loads, shows and posts; `fetchAllPages`.
- The row locks of start, recovery, claim and dead letter as such: that PostgreSQL
  may kill a transaction is an action, which one it kills is not.
- A change of project within one instance of `useScheduler`, whose cleared timers
  keep their handles (a page of the model is an instance with one project); the 500
  on an empty idempotency key; a definition whose cron expression is edited
  (`NextRun` is fixed, `nextRunAt` is not).
- A process that dies while it drains: `Bootstrap` and `JobLifecycle` are not
  composed. By the code, recovery does not look at DRAINING rows.

## Plan

1. Done: the modules above with their runs and proofs.
2. A composition of `Bootstrap` and `JobLifecycle`, and the row locks.
