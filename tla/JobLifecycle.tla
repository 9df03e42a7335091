--------------------------- MODULE JobLifecycle ---------------------------
(***************************************************************************)
(* The life of the jobs of one queue: the claim, the execution, the        *)
(* recovery of stale workers, the retry and dead-letter processors, the    *)
(* promotions and the API's cancel, requeue and pause, all acting on the   *)
(* same PostgreSQL rows.                                                   *)
(*                                                                         *)
(* Grain of atomicity.  All transactions are READ COMMITTED, so one action *)
(* is one statement that takes a row lock and keeps it until the commit,   *)
(* or one transaction whose first statement takes the lock.  Where the     *)
(* code reads without a lock and writes later by primary key, the read and *)
(* the write are two actions and what was read is kept in between (run,    *)
(* rec, req).                                                              *)
(*                                                                         *)
(* A process runs one WorkerRuntime for the queue; RowOf gives its Worker  *)
(* row.  server.ts derives the row from the queue alone, so processes of   *)
(* the shipped program share it; runtimes built by hand (the tests) may    *)
(* have a row each.                                                        *)
(***************************************************************************)
EXTENDS JobStates, Integers, FiniteSets

CONSTANTS
  Jobs,              \* the jobs, numbered in the claim query's order
                     \* (priority DESC, createdAt ASC)
  Procs,             \* operating-system processes that run a WorkerRuntime
  Workers,           \* rows of the Worker table
  RowOf,             \* the Worker row of each process
  Concurrency,       \* WorkerRuntime.concurrency
  Clients,           \* API requests that may be in flight together
  None,              \* claimedBy = null
  BatchJobs,         \* the jobs that belong to the one JobBatch
  MaxAttempts,       \* Job.maxAttempts
  PolicyMaxAttempts, \* RetryPolicy.maxAttempts of the queue
  AttemptBound,      \* bound of the model: no attempt beyond this number
  Faults,            \* the faults the environment may inject
  ApiOps             \* the API operations clients use

FaultKinds == { "crash", "restart", "late", "error" }
ApiKinds   == { "cancel", "requeue", "pause", "retry", "heartbeat" }

ASSUME JobsAssumption    == Jobs \subseteq Nat \ {0}
ASSUME RowOfAssumption   == RowOf \in [Procs -> Workers]
ASSUME NoneAssumption    == None \notin Workers
ASSUME NumbersAssumption == /\ Concurrency \in Nat \ {0}
                            /\ MaxAttempts \in Nat \ {0}
                            /\ PolicyMaxAttempts \in Nat \ {0}
                            /\ AttemptBound \in Nat
ASSUME BatchAssumption   == BatchJobs \subseteq Jobs /\ IsFiniteSet(BatchJobs)
ASSUME OptionsAssumption == Faults \subseteq FaultKinds /\ ApiOps \subseteq ApiKinds

VARIABLES
  status,        \* Job.status
  claimedBy,     \* Job.claimedBy (claimedAt is set and cleared with it)
  attemptCount,  \* Job.attemptCount
  due,           \* Job.scheduledAt <= now
  executions,    \* the rows of JobExecution
  deadLetter,    \* the job's DeadLetterEntry, if any
  batch,         \* the counters of the JobBatch row
  isPaused,      \* Queue.isPaused
  wstatus,       \* Worker.status (ONLINE or OFFLINE here)
  stale,         \* Worker.lastHeartbeatAt is older than heartbeatTimeoutMs
  up,            \* the process is alive
  run,           \* the executeJob invocations of every runtime
  rec,           \* the open recovery transaction of each Worker row
  req            \* API requests between their read and their write

jobVars    == << status, claimedBy, attemptCount, due >>
tableVars  == << executions, deadLetter, batch, isPaused >>
workerVars == << wstatus, stale >>
procVars   == << up, run >>
vars       == << jobVars, tableVars, workerVars, procVars, rec, req >>

NoJob == 0

(* The places of a runtime's activeJobs set. *)
Slots     == Procs \X (1 .. Concurrency)
ProcOf(s) == s[1]
Row(s)    == RowOf[s[1]]

RunPCs == { "idle", "claimed", "verified", "running", "completed" }
IdleRun == [pc |-> "idle", job |-> NoJob, attempt |-> 0]

Closed == [phase |-> "closed", by |-> None, claimed |-> {}, running |-> {}, rows |-> {}]
Idle   == [op |-> "idle", job |-> NoJob]

(* One row of JobExecution, whose key in use is (jobId, attemptNumber). *)
Execution == [job : Jobs, attempt : Nat \ {0}, worker : Workers, status : ExecutionStatus]

(* UPDATE "JobExecution" SET status = st for the rows whose key is in K. *)
setExecutionStatus_lost(K, st) == executions          \* mutant: no write
setExecutionStatus(K, st) ==
  { IF <<e.job, e.attempt>> \in K THEN [e EXCEPT !.status = st] ELSE e : e \in executions }

(* claimedBy = null, claimedAt = null. *)
clearClaim_forgotten(J) == UNCHANGED claimedBy        \* mutant
clearClaim(J) == claimedBy' = [j \in Jobs |-> IF j \in J THEN None ELSE claimedBy[j]]

(* jobBatch.updateMany(...) where pendingJobs > 0: one more job of the batch
   counts as completed or failed. *)
settleInBatch_keepsPending(j, outcome) ==             \* mutant: no decrement
  batch' = IF j \in BatchJobs /\ batch.pending > 0
           THEN [batch EXCEPT ![outcome] = @ + 1] ELSE batch
settleInBatch_unguarded(j, outcome) ==                \* mutant: not where pendingJobs > 0
  batch' = IF j \in BatchJobs
           THEN [batch EXCEPT ![outcome] = @ + 1, !.pending = @ - 1] ELSE batch
settleInBatch(j, outcome) ==
  batch' = IF j \in BatchJobs /\ batch.pending > 0
           THEN [batch EXCEPT ![outcome] = @ + 1, !.pending = @ - 1] ELSE batch

(* The effective attempt limit: the job's and its queue's policy's. *)
Exhausted_offByOne(j) == attemptCount[j] > MaxAttempts \/ attemptCount[j] > PolicyMaxAttempts
Exhausted(j) == attemptCount[j] >= MaxAttempts \/ attemptCount[j] >= PolicyMaxAttempts

(* The Worker row is locked FOR UPDATE: inserting or updating a row whose
   foreign key points to it, and updating the row itself, block. *)
RowLocked(w) == rec[w].phase # "closed"

Init ==
  /\ status \in [Jobs -> {"QUEUED", "SCHEDULED"}]
  /\ due = [j \in Jobs |-> status[j] = "QUEUED"]
  /\ claimedBy = [j \in Jobs |-> None]
  /\ attemptCount = [j \in Jobs |-> 0]
  /\ executions = {}
  /\ deadLetter = [j \in Jobs |-> "none"]
  /\ batch = [completed |-> 0, failed |-> 0, pending |-> Cardinality(BatchJobs)]
  /\ isPaused = FALSE
  /\ wstatus = [w \in Workers |-> "ONLINE"]
  /\ stale = [w \in Workers |-> FALSE]
  /\ up = [p \in Procs |-> TRUE]
  /\ run = [s \in Slots |-> IdleRun]
  /\ rec = [w \in Workers |-> Closed]
  /\ req = [c \in Clients |-> Idle]

-----------------------------------------------------------------------------
(* WorkerRuntime: pollLoop, claimNextJob and executeJob. *)

Eligible_early(j) == status[j] \in {"QUEUED", "RETRY"} /\ due[j]   \* mutant
Eligible(j) == status[j] = "QUEUED" /\ due[j]

(* claimNextJob, called by a runtime with a free place.  The Queue row is
   locked first, so claims of one queue run one at a time; the row taken is
   the first eligible one.  Setting claimedBy checks the foreign key to the
   Worker row.  The worker's own status is not read, and concurrencyLimit is
   read and compared with nothing. *)
claimNextJob(s) ==
  /\ up[ProcOf(s)] /\ run[s].pc = "idle"
  /\ ~isPaused /\ ~RowLocked(Row(s))
  /\ \E j \in Jobs :
       /\ Eligible(j) /\ \A k \in Jobs : Eligible(k) => j <= k
       /\ status' = [status EXCEPT ![j] = "CLAIMED"]
       /\ claimedBy' = [claimedBy EXCEPT ![j] = Row(s)]
       /\ run' = [run EXCEPT ![s] = [pc |-> "claimed", job |-> j, attempt |-> 0]]
  /\ UNCHANGED << attemptCount, due, tableVars, workerVars, up, rec, req >>

ownsClaim(j, w) == status[j] = "CLAIMED" /\ claimedBy[j] = w

(* executeJob up to the check inside the start transaction: the job is read
   without a lock; WorkerOwnershipError ends the invocation. *)
verifyOwnership(s) ==
  LET j == run[s].job IN
  /\ run[s].pc = "claimed"
  /\ run' = [run EXCEPT ![s] =
               IF ownsClaim(j, Row(s))
               THEN [@ EXCEPT !.pc = "verified"] ELSE IdleRun]
  /\ UNCHANGED << jobVars, tableVars, workerVars, up, rec, req >>

(* attemptCount: { increment: 1 }. *)
nextAttempt_reused(j) == IF attemptCount[j] = 0 THEN 1 ELSE attemptCount[j]  \* mutant
nextAttempt(j) == attemptCount[j] + 1

(* The writes of the start transaction: the job by primary key alone, then
   the execution row, which checks the foreign key to the Worker row. *)
startExecution(s) ==
  LET j == run[s].job
      n == nextAttempt(j) IN
  /\ run[s].pc = "verified" /\ ~RowLocked(Row(s))
  /\ n <= AttemptBound
  /\ status' = [status EXCEPT ![j] = "RUNNING"]
  /\ attemptCount' = [attemptCount EXCEPT ![j] = n]
  /\ executions' = executions \cup
       {[job |-> j, attempt |-> n, worker |-> Row(s), status |-> "RUNNING"]}
  /\ run' = [run EXCEPT ![s] = [pc |-> "running", job |-> j, attempt |-> n]]
  /\ UNCHANGED << claimedBy, due, deadLetter, batch, isPaused, workerVars, up, rec, req >>

(* The success transaction after the handler returned: the execution and the
   job are updated by primary key, the batch if it has pending jobs. *)
recordSuccess(s) ==
  LET j == run[s].job IN
  /\ run[s].pc = "running"
  /\ executions' = setExecutionStatus({<<j, run[s].attempt>>}, "COMPLETED")
  /\ status' = [status EXCEPT ![j] = "COMPLETED"]
  /\ clearClaim({j})
  /\ settleInBatch(j, "completed")
  /\ run' = [run EXCEPT ![s].pc = "completed"]
  /\ UNCHANGED << attemptCount, due, deadLetter, isPaused, workerVars, up, rec, req >>

(* job.completed was published and logged. *)
finish(s) ==
  /\ run[s].pc = "completed"
  /\ run' = [run EXCEPT ![s] = IdleRun]
  /\ UNCHANGED << jobVars, tableVars, workerVars, up, rec, req >>

(* The catch block's transaction.  It is reached when the handler fails, and
   also when publishing or logging the completion throws: that await is in
   the same try. *)
recordFailure(s) ==
  LET j == run[s].job IN
  /\ \/ run[s].pc = "running"
     \/ run[s].pc = "completed" /\ "error" \in Faults
  /\ executions' = setExecutionStatus({<<j, run[s].attempt>>}, "FAILED")
  /\ status' = [status EXCEPT ![j] = "FAILED"]
  /\ clearClaim({j})
  /\ run' = [run EXCEPT ![s] = IdleRun]
  /\ UNCHANGED << attemptCount, due, deadLetter, batch, isPaused, workerVars, up, rec, req >>

(* An await of the invocation rejects where no handler writes anything: the
   publication of job.claimed or job.running, the first log, a read, the start
   transaction (also as a deadlock victim) or the catch block's own
   transaction.  pollLoop logs the error and forgets the job. *)
abandon(s) ==
  /\ "error" \in Faults
  /\ run[s].pc \in {"claimed", "verified", "running"}
  /\ run' = [run EXCEPT ![s] = IdleRun]
  /\ UNCHANGED << jobVars, tableVars, workerVars, up, rec, req >>

-----------------------------------------------------------------------------
(* WorkerRecovery. *)

(* The heartbeat timer of a live runtime.  Only an ONLINE row is updated, so
   a worker that recovery put OFFLINE never comes back by its heartbeats. *)
recordWorkerHeartbeat(p) ==
  LET w == RowOf[p] IN
  /\ up[p] /\ wstatus[w] = "ONLINE" /\ ~RowLocked(w) /\ stale[w]
  /\ stale' = [stale EXCEPT ![w] = FALSE]
  /\ UNCHANGED << jobVars, tableVars, wstatus, procVars, rec, req >>

(* The condition recoverStaleWorkers selects by and recoverWorker rechecks. *)
isStale_unchecked(w)   == wstatus[w] = "ONLINE"                \* mutant
isStale_offlineOnly(w) == wstatus[w] = "OFFLINE" /\ stale[w]   \* mutant
isStale(w) == wstatus[w] = "ONLINE" /\ stale[w]

(* recoverWorker, first half: a tick running in process p locks a stale row
   and reads the jobs it owns, without locking them. *)
lockStaleWorker(p, w) ==
  /\ up[p] /\ isStale(w) /\ ~RowLocked(w)
  /\ LET owned == { j \in Jobs : claimedBy[j] = w } IN
     rec' = [rec EXCEPT ![w] =
               [phase   |-> "read", by |-> p,
                claimed |-> { j \in owned : status[j] = "CLAIMED" },
                running |-> { j \in owned : status[j] = "RUNNING" },
                rows    |-> {}]]
  /\ UNCHANGED << jobVars, tableVars, workerVars, procVars, req >>

(* For each RUNNING job it read, the latest RUNNING execution of the worker;
   a job without one is skipped. *)
activeExecutions(w, J) ==
  LET mine == { e \in executions : e.job \in J /\ e.worker = w /\ e.status = "RUNNING" }
  IN { <<e.job, e.attempt>> : e \in
         { x \in mine : \A y \in mine : y.job = x.job => y.attempt <= x.attempt } }

findExecutions(w) ==
  /\ rec[w].phase = "read"
  /\ rec' = [rec EXCEPT ![w] =
               [phase   |-> "found", by |-> @.by, claimed |-> @.claimed,
                running |-> @.running, rows |-> activeExecutions(w, @.running)]]
  /\ UNCHANGED << jobVars, tableVars, workerVars, procVars, req >>

(* The writes, by primary key, and the commit. *)
commitRecovery(w) ==
  LET failed == { k[1] : k \in rec[w].rows } IN
  /\ rec[w].phase = "found"
  /\ status' = [j \in Jobs |-> IF j \in rec[w].claimed THEN "QUEUED"
                               ELSE IF j \in failed THEN "FAILED" ELSE status[j]]
  /\ clearClaim(rec[w].claimed \cup failed)
  /\ executions' = setExecutionStatus(rec[w].rows, "FAILED")
  /\ wstatus' = [wstatus EXCEPT ![w] = "OFFLINE"]
  /\ rec' = [rec EXCEPT ![w] = Closed]
  /\ UNCHANGED << attemptCount, due, deadLetter, batch, isPaused, stale, procVars, req >>

(* The transaction throws (a deadlock with a start transaction that already
   locked the job, a timeout): everything is rolled back. *)
abortRecovery(w) ==
  /\ "error" \in Faults /\ RowLocked(w)
  /\ rec' = [rec EXCEPT ![w] = Closed]
  /\ UNCHANGED << jobVars, tableVars, workerVars, procVars, req >>

-----------------------------------------------------------------------------
(* The scheduler tick: promotions, retry and dead-letter processors. *)

(* One UPDATE for all due SCHEDULED jobs of a queue that is not paused. *)
promoteDueScheduledJobs ==
  LET D == { j \in Jobs : status[j] = "SCHEDULED" /\ due[j] } IN
  /\ ~isPaused /\ D # {}
  /\ status' = [j \in Jobs |-> IF j \in D THEN "QUEUED" ELSE status[j]]
  /\ UNCHANGED << claimedBy, attemptCount, due, tableVars, workerVars, procVars, rec, req >>

promoteDueRetries ==
  LET D == { j \in Jobs : status[j] = "RETRY" /\ due[j] } IN
  /\ ~isPaused /\ D # {}
  /\ status' = [j \in Jobs |-> IF j \in D THEN "QUEUED" ELSE status[j]]
  /\ UNCHANGED << claimedBy, attemptCount, due, tableVars, workerVars, procVars, rec, req >>

(* scheduleFailedJob: the UPDATE repeats every condition of the read before
   it, so the two are one step. *)
scheduleFailedJob(j) ==
  /\ status[j] = "FAILED" /\ ~Exhausted(j)
  /\ status' = [status EXCEPT ![j] = "RETRY"]
  /\ due' = [due EXCEPT ![j] = FALSE]
  /\ UNCHANGED << claimedBy, attemptCount, tableVars, workerVars, procVars, rec, req >>

createEntry_lost(j) == UNCHANGED deadLetter           \* mutant
createEntry(j) == deadLetter' = [deadLetter EXCEPT ![j] = "active"]

(* processDeadLetter, under the lock of the Job row: a job that already has
   an entry is left as it is. *)
processDeadLetter(j) ==
  /\ status[j] = "FAILED" /\ Exhausted(j) /\ deadLetter[j] = "none"
  /\ status' = [status EXCEPT ![j] = "DEAD_LETTER"]
  /\ createEntry(j)
  /\ settleInBatch(j, "failed")
  /\ UNCHANGED << claimedBy, attemptCount, due, executions, isPaused, workerVars, procVars, rec, req >>

(* The database clock passes scheduledAt. *)
becomeDue(j) ==
  /\ ~due[j] /\ status[j] \in {"SCHEDULED", "RETRY"}
  /\ due' = [due EXCEPT ![j] = TRUE]
  /\ UNCHANGED << status, claimedBy, attemptCount, tableVars, workerVars, procVars, rec, req >>

-----------------------------------------------------------------------------
(* The API routes that change a job or the queue: each reads, decides, and
   writes later by primary key. *)

readForCancel(c, j) ==
  /\ "cancel" \in ApiOps /\ req[c] = Idle
  /\ status[j] \in Cancellable
  /\ req' = [req EXCEPT ![c] = [op |-> "cancel", job |-> j]]
  /\ UNCHANGED << jobVars, tableVars, workerVars, procVars, rec >>

writeCancelled(c) ==
  /\ req[c].op = "cancel"
  /\ status' = [status EXCEPT ![req[c].job] = "CANCELLED"]
  /\ clearClaim({req[c].job})
  /\ req' = [req EXCEPT ![c] = Idle]
  /\ UNCHANGED << attemptCount, due, tableVars, workerVars, procVars, rec >>

readForRequeue(c, j) ==
  /\ "requeue" \in ApiOps /\ req[c] = Idle
  /\ deadLetter[j] # "none" /\ status[j] = "DEAD_LETTER"
  /\ req' = [req EXCEPT ![c] = [op |-> "requeue", job |-> j]]
  /\ UNCHANGED << jobVars, tableVars, workerVars, procVars, rec >>

(* attemptCount is not reset and the entry is kept. *)
writeRequeued(c) ==
  LET j == req[c].job IN
  /\ req[c].op = "requeue"
  /\ status' = [status EXCEPT ![j] = "QUEUED"]
  /\ clearClaim({j})
  /\ due' = [due EXCEPT ![j] = TRUE]
  /\ deadLetter' = [deadLetter EXCEPT ![j] = "requeued"]
  /\ req' = [req EXCEPT ![c] = Idle]
  /\ UNCHANGED << attemptCount, executions, batch, isPaused, workerVars, procVars, rec >>

setPaused ==
  /\ "pause" \in ApiOps
  /\ isPaused' = ~isPaused
  /\ UNCHANGED << jobVars, executions, deadLetter, batch, workerVars, procVars, rec, req >>

(* POST /jobs/:id/retry does to a job what the tick does to FAILED ones. *)
retryJob(j) == "retry" \in ApiOps /\ scheduleFailedJob(j)

(* POST /workers/:id/heartbeat: a heartbeat of a worker that may be dead. *)
postHeartbeat(w) ==
  /\ "heartbeat" \in ApiOps
  /\ wstatus[w] = "ONLINE" /\ ~RowLocked(w) /\ stale[w]
  /\ stale' = [stale EXCEPT ![w] = FALSE]
  /\ UNCHANGED << jobVars, tableVars, wstatus, procVars, rec, req >>

-----------------------------------------------------------------------------
(* The environment. *)

Deserted(w) == \A p \in Procs : RowOf[p] = w => ~up[p]

(* heartbeatTimeoutMs passes without a heartbeat: no live process serves the
   row, or the timers of those that do are delayed that long. *)
heartbeatTimeout(w) ==
  /\ ~stale[w] /\ wstatus[w] = "ONLINE"
  /\ "late" \in Faults \/ Deserted(w)
  /\ stale' = [stale EXCEPT ![w] = TRUE]
  /\ UNCHANGED << jobVars, tableVars, wstatus, procVars, rec, req >>

(* A process dies, not the last one: what it kept in memory is gone and its
   open transactions are rolled back. *)
crash(p) ==
  /\ "crash" \in Faults /\ up[p] /\ \E q \in Procs \ {p} : up[q]
  /\ up' = [up EXCEPT ![p] = FALSE]
  /\ run' = [s \in Slots |-> IF ProcOf(s) = p THEN IdleRun ELSE run[s]]
  /\ rec' = [w \in Workers |-> IF rec[w].by = p THEN Closed ELSE rec[w]]
  /\ UNCHANGED << jobVars, tableVars, workerVars, req >>

(* It starts again; ensureQueueWorker upserts the same Worker row. *)
restart(p) ==
  LET w == RowOf[p] IN
  /\ "restart" \in Faults /\ ~up[p] /\ ~RowLocked(w)
  /\ up' = [up EXCEPT ![p] = TRUE]
  /\ wstatus' = [wstatus EXCEPT ![w] = "ONLINE"]
  /\ stale' = [stale EXCEPT ![w] = FALSE]
  /\ UNCHANGED << jobVars, tableVars, run, rec, req >>

-----------------------------------------------------------------------------
Runtime(s) == \/ claimNextJob(s)  \/ verifyOwnership(s) \/ startExecution(s)
              \/ recordSuccess(s) \/ finish(s) \/ recordFailure(s) \/ abandon(s)

Recovery(w) == \/ \E p \in Procs : lockStaleWorker(p, w)
               \/ findExecutions(w) \/ commitRecovery(w) \/ abortRecovery(w)

Tick == \/ promoteDueScheduledJobs \/ promoteDueRetries
        \/ \E j \in Jobs : scheduleFailedJob(j) \/ processDeadLetter(j)

Api == \/ \E c \in Clients, j \in Jobs : readForCancel(c, j) \/ readForRequeue(c, j)
       \/ \E c \in Clients : writeCancelled(c) \/ writeRequeued(c)
       \/ \E j \in Jobs : retryJob(j)
       \/ \E w \in Workers : postHeartbeat(w)
       \/ setPaused

Environment == \/ \E w \in Workers : heartbeatTimeout(w)
               \/ \E j \in Jobs : becomeDue(j)
               \/ \E p \in Procs : crash(p) \/ restart(p)

Next == \/ \E s \in Slots : Runtime(s)
        \/ \E w \in Workers : Recovery(w)
        \/ \E p \in Procs : recordWorkerHeartbeat(p)
        \/ Tick
        \/ Api
        \/ Environment

Spec == Init /\ [][Next]_vars

-----------------------------------------------------------------------------
(* Fairness.  pollLoop and executeJob never stop on their own; the setInterval
   of server.ts visits the stale workers, the promotions and every FAILED job
   of the queue; a handler returns; time passes; a request that was read is
   written.  Late heartbeats, crashes, restarts and requests are not fair. *)
Fairness ==
  /\ \A s \in Slots : WF_vars(Runtime(s))
  /\ \A w \in Workers : /\ WF_vars(Recovery(w))
                         /\ WF_vars(Deserted(w) /\ heartbeatTimeout(w))
  /\ \A p \in Procs : WF_vars(recordWorkerHeartbeat(p))
  /\ WF_vars(promoteDueScheduledJobs) /\ WF_vars(promoteDueRetries)
  /\ \A j \in Jobs : /\ WF_vars(scheduleFailedJob(j) \/ processDeadLetter(j))
                      /\ WF_vars(becomeDue(j))
  /\ \A c \in Clients : WF_vars(writeCancelled(c) \/ writeRequeued(c))

FairSpec == Spec /\ Fairness

-----------------------------------------------------------------------------
(* Properties that hold whatever fails and whatever the API does. *)

(* Every variable has its type. *)
TypeOK ==
  /\ status \in [Jobs -> JobStatus]
  /\ claimedBy \in [Jobs -> Workers \cup {None}]
  /\ attemptCount \in [Jobs -> Nat]
  /\ due \in [Jobs -> BOOLEAN]
  /\ executions \subseteq Execution
  /\ deadLetter \in [Jobs -> {"none", "active", "requeued"}]
  /\ batch \in [completed : Nat, failed : Nat, pending : Nat]
  /\ isPaused \in BOOLEAN
  /\ wstatus \in [Workers -> {"ONLINE", "OFFLINE"}]
  /\ stale \in [Workers -> BOOLEAN]
  /\ up \in [Procs -> BOOLEAN]
  /\ run \in [Slots -> [pc : RunPCs, job : Jobs \cup {NoJob}, attempt : Nat]]
  /\ \A s \in Slots : run[s].pc # "idle" => run[s].job \in Jobs
  /\ rec \in [Workers -> [phase   : {"closed", "read", "found"},
                          by      : Procs \cup {None},
                          claimed : SUBSET Jobs,
                          running : SUBSET Jobs,
                          rows    : SUBSET (Jobs \X Nat)]]
  /\ req \in [Clients -> [op : {"idle", "cancel", "requeue"}, job : Jobs \cup {NoJob}]]
  /\ \A c \in Clients : req[c].op # "idle" => req[c].job \in Jobs

(* attemptCount counts the executions: the attempt numbers of a job are
   1 .. attemptCount without a gap and no two rows share one, so the insert of
   executeJob never meets the unique (jobId, attemptNumber) constraint, not
   even when several workers run the same job. *)
AttemptIdentity ==
  /\ \A j \in Jobs : { e.attempt : e \in { x \in executions : x.job = j } } = 1 .. attemptCount[j]
  /\ \A e, f \in executions : e.job = f.job /\ e.attempt = f.attempt => e = f

(* A runtime that runs a handler has the execution row it will complete, made
   by its own worker, and no two handlers share a row: the update by
   execution.id in executeJob always finds its own attempt. *)
RunOwnsItsExecution ==
  LET working == { s \in Slots : run[s].pc \in {"running", "completed"} } IN
  /\ \A s \in working : \E e \in executions :
       e.job = run[s].job /\ e.attempt = run[s].attempt /\ e.worker = Row(s)
  /\ \A s, t \in working :
       run[s].job = run[t].job /\ run[s].attempt = run[t].attempt => s = t

(* A job has an owner only while it is CLAIMED or RUNNING, and a CLAIMED job
   has one: what recoverWorker selects by claimedBy is exactly what can need
   it, and no failed, waiting or settled job still names a worker. *)
OwnedIsActive ==
  \A j \in Jobs : /\ claimedBy[j] # None => status[j] \in {"CLAIMED", "RUNNING"}
                  /\ status[j] = "CLAIMED" => claimedBy[j] # None

(* A DEAD_LETTER job has its entry, and that entry is not marked requeued:
   the operator who sees the job in the DLQ can act on it. *)
DeadLetterHasEntry ==
  \A j \in Jobs : status[j] = "DEAD_LETTER" => deadLetter[j] = "active"

(* The job's status is never ahead of its history: COMPLETED has a COMPLETED
   execution, and FAILED and what follows from it a FAILED one, although the
   rows are overwritten by late workers, by recovery and by the catch block. *)
StatusBackedByExecution ==
  \A j \in Jobs :
    LET outcomes == { e.status : e \in { x \in executions : x.job = j } } IN
    /\ status[j] = "COMPLETED" => "COMPLETED" \in outcomes
    /\ status[j] \in {"FAILED", "RETRY", "DEAD_LETTER"} => "FAILED" \in outcomes

-----------------------------------------------------------------------------
(* Properties of a deployment whose heartbeats are never late. *)

(* At most one handler works on a job at a time: a crash, a restart, an error
   in any await, cancels, a requeue and pauses never make two runtimes run the
   same job, provided a worker is declared stale only when it is dead and
   requeues of one job do not overlap. *)
NoDoubleExecution ==
  \A s, t \in Slots :
    run[s].pc = "running" /\ run[t].pc = "running" /\ run[s].job = run[t].job => s = t

(* The retry budget: a job that no operator requeued is never started more
   often than the smaller of its own and its policy's maxAttempts. *)
RetryBudget ==
  \A j \in Jobs : deadLetter[j] # "requeued" =>
    attemptCount[j] <= MaxAttempts /\ attemptCount[j] <= PolicyMaxAttempts

(* Without cancels the batch row tells the truth as long as none of its jobs
   was requeued from the dead-letter queue: its counters are the numbers of
   its jobs that completed, died and are still open. *)
BatchReflectsJobs ==
  LET count(S) == Cardinality({ j \in BatchJobs : status[j] \in S }) IN
  (\A j \in BatchJobs : deadLetter[j] # "requeued") =>
    /\ batch.completed = count({"COMPLETED"})
    /\ batch.failed = count({"DEAD_LETTER"})
    /\ batch.pending = count(JobStatus \ {"COMPLETED", "DEAD_LETTER"})

(* The rows implement the documented state machine: every job moves along the
   table of jobStateMachine.ts, although no write checks the status the row
   has at that moment. *)
Documented == INSTANCE JobStateMachine
ImplementsStateMachine == Documented!Spec

(* The moves the rows make beyond the table and the requeue: a completed job
   fails because its publication or log throws (workerRuntime.ts:279, 307);
   a cancel is written over whatever the job has become since it was read
   (queues.ts:709); the owner or a recovery overwrites a cancelled job. *)
deviates(j) ==
  \/ "error" \in Faults /\ status[j] = "COMPLETED" /\ status'[j] = "FAILED"
  \/ /\ "cancel" \in ApiOps
     /\ \/ status'[j] = "CANCELLED"
        \/ /\ status[j] = "CANCELLED"
           /\ status'[j] \in {"RUNNING", "COMPLETED", "FAILED", "QUEUED"}

(* Nothing else happens to a job: with cancels, failing awaits, crashes and
   recoveries a stale write never takes a job anywhere else. *)
OnlyKnownMoves ==
  [][\A j \in Jobs : \/ status'[j] = status[j]
                     \/ canTransition(status[j], status'[j])
                     \/ Documented!requeued(j)
                     \/ deviates(j)]_vars

(* Nobody is orphaned, where every process has a row of its own and does not
   come back: an active job has a live invocation, or its owner is dead and
   recovery will still find it, for the row is ONLINE and a RUNNING job has the
   execution that recoverWorker looks for (it skips a job without one and puts
   the row OFFLINE all the same, which nobody would undo). *)
NobodyIsOrphaned ==
  \A j \in Jobs : status[j] \in {"CLAIMED", "RUNNING"} =>
    \/ \E s \in Slots : up[ProcOf(s)] /\ run[s].pc # "idle" /\ run[s].job = j
    \/ LET w == claimedBy[j] IN
       /\ w # None /\ Deserted(w) /\ wstatus[w] = "ONLINE"
       /\ status[j] = "RUNNING" =>
            \E e \in executions : e.job = j /\ e.worker = w /\ e.status = "RUNNING"

(* Every job ends: completed or dead-lettered for good, through crashes, as
   long as a process is left and it serves a row of its own. *)
EveryJobSettles ==
  \A j \in Jobs : <>[](status[j] \in {"COMPLETED", "DEAD_LETTER"})

-----------------------------------------------------------------------------
(* What the documentation says of the program and the code does not do. *)

(* docs/03: COMPLETED and CANCELLED are terminal. *)
TerminalIsFinal ==
  [][\A j \in Jobs : status[j] \in {"COMPLETED", "CANCELLED"} => status'[j] = status[j]]_vars

(* docs/07: exhausted FAILED jobs are converted into DEAD_LETTER. *)
FailedLeavesFailed == \A j \in Jobs : status[j] = "FAILED" ~> status[j] # "FAILED"

(* docs/06: a job whose worker crashed is taken back or failed. *)
OrphansAreRecovered ==
  \A j \in Jobs : status[j] \in {"CLAIMED", "RUNNING"} ~> status[j] \notin {"CLAIMED", "RUNNING"}
=============================================================================
