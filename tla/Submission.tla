----------------------------- MODULE Submission -----------------------------
(* Submitting jobs: POST /queues/:id/jobs with an idempotency key
   (routes/queues.ts), and POST /queues/:id/jobs/batch with its one transaction
   (core/jobBatchCreator.ts), among the requests of the Catalog.

   PostgreSQL lets an insert wait for the transaction that has inserted the same
   (queueId, idempotencyKey) and not ended. *)
EXTENDS Catalog, FiniteSets

CONSTANT MaxFailures  \* bound on the awaits that throw

VARIABLES
  jobs,      \* the committed jobs
  batches,   \* the committed batches
  inserted,  \* per request: how many jobs its open transaction has inserted
  reply,     \* per request: the job in the answer
  failures

vars == << op, at, status, rows, jobs, batches, inserted, reply, failures >>

\* The i-th job that request r asks for; a key is scoped by its queue.
Row(r, i) == [by |-> r, item |-> i, queue |-> op[r].on, key |-> op[r].keys[i]]
Key(row) == << row.queue, row.key >>
Keyed(row) == row.key # None
Size(r) == Len(op[r].keys)
inTransaction(r) == {Row(r, i) : i \in 1 .. inserted[r]}

JobRow == [by : Requests, item : Nat, queue : Ids, key : Keys \cup {None}]

ASSUME SubmissionAssumption == MaxFailures \in Nat /\ None \notin JobRow

Stage == {"idle", "done", "requireProjectAdmin", "countQueues", "countPolicies",
          "seedPolicies", "countUses", "findProject", "findPolicy", "findName",
          "updateProject", "updateQueue", "createProject", "createPolicy",
          "createQueue", "deleteProject", "patchPolicy", "deletePolicy", "createJob",
          "createBatch", "publish", "findExisting", "findQueue", "insertJobType",
          "findJobType", "renameJobType", "deleteJobType"}

TypeOK ==
  /\ op \in [Requests -> Operations \cup {None}]
  /\ at \in [Requests -> Stage]
  /\ status \in [Requests -> {0, 200, 201, 204, 400, 404, 409, 500}]
  /\ project \in [Ids -> Names \cup {"unborn", "gone"}]
  /\ policy \in [Ids -> {"unborn", "live", "gone"}]
  /\ queue \in [Ids -> QueueRow \cup {None}]
  /\ jobType \in [Ids -> JobTypeRow \cup {None}] /\ custom \subseteq Names
  /\ \A row \in jobs : row.by \in Requests /\ row.queue \in Queues
                       /\ row.item \in 1 .. Size(row.by) /\ row = Row(row.by, row.item)
  /\ batches \subseteq [by : Requests, totalJobs : Nat, pendingJobs : Nat]
  /\ \A r \in Requests : inserted[r] > 0 => at[r] = "createBatch" /\ inserted[r] <= Size(r)
  /\ \A r \in Requests : reply[r] # None => reply[r] \in jobs
  /\ failures \in 0 .. MaxFailures

Init ==
  /\ CatalogInit
  /\ jobs = {} /\ batches = {}
  /\ inserted = [r \in Requests |-> 0]
  /\ reply = [r \in Requests |-> None]
  /\ failures = 0

-----------------------------------------------------------------------------
(* The unique index.  blocked: the insert of a row waits for the end of another
   transaction; conflicts: it violates the constraint (P2002). *)
blocked(r, row) ==
  Keyed(row) /\ \E s \in Requests \ {r} : \E other \in inTransaction(s) :
    Keyed(other) /\ Key(other) = Key(row)
conflicts_unchecked(row, present) == FALSE                         \* mutant
conflicts(row, present) ==
  Keyed(row) /\ \E other \in present : Keyed(other) /\ Key(other) = Key(row)

(* The queue is there, for nothing deletes one; then the body is parsed. *)
wellFormed(o) == o.kind = "createBatch" => Len(o.keys) > 0

findQueue(r) ==
  at[r] = "findQueue" /\ reads(r, "findQueue", wellFormed(op[r]), 400, op[r].kind)

(* POST /queues/:id/jobs. *)
createJob(r) ==
  /\ at[r] = "createJob"
  /\ ~blocked(r, Row(r, 1))
  /\ IF conflicts(Row(r, 1), jobs)
       THEN proceed(r, "findExisting") /\ UNCHANGED jobs
       ELSE proceed(r, "publish") /\ jobs' = jobs \cup {Row(r, 1)}
  /\ UNCHANGED << op, rows, batches, inserted, reply, failures >>

(* The loser of the constraint reads the winner's job. *)
existing(r, row) == Keyed(row) /\ Key(row) = Key(Row(r, 1))

findExisting(r) ==
  /\ at[r] = "findExisting"
  /\ \/ \E row \in jobs :
          existing(r, row) /\ reply' = [reply EXCEPT ![r] = row] /\ answer(r, 200)
     \/ (\A row \in jobs : ~existing(r, row)) /\ answer(r, 500) /\ UNCHANGED reply
  /\ UNCHANGED << op, rows, jobs, batches, inserted, failures >>

-----------------------------------------------------------------------------
(* What a transaction of createJobBatch leaves when it is rolled back. *)
leftovers_untransacted(r) == inTransaction(r)                      \* mutant
leftovers(r) == {}
rolledBack(r) == [inserted EXCEPT ![r] = 0]

abort(r) ==
  /\ inserted' = rolledBack(r)
  /\ jobs' = jobs \cup leftovers(r)
  /\ answer(r, 500)

(* POST /queues/:id/jobs/batch: the jobs are inserted one by one, *)
insertItem(r) ==
  LET row == Row(r, inserted[r] + 1) IN
  /\ at[r] = "createBatch" /\ inserted[r] < Size(r)
  /\ ~blocked(r, row)
  /\ IF conflicts(row, jobs \cup inTransaction(r))
       THEN abort(r)
       ELSE inserted' = [inserted EXCEPT ![r] = inserted[r] + 1]
            /\ UNCHANGED << at, status, jobs >>
  /\ UNCHANGED << op, rows, batches, reply, failures >>

(* and are seen by others when the transaction commits. *)
commitBatch(r) ==
  /\ at[r] = "createBatch" /\ inserted[r] = Size(r)
  /\ jobs' = jobs \cup inTransaction(r)
  /\ batches' = batches \cup {[by |-> r, totalJobs |-> Size(r), pendingJobs |-> Size(r)]}
  /\ inserted' = [inserted EXCEPT ![r] = 0]
  /\ proceed(r, "publish")
  /\ UNCHANGED << op, rows, reply, failures >>

(* A transaction that waits is rolled back by Prisma's timeout or, when two wait
   for each other, by the database. *)
timeoutBatch_never(r) == FALSE                                     \* mutant
timeoutBatch(r) ==
  /\ at[r] = "createBatch" /\ inserted[r] < Size(r)
  /\ blocked(r, Row(r, inserted[r] + 1))
  /\ abort(r)
  /\ UNCHANGED << op, rows, batches, reply, failures >>

(* The events are published and the job, or the batch, is answered. *)
publish(r) ==
  /\ at[r] = "publish"
  /\ reply' = [reply EXCEPT ![r] = IF op[r].kind = "createJob" THEN Row(r, 1) ELSE None]
  /\ answer(r, 201)
  /\ UNCHANGED << op, rows, jobs, batches, inserted, failures >>

(* An await of a handler throws: an open transaction is rolled back, what was
   committed stays. *)
fail(r) ==
  /\ at[r] \notin {"idle", "done"}
  /\ failures < MaxFailures
  /\ failures' = failures + 1
  /\ abort(r)
  /\ UNCHANGED << op, rows, batches, reply >>

-----------------------------------------------------------------------------
step(r) ==
  \/ (CatalogStep(r) \/ findQueue(r))
       /\ UNCHANGED << jobs, batches, inserted, reply, failures >>
  \/ createJob(r) \/ findExisting(r)
  \/ insertItem(r) \/ commitBatch(r) \/ timeoutBatch(r) \/ publish(r)

Next ==
  \E r \in Requests :
    \/ \E o \in Operations :
         receive(r, o) /\ UNCHANGED << jobs, batches, inserted, reply, failures >>
    \/ step(r) \/ fail(r)

Spec == Init /\ [][Next]_vars

(* The event loop runs every handler, and the database answers. *)
FairSpec == Spec /\ WF_vars(\E r \in Requests : step(r))

-----------------------------------------------------------------------------
(* A batch is created whole or not at all, whatever of its inserts conflicts,
   waits, deadlocks or fails. *)
BatchIsWhole ==
  \A r \in {s \in Requests : op[s] # None /\ op[s].kind = "createBatch"} :
    LET created == {row \in jobs : row.by = r} IN
    IF \E b \in batches : b.by = r
      THEN created = {Row(r, i) : i \in 1 .. Size(r)}
           /\ \A b \in batches : b.by = r => b.totalJobs = Cardinality(created)
      ELSE created = {}

(* Every request is answered, also when transactions wait for each other. *)
EveryRequestAnswered == []<>(\A r \in Requests : at[r] \in {"idle", "done"})

(* The rows and the answers implement the promise of an idempotency key: of all
   submissions to a queue under one key, racing, in batches, repeated after an
   error, whoever is answered with a job is answered with the same one. *)
taken == {<< Key(row), row >> : row \in {job \in jobs : Keyed(job)}}
Answered == {r \in Requests : reply[r] # None /\ Keyed(Row(r, 1))}
told == {<< Key(Row(r, 1)), reply[r] >> : r \in Answered}

Store == INSTANCE IdempotentStore WITH Keys <- Ids \X Keys, Jobs <- JobRow

ImplementsStore == Store!Spec
=============================================================================
