------------------------ MODULE JobLifecycleProofs ------------------------
(***************************************************************************)
(* Proofs about JobLifecycle for any number of jobs, processes, workers    *)
(* and clients, any attempt limits, and every fault and API operation.     *)
(***************************************************************************)
EXTENDS JobLifecycle, FiniteSetTheorems, TLAPS

-----------------------------------------------------------------------------
(* Facts about the operators the actions are built from. *)

(* An update of execution statuses keeps the rows' keys and workers, sets the
   status of the rows it names and no other. *)
LEMMA SetExecutionStatus ==
  ASSUME executions \subseteq Execution, NEW K, NEW st \in ExecutionStatus
  PROVE  /\ setExecutionStatus(K, st) \subseteq Execution
         /\ \A f \in setExecutionStatus(K, st) : \E e \in executions :
              /\ f.job = e.job /\ f.attempt = e.attempt /\ f.worker = e.worker
              /\ f.status = IF <<e.job, e.attempt>> \in K THEN st ELSE e.status
         /\ \A e \in executions : \E f \in setExecutionStatus(K, st) :
              /\ f.job = e.job /\ f.attempt = e.attempt /\ f.worker = e.worker
              /\ f.status = IF <<e.job, e.attempt>> \in K THEN st ELSE e.status
<1> DEFINE upd(e) == IF <<e.job, e.attempt>> \in K THEN [e EXCEPT !.status = st] ELSE e
<1>1. ASSUME NEW e \in executions
      PROVE  /\ upd(e) \in Execution
             /\ upd(e).job = e.job /\ upd(e).attempt = e.attempt /\ upd(e).worker = e.worker
             /\ upd(e).status = IF <<e.job, e.attempt>> \in K THEN st ELSE e.status
  BY <1>1 DEF Execution
<1>2. setExecutionStatus(K, st) = { upd(e) : e \in executions }
  BY DEF setExecutionStatus
<1> HIDE DEF upd
<1>3. QED
  BY <1>1, <1>2

(* clearClaim keeps the type of claimedBy. *)
LEMMA ClearClaim ==
  ASSUME claimedBy \in [Jobs -> Workers \cup {None}], NEW J, clearClaim(J)
  PROVE  /\ claimedBy' \in [Jobs -> Workers \cup {None}]
         /\ \A j \in Jobs : claimedBy'[j] = IF j \in J THEN None ELSE claimedBy[j]
BY DEF clearClaim

(* settleInBatch keeps the counters natural numbers. *)
LEMMA SettleInBatch ==
  ASSUME batch \in [completed : Nat, failed : Nat, pending : Nat],
         NEW j, NEW outcome \in {"completed", "failed"}, settleInBatch(j, outcome)
  PROVE  batch' \in [completed : Nat, failed : Nat, pending : Nat]
<1>1. CASE j \in BatchJobs /\ batch.pending > 0
  <2> DEFINE b == [batch EXCEPT ![outcome] = @ + 1]
  <2>1. b \in [completed : Nat, failed : Nat, pending : Nat] /\ b.pending > 0
    BY <1>1
  <2>2. [b EXCEPT !.pending = @ - 1] \in [completed : Nat, failed : Nat, pending : Nat]
    <3> HIDE DEF b
    <3> QED BY <2>1
  <2>3. [b EXCEPT !.pending = @ - 1] = [batch EXCEPT ![outcome] = @ + 1, !.pending = @ - 1]
    OBVIOUS
  <2>4. QED
    BY <1>1, <2>2, <2>3 DEF settleInBatch
<1>2. CASE ~(j \in BatchJobs /\ batch.pending > 0)
  BY <1>2 DEF settleInBatch
<1>3. QED
  BY <1>1, <1>2

-----------------------------------------------------------------------------
(* Type correctness. *)

LEMMA InitTypeOK == Init => TypeOK
<1> SUFFICES ASSUME Init PROVE TypeOK
  OBVIOUS
<1>1. Cardinality(BatchJobs) \in Nat
  BY FS_CardinalityType, BatchAssumption
<1>2. /\ status \in [Jobs -> JobStatus]
      /\ claimedBy \in [Jobs -> Workers \cup {None}]
      /\ attemptCount \in [Jobs -> Nat]
      /\ due \in [Jobs -> BOOLEAN]
      /\ deadLetter \in [Jobs -> {"none", "active", "requeued"}]
      /\ executions \subseteq Execution
  BY DEF Init, JobStatus
<1>3. /\ batch \in [completed : Nat, failed : Nat, pending : Nat]
      /\ isPaused \in BOOLEAN
      /\ wstatus \in [Workers -> {"ONLINE", "OFFLINE"}]
      /\ stale \in [Workers -> BOOLEAN]
      /\ up \in [Procs -> BOOLEAN]
  BY <1>1 DEF Init
<1>4. /\ run \in [Slots -> [pc : RunPCs, job : Jobs \cup {NoJob}, attempt : Nat]]
      /\ \A s \in Slots : run[s].pc # "idle" => run[s].job \in Jobs
  BY DEF Init, IdleRun, RunPCs
<1>5. rec \in [Workers -> [phase : {"closed", "read", "found"}, by : Procs \cup {None},
                 claimed : SUBSET Jobs, running : SUBSET Jobs, rows : SUBSET (Jobs \X Nat)]]
  BY DEF Init, Closed
<1>6. /\ req \in [Clients -> [op : {"idle", "cancel", "requeue"}, job : Jobs \cup {NoJob}]]
      /\ \A c \in Clients : req[c].op # "idle" => req[c].job \in Jobs
  BY DEF Init, Idle
<1>7. QED
  BY <1>2, <1>3, <1>4, <1>5, <1>6 DEF TypeOK

(* Every step keeps the types: one step per action of Next. *)
LEMMA NextTypeOK == TypeOK /\ [Next]_vars => TypeOK'
<1> SUFFICES ASSUME TypeOK, [Next]_vars PROVE TypeOK'
  OBVIOUS
<1> USE DEF jobVars, tableVars, workerVars, procVars
<1>1. ASSUME NEW s \in Slots, claimNextJob(s)
      PROVE  TypeOK'
  BY <1>1, RowOfAssumption DEF TypeOK, claimNextJob, Row, ProcOf, Slots, RunPCs, JobStatus
<1>2. ASSUME NEW s \in Slots, verifyOwnership(s)
      PROVE  TypeOK'
  BY <1>2 DEF TypeOK, verifyOwnership, IdleRun, RunPCs
<1>3. ASSUME NEW s \in Slots, startExecution(s)
      PROVE  TypeOK'
  BY <1>3, RowOfAssumption DEF TypeOK, startExecution, nextAttempt, Execution, Row, Slots, RunPCs, JobStatus, ExecutionStatus
<1>4. ASSUME NEW s \in Slots, recordSuccess(s)
      PROVE  TypeOK'
  <2>1. executions' \subseteq Execution
    BY <1>4, SetExecutionStatus DEF TypeOK, recordSuccess, ExecutionStatus
  <2>2. status' \in [Jobs -> JobStatus]
    BY <1>4 DEF TypeOK, recordSuccess, JobStatus
  <2>3. claimedBy' \in [Jobs -> Workers \cup {None}]
    BY <1>4, ClearClaim DEF TypeOK, recordSuccess
  <2>4. batch' \in [completed : Nat, failed : Nat, pending : Nat]
    BY <1>4, SettleInBatch DEF TypeOK, recordSuccess
  <2>5. /\ run' \in [Slots -> [pc : RunPCs, job : Jobs \cup {NoJob}, attempt : Nat]]
        /\ \A t \in Slots : run'[t].pc # "idle" => run'[t].job \in Jobs
    BY <1>4 DEF TypeOK, recordSuccess, RunPCs
  <2> QED
    BY <1>4, <2>1, <2>2, <2>3, <2>4, <2>5 DEF TypeOK, recordSuccess
<1>5. ASSUME NEW s \in Slots, finish(s)
      PROVE  TypeOK'
  BY <1>5 DEF TypeOK, finish, IdleRun, RunPCs
<1>6. ASSUME NEW s \in Slots, recordFailure(s)
      PROVE  TypeOK'
  <2>1. executions' \subseteq Execution
    BY <1>6, SetExecutionStatus DEF TypeOK, recordFailure, ExecutionStatus
  <2>2. status' \in [Jobs -> JobStatus]
    BY <1>6 DEF TypeOK, recordFailure, JobStatus
  <2>3. claimedBy' \in [Jobs -> Workers \cup {None}]
    BY <1>6, ClearClaim DEF TypeOK, recordFailure
  <2>4. /\ run' \in [Slots -> [pc : RunPCs, job : Jobs \cup {NoJob}, attempt : Nat]]
        /\ \A t \in Slots : run'[t].pc # "idle" => run'[t].job \in Jobs
    BY <1>6 DEF TypeOK, recordFailure, IdleRun, RunPCs
  <2> QED
    BY <1>6, <2>1, <2>2, <2>3, <2>4 DEF TypeOK, recordFailure
<1>7. ASSUME NEW s \in Slots, abandon(s)
      PROVE  TypeOK'
  BY <1>7 DEF TypeOK, abandon, IdleRun, RunPCs
<1>8. ASSUME NEW p \in Procs, recordWorkerHeartbeat(p)
      PROVE  TypeOK'
  BY <1>8, RowOfAssumption DEF TypeOK, recordWorkerHeartbeat
<1>9. ASSUME NEW p \in Procs, NEW w \in Workers, lockStaleWorker(p, w)
      PROVE  TypeOK'
  BY <1>9 DEF TypeOK, lockStaleWorker
<1>10. ASSUME NEW w \in Workers, findExecutions(w)
      PROVE  TypeOK'
  BY <1>10 DEF TypeOK, findExecutions, activeExecutions, Execution
<1>11. ASSUME NEW w \in Workers, commitRecovery(w)
      PROVE  TypeOK'
  BY <1>11, SetExecutionStatus, ClearClaim DEF TypeOK, commitRecovery, Closed, JobStatus, ExecutionStatus
<1>12. ASSUME NEW w \in Workers, abortRecovery(w)
      PROVE  TypeOK'
  BY <1>12 DEF TypeOK, abortRecovery, Closed
<1>13. ASSUME promoteDueScheduledJobs
      PROVE  TypeOK'
  BY <1>13 DEF TypeOK, promoteDueScheduledJobs, JobStatus
<1>14. ASSUME promoteDueRetries
      PROVE  TypeOK'
  BY <1>14 DEF TypeOK, promoteDueRetries, JobStatus
<1>15. ASSUME NEW j \in Jobs, scheduleFailedJob(j)
      PROVE  TypeOK'
  BY <1>15 DEF TypeOK, scheduleFailedJob, JobStatus
<1>16. ASSUME NEW j \in Jobs, processDeadLetter(j)
      PROVE  TypeOK'
  BY <1>16, SettleInBatch DEF TypeOK, processDeadLetter, createEntry, JobStatus
<1>17. ASSUME NEW j \in Jobs, becomeDue(j)
      PROVE  TypeOK'
  BY <1>17 DEF TypeOK, becomeDue
<1>18. ASSUME NEW c \in Clients, NEW j \in Jobs, readForCancel(c, j)
      PROVE  TypeOK'
  BY <1>18 DEF TypeOK, readForCancel
<1>19. ASSUME NEW c \in Clients, writeCancelled(c)
      PROVE  TypeOK'
  BY <1>19, ClearClaim DEF TypeOK, writeCancelled, Idle, JobStatus
<1>20. ASSUME NEW c \in Clients, NEW j \in Jobs, readForRequeue(c, j)
      PROVE  TypeOK'
  BY <1>20 DEF TypeOK, readForRequeue
<1>21. ASSUME NEW c \in Clients, writeRequeued(c)
      PROVE  TypeOK'
  BY <1>21, ClearClaim DEF TypeOK, writeRequeued, Idle, JobStatus
<1>22. ASSUME setPaused
      PROVE  TypeOK'
  BY <1>22 DEF TypeOK, setPaused
<1>23. ASSUME NEW w \in Workers, heartbeatTimeout(w)
      PROVE  TypeOK'
  BY <1>23 DEF TypeOK, heartbeatTimeout
<1>24. ASSUME NEW p \in Procs, crash(p)
      PROVE  TypeOK'
  BY <1>24 DEF TypeOK, crash, IdleRun, RunPCs, Closed
<1>25. ASSUME NEW p \in Procs, restart(p)
      PROVE  TypeOK'
  BY <1>25, RowOfAssumption DEF TypeOK, restart
<1>26. CASE UNCHANGED vars
  BY <1>26 DEF TypeOK, vars
<1>27. ASSUME NEW w \in Workers, postHeartbeat(w)
       PROVE  TypeOK'
  BY <1>27 DEF TypeOK, postHeartbeat
<1>28. QED
  BY <1>1, <1>2, <1>3, <1>4, <1>5, <1>6, <1>7, <1>8, <1>9, <1>10, <1>11, <1>12, <1>13, <1>14, <1>15, <1>16, <1>17, <1>18, <1>19, <1>20, <1>21, <1>22, <1>23, <1>24, <1>25, <1>26, <1>27
  DEF Next, Runtime, Recovery, Tick, Api, Environment, retryJob

(* Every variable keeps its type in every behaviour. *)
THEOREM TypeCorrect == Spec => []TypeOK
BY InitTypeOK, NextTypeOK, PTL DEF Spec

-----------------------------------------------------------------------------
(* Ownership and dead-letter entries.  Each invariant is inductive given the types. *)

(* Ownership appears with the claim, and goes with every write of another
   status; a promotion starts from a status that has no owner. *)
LEMMA NextOwned == TypeOK /\ OwnedIsActive /\ [Next]_vars => OwnedIsActive'
<1> SUFFICES ASSUME TypeOK, OwnedIsActive, [Next]_vars PROVE OwnedIsActive'
  OBVIOUS
<1> USE DEF jobVars, tableVars, workerVars, procVars
<1>1. ASSUME NEW s \in Slots, claimNextJob(s)
      PROVE  OwnedIsActive'
  BY <1>1, RowOfAssumption, NoneAssumption
     DEF TypeOK, OwnedIsActive, claimNextJob, Row, Slots
<1>2. ASSUME NEW s \in Slots, startExecution(s)
      PROVE  OwnedIsActive'
  BY <1>2
     DEF TypeOK, OwnedIsActive, startExecution
<1>3. ASSUME NEW s \in Slots, recordSuccess(s)
      PROVE  OwnedIsActive'
  BY <1>3, ClearClaim
     DEF TypeOK, OwnedIsActive, recordSuccess
<1>4. ASSUME NEW s \in Slots, recordFailure(s)
      PROVE  OwnedIsActive'
  BY <1>4, ClearClaim
     DEF TypeOK, OwnedIsActive, recordFailure
<1>5. ASSUME NEW w \in Workers, commitRecovery(w)
      PROVE  OwnedIsActive'
  BY <1>5, ClearClaim
     DEF TypeOK, OwnedIsActive, commitRecovery
<1>6. ASSUME promoteDueScheduledJobs
      PROVE  OwnedIsActive'
  BY <1>6
     DEF TypeOK, OwnedIsActive, promoteDueScheduledJobs
<1>7. ASSUME promoteDueRetries
      PROVE  OwnedIsActive'
  BY <1>7
     DEF TypeOK, OwnedIsActive, promoteDueRetries
<1>8. ASSUME NEW j \in Jobs, scheduleFailedJob(j)
      PROVE  OwnedIsActive'
  BY <1>8
     DEF TypeOK, OwnedIsActive, scheduleFailedJob
<1>9. ASSUME NEW j \in Jobs, processDeadLetter(j)
      PROVE  OwnedIsActive'
  BY <1>9
     DEF TypeOK, OwnedIsActive, processDeadLetter
<1>10. ASSUME NEW c \in Clients, writeCancelled(c)
      PROVE  OwnedIsActive'
  BY <1>10, ClearClaim
     DEF TypeOK, OwnedIsActive, writeCancelled
<1>11. ASSUME NEW c \in Clients, writeRequeued(c)
      PROVE  OwnedIsActive'
  BY <1>11, ClearClaim
     DEF TypeOK, OwnedIsActive, writeRequeued
<1>12. ASSUME UNCHANGED << status, claimedBy >>
      PROVE  OwnedIsActive'
  BY <1>12 DEF OwnedIsActive
<1>13. QED
  BY <1>1, <1>2, <1>3, <1>4, <1>5, <1>6, <1>7, <1>8, <1>9, <1>10, <1>11, <1>12
     DEF Next, Runtime, Recovery, Tick, Api, retryJob, Environment, vars,
         verifyOwnership, finish, abandon, recordWorkerHeartbeat,
         lockStaleWorker, findExecutions, abortRecovery, becomeDue,
         readForCancel, readForRequeue, setPaused, postHeartbeat, heartbeatTimeout, crash,
         restart

(* Only CLAIMED and RUNNING jobs have an owner, and CLAIMED jobs have one. *)
THEOREM OwnershipCorrect == Spec => []OwnedIsActive
<1>1. Init => OwnedIsActive
  BY DEF Init, OwnedIsActive
<1>2. QED
  BY <1>1, TypeCorrect, NextOwned, PTL DEF Spec

(* DEAD_LETTER is written only together with a new entry, and the entry is
   marked requeued only together with another status. *)
LEMMA NextDeadLetter == TypeOK /\ DeadLetterHasEntry /\ [Next]_vars => DeadLetterHasEntry'
<1> SUFFICES ASSUME TypeOK, DeadLetterHasEntry, [Next]_vars PROVE DeadLetterHasEntry'
  OBVIOUS
<1> USE DEF jobVars, tableVars, workerVars, procVars
<1>1. ASSUME NEW s \in Slots, claimNextJob(s)
      PROVE  DeadLetterHasEntry'
  BY <1>1
     DEF TypeOK, DeadLetterHasEntry, claimNextJob
<1>2. ASSUME NEW s \in Slots, startExecution(s)
      PROVE  DeadLetterHasEntry'
  BY <1>2
     DEF TypeOK, DeadLetterHasEntry, startExecution
<1>3. ASSUME NEW s \in Slots, recordSuccess(s)
      PROVE  DeadLetterHasEntry'
  BY <1>3
     DEF TypeOK, DeadLetterHasEntry, recordSuccess
<1>4. ASSUME NEW s \in Slots, recordFailure(s)
      PROVE  DeadLetterHasEntry'
  BY <1>4
     DEF TypeOK, DeadLetterHasEntry, recordFailure
<1>5. ASSUME NEW w \in Workers, commitRecovery(w)
      PROVE  DeadLetterHasEntry'
  BY <1>5
     DEF TypeOK, DeadLetterHasEntry, commitRecovery
<1>6. ASSUME promoteDueScheduledJobs
      PROVE  DeadLetterHasEntry'
  BY <1>6
     DEF TypeOK, DeadLetterHasEntry, promoteDueScheduledJobs
<1>7. ASSUME promoteDueRetries
      PROVE  DeadLetterHasEntry'
  BY <1>7
     DEF TypeOK, DeadLetterHasEntry, promoteDueRetries
<1>8. ASSUME NEW j \in Jobs, scheduleFailedJob(j)
      PROVE  DeadLetterHasEntry'
  BY <1>8
     DEF TypeOK, DeadLetterHasEntry, scheduleFailedJob
<1>9. ASSUME NEW j \in Jobs, processDeadLetter(j)
      PROVE  DeadLetterHasEntry'
  BY <1>9
     DEF TypeOK, DeadLetterHasEntry, processDeadLetter, createEntry
<1>10. ASSUME NEW c \in Clients, writeCancelled(c)
      PROVE  DeadLetterHasEntry'
  BY <1>10
     DEF TypeOK, DeadLetterHasEntry, writeCancelled
<1>11. ASSUME NEW c \in Clients, writeRequeued(c)
      PROVE  DeadLetterHasEntry'
  BY <1>11
     DEF TypeOK, DeadLetterHasEntry, writeRequeued
<1>12. ASSUME UNCHANGED << status, deadLetter >>
      PROVE  DeadLetterHasEntry'
  BY <1>12 DEF DeadLetterHasEntry
<1>13. QED
  BY <1>1, <1>2, <1>3, <1>4, <1>5, <1>6, <1>7, <1>8, <1>9, <1>10, <1>11, <1>12
     DEF Next, Runtime, Recovery, Tick, Api, retryJob, Environment, vars,
         verifyOwnership, finish, abandon, recordWorkerHeartbeat,
         lockStaleWorker, findExecutions, abortRecovery, becomeDue,
         readForCancel, readForRequeue, setPaused, postHeartbeat, heartbeatTimeout, crash,
         restart

(* A DEAD_LETTER job always has an entry an operator can still requeue. *)
THEOREM DeadLetterCorrect == Spec => []DeadLetterHasEntry
<1>1. Init => DeadLetterHasEntry
  BY DEF Init, DeadLetterHasEntry
<1>2. QED
  BY <1>1, TypeCorrect, NextDeadLetter, PTL DEF Spec

-----------------------------------------------------------------------------
(* Executions: the numbering of attempts, the rows that running handlers and
   open recoveries refer to, and the history behind a job's status. *)

(* AttemptIdentity without set equality: no row is numbered beyond the job's
   attemptCount, no number is missing, no two rows share one. *)
Numbered ==
  /\ \A e \in executions : e.attempt <= attemptCount[e.job]
  /\ \A j \in Jobs, n \in Nat \ {0} : n <= attemptCount[j] =>
       \E e \in executions : e.job = j /\ e.attempt = n
  /\ \A e, f \in executions : e.job = f.job /\ e.attempt = f.attempt => e = f

(* Numbered says what AttemptIdentity says. *)
LEMMA NumberedIsAttemptIdentity == TypeOK /\ Numbered => AttemptIdentity
<1> SUFFICES ASSUME TypeOK, Numbered PROVE AttemptIdentity
  OBVIOUS
<1>1. ASSUME NEW j \in Jobs
      PROVE  { e.attempt : e \in { x \in executions : x.job = j } } = 1 .. attemptCount[j]
  <2> DEFINE N == { e.attempt : e \in { x \in executions : x.job = j } }
  <2>1. ASSUME NEW n \in N PROVE n \in 1 .. attemptCount[j]
    BY <2>1 DEF TypeOK, Numbered, Execution
  <2>2. ASSUME NEW n \in 1 .. attemptCount[j] PROVE n \in N
    <3>1. n \in Nat \ {0} /\ n <= attemptCount[j]
      BY DEF TypeOK
    <3>2. PICK e \in executions : e.job = j /\ e.attempt = n
      BY <3>1 DEF Numbered
    <3>3. QED
      BY <3>2
  <2>3. QED
    BY <2>1, <2>2
<1>2. QED
  BY <1>1 DEF AttemptIdentity, Numbered

(* Changing statuses leaves the numbering alone. *)
LEMMA StatusUpdateKeepsNumbers ==
  ASSUME TypeOK, Numbered, NEW K, NEW st \in ExecutionStatus,
         executions' = setExecutionStatus(K, st), attemptCount' = attemptCount
  PROVE  Numbered'
<1> DEFINE new == setExecutionStatus(K, st)
<1>1. /\ new \subseteq Execution
      /\ \A f \in new : \E e \in executions :
           /\ f.job = e.job /\ f.attempt = e.attempt /\ f.worker = e.worker
           /\ f.status = IF <<e.job, e.attempt>> \in K THEN st ELSE e.status
      /\ \A e \in executions : \E f \in new : f.job = e.job /\ f.attempt = e.attempt
  <2>1. executions \subseteq Execution
    BY DEF TypeOK
  <2>2. /\ new \subseteq Execution
        /\ \A f \in new : \E e \in executions :
             /\ f.job = e.job /\ f.attempt = e.attempt /\ f.worker = e.worker
             /\ f.status = IF <<e.job, e.attempt>> \in K THEN st ELSE e.status
        /\ \A e \in executions : \E f \in new :
             /\ f.job = e.job /\ f.attempt = e.attempt /\ f.worker = e.worker
             /\ f.status = IF <<e.job, e.attempt>> \in K THEN st ELSE e.status
    BY <2>1, SetExecutionStatus
  <2>3. QED
    BY <2>2, Zenon
<1>2. executions' = new /\ attemptCount' = attemptCount
  OBVIOUS
<1> HIDE DEF new
<1>3. \A f \in new : f.attempt <= attemptCount[f.job]
  BY <1>1 DEF Numbered
<1>4. \A j \in Jobs, n \in Nat \ {0} : n <= attemptCount[j] =>
        \E f \in new : f.job = j /\ f.attempt = n
  BY <1>1 DEF Numbered
<1>5. ASSUME NEW f \in new, NEW g \in new, f.job = g.job, f.attempt = g.attempt
      PROVE  f = g
  <2>1. PICK e \in executions :
          /\ f.job = e.job /\ f.attempt = e.attempt /\ f.worker = e.worker
          /\ f.status = IF <<e.job, e.attempt>> \in K THEN st ELSE e.status
    BY <1>1
  <2>2. PICK d \in executions :
          /\ g.job = d.job /\ g.attempt = d.attempt /\ g.worker = d.worker
          /\ g.status = IF <<d.job, d.attempt>> \in K THEN st ELSE d.status
    BY <1>1
  <2>3. e = d
    <3>1. e.job = d.job /\ e.attempt = d.attempt
      BY <1>5, <2>1, <2>2
    <3>2. QED
      BY <3>1 DEF Numbered
  <2>4. f \in Execution /\ g \in Execution
    BY <1>1
  <2>5. f.worker = g.worker /\ f.status = g.status
    BY <2>1, <2>2, <2>3
  <2>6. f.job = g.job /\ f.attempt = g.attempt
    BY <1>5
  <2> HIDE DEF new
  <2>7. QED
    BY <2>4, <2>5, <2>6 DEF Execution
<1>6. QED
  BY <1>2, <1>3, <1>4, <1>5 DEF Numbered


(* A new attempt takes the next number; the other writes change statuses. *)
LEMMA NextNumbered == TypeOK /\ Numbered /\ [Next]_vars => Numbered'
<1> SUFFICES ASSUME TypeOK, Numbered, [Next]_vars PROVE Numbered'
  OBVIOUS
<1> USE DEF jobVars, tableVars, workerVars, procVars
<1>1. ASSUME NEW s \in Slots, startExecution(s)
      PROVE  Numbered'
  <2> DEFINE j == run[s].job
             n == attemptCount[j] + 1
             row == [job |-> j, attempt |-> n, worker |-> Row(s), status |-> "RUNNING"]
  <2>1. j \in Jobs /\ n \in Nat \ {0} /\ attemptCount[j] < n
    BY <1>1 DEF startExecution, TypeOK
  <2>2. /\ executions' = executions \cup {row}
        /\ attemptCount' = [attemptCount EXCEPT ![j] = n]
        /\ row.job = j /\ row.attempt = n
    BY <1>1 DEF startExecution, nextAttempt
  <2> HIDE DEF n, row
  <2>3. \A e \in executions : e.job \in Jobs /\ e.attempt \in Nat \ {0}
    BY DEF TypeOK, Execution
  <2>4. \A e \in executions' : e.attempt <= attemptCount'[e.job]
    BY <2>1, <2>2, <2>3 DEF TypeOK, Numbered
  <2>5. \A i \in Jobs, m \in Nat \ {0} : m <= attemptCount'[i] =>
          \E e \in executions' : e.job = i /\ e.attempt = m
    <3> SUFFICES ASSUME NEW i \in Jobs, NEW m \in Nat \ {0}, m <= attemptCount'[i]
                 PROVE  \E e \in executions' : e.job = i /\ e.attempt = m
      OBVIOUS
    <3>1. CASE i = j /\ m = n
      BY <3>1, <2>2
    <3>2. CASE ~(i = j /\ m = n)
      <4>1. m <= attemptCount[i]
        <5>1. CASE i = j
          <6>1. m <= n /\ m # n
            BY <3>2, <5>1, <2>1, <2>2 DEF TypeOK
          <6>2. attemptCount[i] \in Nat /\ n = attemptCount[i] + 1
            BY <5>1, <2>1 DEF TypeOK, n
          <6>3. QED
            BY <6>1, <6>2
        <5>2. CASE i # j
          BY <5>2, <2>2 DEF TypeOK
        <5>3. QED
          BY <5>1, <5>2
      <4>2. QED
        BY <4>1, <2>2 DEF Numbered
    <3>3. QED
      BY <3>1, <3>2
  <2>6. \A e, f \in executions' : e.job = f.job /\ e.attempt = f.attempt => e = f
    BY <2>1, <2>2, <2>3 DEF TypeOK, Numbered
  <2>7. QED
    BY <2>4, <2>5, <2>6 DEF Numbered
<1>2. ASSUME NEW s \in Slots, recordSuccess(s)
      PROVE  Numbered'
  BY <1>2, StatusUpdateKeepsNumbers
     DEF recordSuccess, ExecutionStatus
<1>3. ASSUME NEW s \in Slots, recordFailure(s)
      PROVE  Numbered'
  BY <1>3, StatusUpdateKeepsNumbers
     DEF recordFailure, ExecutionStatus
<1>4. ASSUME NEW w \in Workers, commitRecovery(w)
      PROVE  Numbered'
  BY <1>4, StatusUpdateKeepsNumbers
     DEF commitRecovery, ExecutionStatus
<1>5. ASSUME UNCHANGED << executions, attemptCount >>
      PROVE  Numbered'
  BY <1>5 DEF Numbered
<1>6. QED
  BY <1>1, <1>2, <1>3, <1>4, <1>5
     DEF Next, Runtime, Recovery, Tick, Api, retryJob, Environment, vars, claimNextJob,
         verifyOwnership, finish, abandon, recordWorkerHeartbeat,
         lockStaleWorker, findExecutions, abortRecovery,
         promoteDueScheduledJobs, promoteDueRetries, scheduleFailedJob,
         processDeadLetter, becomeDue, readForCancel, writeCancelled,
         readForRequeue, writeRequeued, setPaused, postHeartbeat, heartbeatTimeout, crash,
         restart

(* The attempts of a job are numbered 1 .. attemptCount, each once. *)
THEOREM AttemptsCorrect == Spec => []AttemptIdentity
<1>1. Init => Numbered
  BY DEF Init, Numbered
<1>2. Spec => []Numbered
  BY <1>1, TypeCorrect, NextNumbered, PTL DEF Spec
<1>3. QED
  BY <1>2, TypeCorrect, NumberedIsAttemptIdentity, PTL
-----------------------------------------------------------------------------
(* The rows that running handlers and open recoveries refer to. *)

Working(s) == run[s].pc \in {"running", "completed"}

(* No row of JobExecution changes its key or its worker, or disappears. *)
RowsKept ==
  \A e \in executions : \E f \in executions' :
    f.job = e.job /\ f.attempt = e.attempt /\ f.worker = e.worker

(* No step deletes a row or moves it to another job, attempt or worker. *)
LEMMA NextKeepsRows == TypeOK /\ [Next]_vars => RowsKept
<1> SUFFICES ASSUME TypeOK, [Next]_vars PROVE RowsKept
  OBVIOUS
<1> USE DEF jobVars, tableVars, workerVars, procVars
<1>0. executions \subseteq Execution
  BY DEF TypeOK
<1>1. ASSUME NEW K, NEW st \in ExecutionStatus, executions' = setExecutionStatus(K, st)
      PROVE  RowsKept
  <2> DEFINE new == setExecutionStatus(K, st)
  <2>1. /\ new \subseteq Execution
        /\ \A f \in new : \E e \in executions :
             /\ f.job = e.job /\ f.attempt = e.attempt /\ f.worker = e.worker
             /\ f.status = IF <<e.job, e.attempt>> \in K THEN st ELSE e.status
        /\ \A e \in executions : \E f \in new :
             /\ f.job = e.job /\ f.attempt = e.attempt /\ f.worker = e.worker
             /\ f.status = IF <<e.job, e.attempt>> \in K THEN st ELSE e.status
    BY <1>0, <1>1, SetExecutionStatus
  <2>2. executions' = new
    BY <1>1
  <2> HIDE DEF new
  <2>3. QED
    BY <2>1, <2>2, Zenon DEF RowsKept
<1>2. ASSUME NEW s \in Slots, startExecution(s)
      PROVE  RowsKept
  BY <1>2 DEF startExecution, RowsKept
<1>3. ASSUME NEW s \in Slots, recordSuccess(s)
      PROVE  RowsKept
  BY <1>1, <1>3 DEF recordSuccess, ExecutionStatus
<1>4. ASSUME NEW s \in Slots, recordFailure(s)
      PROVE  RowsKept
  BY <1>1, <1>4 DEF recordFailure, ExecutionStatus
<1>5. ASSUME NEW w \in Workers, commitRecovery(w)
      PROVE  RowsKept
  BY <1>1, <1>5 DEF commitRecovery, ExecutionStatus
<1>6. ASSUME UNCHANGED executions
      PROVE  RowsKept
  BY <1>6 DEF RowsKept
<1>7. QED
  BY <1>2, <1>3, <1>4, <1>5, <1>6
     DEF Next, Runtime, Recovery, Tick, Api, retryJob, Environment, vars, claimNextJob,
         verifyOwnership, finish, abandon, recordWorkerHeartbeat,
         lockStaleWorker, findExecutions, abortRecovery,
         promoteDueScheduledJobs, promoteDueRetries, scheduleFailedJob,
         processDeadLetter, becomeDue, readForCancel, writeCancelled,
         readForRequeue, writeRequeued, setPaused, postHeartbeat, heartbeatTimeout, crash,
         restart

(* A step that starts no handler keeps RunOwnsItsExecution. *)
LEMMA RunsKept ==
  ASSUME RunOwnsItsExecution, RowsKept,
         \A s \in Slots : Working(s)' =>
           Working(s) /\ run'[s].job = run[s].job /\ run'[s].attempt = run[s].attempt
  PROVE  RunOwnsItsExecution'
<1>1. ASSUME NEW s \in Slots, Working(s)'
      PROVE  \E e \in executions' :
               e.job = run'[s].job /\ e.attempt = run'[s].attempt /\ e.worker = Row(s)
  <2>1. Working(s) /\ run'[s].job = run[s].job /\ run'[s].attempt = run[s].attempt
    BY <1>1
  <2>2. PICK e \in executions :
          e.job = run[s].job /\ e.attempt = run[s].attempt /\ e.worker = Row(s)
    BY <2>1 DEF RunOwnsItsExecution, Working
  <2>3. QED
    BY <2>1, <2>2 DEF RowsKept
<1>2. ASSUME NEW s \in Slots, NEW t \in Slots, Working(s)', Working(t)',
             run'[s].job = run'[t].job, run'[s].attempt = run'[t].attempt
      PROVE  s = t
  <2>1. Working(s) /\ Working(t) /\ run[s].job = run[t].job /\ run[s].attempt = run[t].attempt
    BY <1>2
  <2>2. QED
    BY <2>1 DEF RunOwnsItsExecution, Working
<1>3. QED
  BY <1>1, <1>2 DEF RunOwnsItsExecution, Working, Row

(* A handler starts with the number no other has; other steps start none. *)
LEMMA NextRunOwns ==
  TypeOK /\ Numbered /\ RunOwnsItsExecution /\ [Next]_vars => RunOwnsItsExecution'
<1> SUFFICES ASSUME TypeOK, Numbered, RunOwnsItsExecution, [Next]_vars
             PROVE  RunOwnsItsExecution'
  OBVIOUS
<1> USE DEF jobVars, tableVars, workerVars, procVars
<1> DEFINE Kept(s) == Working(s)' =>
             Working(s) /\ run'[s].job = run[s].job /\ run'[s].attempt = run[s].attempt
<1>0. RowsKept
  BY NextKeepsRows
<1>1. ASSUME NEW s \in Slots, startExecution(s)
      PROVE  RunOwnsItsExecution'
  <2> DEFINE j == run[s].job
             n == attemptCount[j] + 1
             row == [job |-> j, attempt |-> n, worker |-> Row(s), status |-> "RUNNING"]
  <2>0. /\ run' = [run EXCEPT ![s] = [pc |-> "running", job |-> j, attempt |-> n]]
        /\ row \in executions' /\ run[s].pc = "verified"
    BY <1>1 DEF startExecution, nextAttempt
  <2>1. /\ j \in Jobs /\ n \in Nat /\ attemptCount[j] < n
        /\ run'[s].job = j /\ run'[s].attempt = n
        /\ \A t \in Slots \ {s} : run'[t] = run[t]
        /\ \E e \in executions' : e.job = j /\ e.attempt = n /\ e.worker = Row(s)
    <3>1. j \in Jobs /\ n \in Nat /\ attemptCount[j] < n
      BY <2>0 DEF TypeOK
    <3>2. /\ run'[s].job = j /\ run'[s].attempt = n
          /\ \A t \in Slots \ {s} : run'[t] = run[t]
      BY <2>0 DEF TypeOK
    <3>3. row.job = j /\ row.attempt = n /\ row.worker = Row(s)
      OBVIOUS
    <3>4. QED
      BY <2>0, <3>1, <3>2, <3>3
  <2> HIDE DEF n
  <2>2. ASSUME NEW t \in Slots \ {s}, Working(t)'
        PROVE  /\ \E e \in executions' :
                    e.job = run'[t].job /\ e.attempt = run'[t].attempt /\ e.worker = Row(t)
               /\ ~(run'[t].job = j /\ run'[t].attempt = n)
    <3>1. Working(t) /\ run'[t].job = run[t].job /\ run'[t].attempt = run[t].attempt
      BY <2>1, <2>2 DEF Working
    <3>2. PICK e \in executions :
            e.job = run[t].job /\ e.attempt = run[t].attempt /\ e.worker = Row(t)
      BY <3>1 DEF RunOwnsItsExecution, Working
    <3>3. e.attempt <= attemptCount[e.job] /\ e.attempt \in Nat
      BY DEF Numbered, TypeOK, Execution
    <3>4. ~(run'[t].job = j /\ run'[t].attempt = n)
      BY <2>1, <3>1, <3>2, <3>3 DEF TypeOK
    <3>5. QED
      BY <1>0, <3>1, <3>2, <3>4 DEF RowsKept
  <2>3. ASSUME NEW t \in Slots \ {s}, NEW u \in Slots \ {s}, Working(t)', Working(u)',
               run'[t].job = run'[u].job, run'[t].attempt = run'[u].attempt
        PROVE  t = u
    BY <2>1, <2>3 DEF RunOwnsItsExecution, Working
  <2>4. QED
    BY <2>1, <2>2, <2>3 DEF RunOwnsItsExecution, Working, Row
<1>2. ASSUME NEW s \in Slots, Runtime(s), ~startExecution(s)
      PROVE  \A t \in Slots : Kept(t)
  BY <1>2
     DEF Runtime, claimNextJob, verifyOwnership, recordSuccess, finish,
         recordFailure, abandon, TypeOK, Working, IdleRun
<1>3. ASSUME NEW p \in Procs, crash(p)
      PROVE  \A t \in Slots : Kept(t)
  BY <1>3 DEF crash, Working, IdleRun
<1>4. ASSUME UNCHANGED run
      PROVE  \A t \in Slots : Kept(t)
  BY <1>4 DEF Working
<1>5. ASSUME \A t \in Slots : Kept(t)
      PROVE  RunOwnsItsExecution'
  BY <1>0, <1>5, RunsKept
<1>6. QED
  BY <1>1, <1>2, <1>3, <1>4, <1>5
     DEF Next, Recovery, Tick, Api, retryJob, Environment, vars, recordWorkerHeartbeat,
         lockStaleWorker, findExecutions, commitRecovery, abortRecovery,
         promoteDueScheduledJobs, promoteDueRetries, scheduleFailedJob,
         processDeadLetter, becomeDue, readForCancel, writeCancelled,
         readForRequeue, writeRequeued, setPaused, postHeartbeat, heartbeatTimeout, restart

(* A handler always has the execution row it will update, of its own worker,
   and no two handlers update the same row. *)
THEOREM RunsCorrect == Spec => []RunOwnsItsExecution
<1>1. Init => RunOwnsItsExecution
  BY DEF Init, RunOwnsItsExecution, IdleRun
<1>2. Init => Numbered
  BY DEF Init, Numbered
<1>3. Spec => []Numbered
  BY <1>2, TypeCorrect, NextNumbered, PTL DEF Spec
<1>4. QED
  BY <1>1, <1>3, TypeCorrect, NextRunOwns, PTL DEF Spec

-----------------------------------------------------------------------------
(* The history behind a job's status. *)

(* The rows a recovery is about to update exist. *)
FoundRowsExist ==
  \A w \in Workers : \A k \in rec[w].rows : \E e \in executions :
    e.job = k[1] /\ e.attempt = k[2]

(* Job j has an execution of status st. *)
HasOutcome(j, st) == \E e \in executions : e.job = j /\ e.status = st

Backed(j) ==
  /\ status[j] = "COMPLETED" => HasOutcome(j, "COMPLETED")
  /\ status[j] \in {"FAILED", "RETRY", "DEAD_LETTER"} => HasOutcome(j, "FAILED")

(* Backed says of every job what StatusBackedByExecution says. *)
LEMMA BackedIsStatusBacked == (\A j \in Jobs : Backed(j)) <=> StatusBackedByExecution
BY DEF Backed, HasOutcome, StatusBackedByExecution

(* Recovery only remembers rows it saw, and rows never disappear. *)
LEMMA NextFoundRows == TypeOK /\ FoundRowsExist /\ [Next]_vars => FoundRowsExist'
<1> SUFFICES ASSUME TypeOK, FoundRowsExist, [Next]_vars PROVE FoundRowsExist'
  OBVIOUS
<1> USE DEF jobVars, tableVars, workerVars, procVars
<1>0. RowsKept
  BY NextKeepsRows
<1>1. ASSUME NEW w \in Workers, findExecutions(w)
      PROVE  FoundRowsExist'
  <2>1. /\ rec' = [rec EXCEPT ![w] =
             [phase   |-> "found", by |-> @.by, claimed |-> @.claimed,
              running |-> @.running, rows |-> activeExecutions(w, @.running)]]
        /\ executions' = executions
    BY <1>1 DEF findExecutions
  <2>2. \A k \in activeExecutions(w, rec[w].running) :
          \E e \in executions : e.job = k[1] /\ e.attempt = k[2]
    BY DEF activeExecutions
  <2>3. /\ rec'[w].rows = activeExecutions(w, rec[w].running)
        /\ \A v \in Workers \ {w} : rec'[v] = rec[v]
    BY <2>1 DEF TypeOK
  <2>4. QED
    BY <2>1, <2>2, <2>3 DEF FoundRowsExist
<1>2. ASSUME \A w \in Workers : rec'[w].rows \subseteq rec[w].rows
      PROVE  FoundRowsExist'
  BY <1>0, <1>2 DEF FoundRowsExist, RowsKept
<1>3. ASSUME NEW w \in Workers, NEW p \in Procs, lockStaleWorker(p, w)
      PROVE  \A v \in Workers : rec'[v].rows \subseteq rec[v].rows
  BY <1>3 DEF lockStaleWorker, TypeOK
<1>4. ASSUME NEW w \in Workers, commitRecovery(w) \/ abortRecovery(w)
      PROVE  \A v \in Workers : rec'[v].rows \subseteq rec[v].rows
  <2>1. rec' = [rec EXCEPT ![w] = Closed]
    BY <1>4 DEF commitRecovery, abortRecovery
  <2>2. Closed.rows = {}
    BY DEF Closed
  <2>3. QED
    BY <2>1, <2>2 DEF TypeOK
<1>5. ASSUME NEW p \in Procs, crash(p)
      PROVE  \A v \in Workers : rec'[v].rows \subseteq rec[v].rows
  BY <1>5 DEF crash, Closed
<1>6. ASSUME UNCHANGED rec
      PROVE  \A v \in Workers : rec'[v].rows \subseteq rec[v].rows
  BY <1>6
<1>7. QED
  BY <1>1, <1>2, <1>3, <1>4, <1>5, <1>6
     DEF Next, Runtime, Recovery, Tick, Api, retryJob, Environment, vars, claimNextJob,
         verifyOwnership, startExecution, recordSuccess, finish, recordFailure,
         abandon, recordWorkerHeartbeat, promoteDueScheduledJobs,
         promoteDueRetries, scheduleFailedJob, processDeadLetter, becomeDue,
         readForCancel, writeCancelled, readForRequeue, writeRequeued,
         setPaused, postHeartbeat, heartbeatTimeout, restart

(* What an update of the rows in K does to the outcomes of the jobs. *)
LEMMA StatusUpdateOutcomes ==
  ASSUME executions \subseteq Execution, NEW K, NEW st \in ExecutionStatus,
         executions' = setExecutionStatus(K, st)
  PROVE  /\ \A e \in executions : <<e.job, e.attempt>> \in K => HasOutcome(e.job, st)'
         /\ \A e \in executions : <<e.job, e.attempt>> \notin K => HasOutcome(e.job, e.status)'
<1> DEFINE new == setExecutionStatus(K, st)
<1>1. /\ new \subseteq Execution
      /\ \A f \in new : \E e \in executions :
           /\ f.job = e.job /\ f.attempt = e.attempt /\ f.worker = e.worker
           /\ f.status = IF <<e.job, e.attempt>> \in K THEN st ELSE e.status
      /\ \A e \in executions : \E f \in new :
           /\ f.job = e.job /\ f.attempt = e.attempt /\ f.worker = e.worker
           /\ f.status = IF <<e.job, e.attempt>> \in K THEN st ELSE e.status
  BY SetExecutionStatus
<1>2. executions' = new
  OBVIOUS
<1> HIDE DEF new
<1>3. QED
  BY <1>1, <1>2 DEF HasOutcome

(* The status of a job and the status of its executions change together. *)
LEMMA NextBacked ==
  /\ TypeOK /\ RunOwnsItsExecution /\ FoundRowsExist
  /\ (\A j \in Jobs : Backed(j)) /\ [Next]_vars
  => (\A j \in Jobs : Backed(j))'
<1> SUFFICES ASSUME TypeOK, RunOwnsItsExecution, FoundRowsExist,
                    \A j \in Jobs : Backed(j), [Next]_vars
             PROVE  (\A j \in Jobs : Backed(j))'
  OBVIOUS
<1> USE DEF jobVars, tableVars, workerVars, procVars
<1>0. executions \subseteq Execution
  BY DEF TypeOK
<1>1. ASSUME NEW s \in Slots, NEW st \in {"COMPLETED", "FAILED"}, Working(s),
             executions' = setExecutionStatus({<<run[s].job, run[s].attempt>>}, st),
             status' = [status EXCEPT ![run[s].job] = st]
      PROVE  (\A j \in Jobs : Backed(j))'
  <2> DEFINE K == {<<run[s].job, run[s].attempt>>}
  <2>1. /\ \A e \in executions : <<e.job, e.attempt>> \in K => HasOutcome(e.job, st)'
        /\ \A e \in executions : <<e.job, e.attempt>> \notin K => HasOutcome(e.job, e.status)'
    BY <1>0, <1>1, StatusUpdateOutcomes DEF ExecutionStatus
  <2>2. PICK e \in executions : e.job = run[s].job /\ e.attempt = run[s].attempt
    BY <1>1 DEF RunOwnsItsExecution, Working
  <2>3. \E f \in executions' : f.job = run[s].job /\ f.status = st
    <3>1. <<e.job, e.attempt>> \in K
      BY <2>2
    <3>2. \E f \in executions' : f.job = e.job /\ f.status = st
      BY <2>1, <3>1 DEF HasOutcome
    <3>3. QED
      BY <2>2, <3>2
  <2>4. run[s].job \in Jobs
    BY <1>1 DEF TypeOK, Working
  <2>5. ASSUME NEW j \in Jobs
        PROVE  Backed(j)'
    <3>1. CASE j = run[s].job
      <4>1. status'[j] = st
        BY <1>1, <2>4, <3>1 DEF TypeOK
      <4>2. HasOutcome(j, st)'
        BY <2>3, <3>1 DEF HasOutcome
      <4>3. QED
        BY <4>1, <4>2 DEF Backed
    <3>2. CASE j # run[s].job
      <4>1. status'[j] = status[j]
        BY <1>1, <3>2 DEF TypeOK
      <4>2. \A x \in executions : x.job = j => HasOutcome(j, x.status)'
        BY <2>1, <3>2
      <4>3. \A r \in ExecutionStatus : HasOutcome(j, r) => HasOutcome(j, r)'
        BY <4>2 DEF HasOutcome
      <4>4. Backed(j)
        OBVIOUS
      <4>5. QED
        BY <4>1, <4>3, <4>4 DEF Backed, ExecutionStatus
    <3>3. QED
      BY <3>1, <3>2
  <2>6. QED
    BY <2>5
<1>2. ASSUME NEW s \in Slots, recordSuccess(s)
      PROVE  (\A j \in Jobs : Backed(j))'
  BY <1>1, <1>2 DEF recordSuccess, Working
<1>3. ASSUME NEW s \in Slots, recordFailure(s)
      PROVE  (\A j \in Jobs : Backed(j))'
  BY <1>1, <1>3 DEF recordFailure, Working
<1>4. ASSUME NEW w \in Workers, commitRecovery(w)
      PROVE  (\A j \in Jobs : Backed(j))'
  <2> DEFINE K == rec[w].rows
             failed == { k[1] : k \in rec[w].rows }
  <2>1. /\ executions' = setExecutionStatus(K, "FAILED")
        /\ status' = [j \in Jobs |-> IF j \in rec[w].claimed THEN "QUEUED"
                                     ELSE IF j \in failed THEN "FAILED" ELSE status[j]]
    BY <1>4 DEF commitRecovery
  <2>2. /\ \A e \in executions : <<e.job, e.attempt>> \in K => HasOutcome(e.job, "FAILED")'
        /\ \A e \in executions : <<e.job, e.attempt>> \notin K => HasOutcome(e.job, e.status)'
    BY <1>0, <2>1, StatusUpdateOutcomes DEF ExecutionStatus
  <2>3. \A k \in K : k = <<k[1], k[2]>>
    BY DEF TypeOK
  <2>4. ASSUME NEW j \in Jobs
        PROVE  Backed(j)'
    <3>1. CASE j \in rec[w].claimed
      BY <2>1, <3>1 DEF Backed
    <3>2. CASE j \notin rec[w].claimed /\ j \in failed
      <4>1. PICK k \in K : k[1] = j
        BY <3>2
      <4>2. PICK e \in executions : e.job = k[1] /\ e.attempt = k[2]
        BY DEF FoundRowsExist
      <4>3. HasOutcome(j, "FAILED")'
        BY <2>2, <2>3, <4>1, <4>2
      <4>4. QED
        BY <2>1, <3>2, <4>3 DEF Backed
    <3>3. CASE j \notin rec[w].claimed /\ j \notin failed
      <4>1. status'[j] = status[j]
        BY <2>1, <3>3
      <4>2. \A x \in executions : x.job = j => HasOutcome(j, x.status)'
        <5>1. \A x \in executions : x.job = j => <<x.job, x.attempt>> \notin K
          BY <3>3
        <5>2. QED
          BY <2>2, <5>1
      <4>3. \A r \in ExecutionStatus : HasOutcome(j, r) => HasOutcome(j, r)'
        BY <4>2 DEF HasOutcome
      <4>4. Backed(j)
        OBVIOUS
      <4>5. QED
        BY <4>1, <4>3, <4>4 DEF Backed, ExecutionStatus
    <3>4. QED
      BY <3>1, <3>2, <3>3
  <2>5. QED
    BY <2>4
<1>5. ASSUME executions \subseteq executions',
             \A j \in Jobs :
               \/ status'[j] = status[j]
               \/ status'[j] \notin {"COMPLETED", "FAILED", "RETRY", "DEAD_LETTER"}
               \/ status[j] = "FAILED" /\ status'[j] \in {"RETRY", "DEAD_LETTER"}
      PROVE  (\A j \in Jobs : Backed(j))'
  BY <1>5 DEF Backed, HasOutcome
<1>6. ASSUME NEW s \in Slots, claimNextJob(s) \/ startExecution(s)
      PROVE  (\A j \in Jobs : Backed(j))'
  BY <1>5, <1>6 DEF claimNextJob, startExecution, TypeOK
<1>7. ASSUME Tick
      PROVE  (\A j \in Jobs : Backed(j))'
  BY <1>5, <1>7
     DEF Tick, promoteDueScheduledJobs, promoteDueRetries, scheduleFailedJob,
         processDeadLetter, TypeOK
<1>8. ASSUME NEW c \in Clients, writeCancelled(c) \/ writeRequeued(c)
      PROVE  (\A j \in Jobs : Backed(j))'
  BY <1>5, <1>8 DEF writeCancelled, writeRequeued, TypeOK
<1>9. ASSUME UNCHANGED << status, executions >>
      PROVE  (\A j \in Jobs : Backed(j))'
  BY <1>5, <1>9
<1>10. QED
  BY <1>2, <1>3, <1>4, <1>6, <1>7, <1>8, <1>9
     DEF Next, Runtime, Recovery, Tick, Api, retryJob, Environment, vars, verifyOwnership,
         finish, abandon, recordWorkerHeartbeat, lockStaleWorker,
         findExecutions, abortRecovery, becomeDue, readForCancel,
         readForRequeue, setPaused, postHeartbeat, heartbeatTimeout, crash, restart

(* A job's status is never ahead of its execution history, whatever crashes,
   late workers, recoveries, cancels and requeues do. *)
THEOREM HistoryCorrect == Spec => []StatusBackedByExecution
<1>1. Init => FoundRowsExist
  BY DEF Init, FoundRowsExist, Closed
<1>2. Spec => []FoundRowsExist
  BY <1>1, TypeCorrect, NextFoundRows, PTL DEF Spec
<1> DEFINE AllBacked == \A j \in Jobs : Backed(j)
<1>3. Init => AllBacked
  BY DEF Init, Backed
<1>4. TypeOK /\ RunOwnsItsExecution /\ FoundRowsExist /\ AllBacked /\ [Next]_vars => AllBacked'
  BY NextBacked
<1>5. AllBacked => StatusBackedByExecution
  BY BackedIsStatusBacked
<1> HIDE DEF AllBacked
<1>6. QED
  BY <1>2, <1>3, <1>4, <1>5, TypeCorrect, RunsCorrect, PTL DEF Spec

-----------------------------------------------------------------------------
(* One handler per job, and the budget of attempts, where a worker is stale
   only when it is dead and requeues come one at a time.

   An invocation is a holder of its job from the claim to its end.  The row of
   a job that is held cannot be claimed again, and recovery cannot take it: it
   takes the jobs of rows that are deserted (TimelyInv), and a holder's process
   is up (HoldersInv).  What a recovery has read nobody else touches until it
   commits, except a cancel (TakenInv), and a requeue that was read is still
   due when it is written (RequeueInv). *)
HeartbeatsInTime == "late" \notin Faults
OneRequeueAtOnce == "requeue" \notin ApiOps \/ \A c, d \in Clients : c = d

Holds(s) == run[s].pc # "idle"
Held == { "CLAIMED", "RUNNING", "COMPLETED", "CANCELLED" }
Taken(w) == rec[w].claimed \cup rec[w].running

TimelyInv ==
  \A w \in Workers :
    /\ stale[w] \/ RowLocked(w) => Deserted(w)
    /\ ~RowLocked(w) => Taken(w) = {} /\ rec[w].rows = {}

HoldersInv ==
  /\ \A s, t \in Slots : Holds(s) /\ Holds(t) /\ run[s].job = run[t].job => s = t
  /\ \A s \in Slots : Holds(s) =>
       /\ up[ProcOf(s)] /\ status[run[s].job] \in Held
       /\ claimedBy[run[s].job] \in {Row(s), None}

TakenInv ==
  /\ \A w \in Workers : \A j \in Taken(w) :
       /\ status[j] \in { "CLAIMED", "RUNNING", "CANCELLED" }
       /\ claimedBy[j] \in {w, None}
       /\ \A s \in Slots : Holds(s) => run[s].job # j
       /\ \A v \in Workers : j \in Taken(v) => v = w
  /\ \A w \in Workers : \A k \in rec[w].rows : k[1] \in rec[w].running

RequeueInv ==
  \A c \in Clients : req[c].op = "requeue" =>
    "requeue" \in ApiOps /\ status[req[c].job] = "DEAD_LETTER"

(* A job that may still be started has an attempt left, also one that a holder
   has claimed or that a recovery will put back. *)
Below(j) == deadLetter[j] = "requeued" \/ ~Exhausted(j)

BudgetInv ==
  /\ \A j \in Jobs : status[j] \in { "QUEUED", "SCHEDULED", "RETRY", "CLAIMED" } => Below(j)
  /\ \A s \in Slots : run[s].pc \in { "claimed", "verified" } => Below(run[s].job)
  /\ \A w \in Workers : \A j \in rec[w].claimed : Below(j)
  /\ RetryBudget

SoleInv == HoldersInv /\ TakenInv /\ RequeueInv /\ BudgetInv

(* A row is stale, or locked by recovery, only while no process serves it: the
   timers of one that is up beat in time, and a restart waits for the lock. *)
LEMMA NextTimely ==
  ASSUME HeartbeatsInTime, TypeOK, TimelyInv, [Next]_vars
  PROVE  TimelyInv'
<1> USE DEF jobVars, tableVars, workerVars, procVars
<1>0. Closed.phase = "closed" /\ Closed.claimed = {} /\ Closed.running = {}
      /\ Closed.rows = {}
  BY DEF Closed
<1>1. ASSUME NEW p \in Procs, recordWorkerHeartbeat(p) PROVE TimelyInv'
  BY <1>1 DEF recordWorkerHeartbeat, TypeOK, TimelyInv, RowLocked, Deserted, Taken
<1>2. ASSUME NEW w \in Workers, postHeartbeat(w) PROVE TimelyInv'
  BY <1>2 DEF postHeartbeat, TypeOK, TimelyInv, RowLocked, Deserted, Taken
<1>3. ASSUME NEW w \in Workers, heartbeatTimeout(w) PROVE TimelyInv'
  BY <1>3 DEF heartbeatTimeout, HeartbeatsInTime, TypeOK, TimelyInv, RowLocked, Deserted,
              Taken
<1>4. ASSUME NEW w \in Workers, NEW p \in Procs, lockStaleWorker(p, w) PROVE TimelyInv'
  <2>1. Deserted(w) /\ rec'[w].phase = "read"
    BY <1>4 DEF lockStaleWorker, isStale, TypeOK, TimelyInv
  <2>2. \A v \in Workers : v # w => rec'[v] = rec[v]
    BY <1>4 DEF lockStaleWorker, TypeOK
  <2> QED BY <1>4, <2>1, <2>2 DEF lockStaleWorker, TimelyInv, RowLocked, Deserted, Taken
<1>5. ASSUME NEW w \in Workers, findExecutions(w) PROVE TimelyInv'
  <2>1. rec[w].phase = "read" /\ rec'[w].phase = "found"
        /\ \A v \in Workers : v # w => rec'[v] = rec[v]
    BY <1>5 DEF findExecutions, TypeOK
  <2> QED BY <1>5, <2>1 DEF findExecutions, TimelyInv, RowLocked, Deserted, Taken
<1>6. ASSUME NEW w \in Workers, commitRecovery(w) \/ abortRecovery(w) PROVE TimelyInv'
  <2>1. rec'[w] = Closed /\ \A v \in Workers : v # w => rec'[v] = rec[v]
    BY <1>6 DEF commitRecovery, abortRecovery, TypeOK
  <2> QED BY <1>0, <1>6, <2>1
          DEF commitRecovery, abortRecovery, TimelyInv, RowLocked, Deserted, Taken
<1>7. ASSUME NEW p \in Procs, crash(p) PROVE TimelyInv'
  <2>1. \A v \in Workers : rec'[v] \in {Closed, rec[v]} /\ stale'[v] = stale[v]
    BY <1>7 DEF crash
  <2>2. \A v \in Workers : Deserted(v) => Deserted(v)'
    BY <1>7 DEF crash, Deserted, TypeOK
  <2> QED BY <1>0, <2>1, <2>2 DEF TimelyInv, RowLocked, Taken
<1>8. ASSUME NEW p \in Procs, restart(p) PROVE TimelyInv'
  <2>1. \A v \in Workers : Deserted(v) /\ v # RowOf[p] => Deserted(v)'
    BY <1>8 DEF restart, Deserted, TypeOK
  <2>2. ~stale'[RowOf[p]] /\ \A v \in Workers : v # RowOf[p] => stale'[v] = stale[v]
    BY <1>8, RowOfAssumption DEF restart, TypeOK
  <2> QED BY <1>8, <2>1, <2>2 DEF restart, TimelyInv, RowLocked, Taken
<1>9. ASSUME UNCHANGED << rec, stale, up >> PROVE TimelyInv'
  BY <1>9 DEF TimelyInv, RowLocked, Deserted, Taken
<1> QED
  BY <1>1, <1>2, <1>3, <1>4, <1>5, <1>6, <1>7, <1>8, <1>9
     DEF Next, Runtime, Recovery, Tick, Api, retryJob, Environment, vars, claimNextJob,
         verifyOwnership, startExecution, recordSuccess, finish, recordFailure,
         abandon, promoteDueScheduledJobs,
         promoteDueRetries, scheduleFailedJob, processDeadLetter, becomeDue,
         readForCancel, writeCancelled, readForRequeue, writeRequeued, setPaused

(* The claim makes a holder of a job that had none: it was QUEUED. *)
LEMMA ClaimSole ==
  ASSUME TypeOK, TypeOK', SoleInv, NEW s \in Slots, claimNextJob(s)
  PROVE  SoleInv'
<1>1. PICK j \in Jobs :
        /\ status[j] = "QUEUED"
        /\ status' = [status EXCEPT ![j] = "CLAIMED"]
        /\ claimedBy' = [claimedBy EXCEPT ![j] = Row(s)]
        /\ run' = [run EXCEPT ![s] = [pc |-> "claimed", job |-> j, attempt |-> 0]]
  BY DEF claimNextJob, Eligible
<1>2. up[ProcOf(s)] /\ UNCHANGED << up, rec, req, deadLetter, attemptCount >>
  BY DEF claimNextJob, tableVars
<1>3. run'[s].pc = "claimed" /\ run'[s].job = j /\ \A t \in Slots : t # s => run'[t] = run[t]
  BY <1>1 DEF TypeOK
<1>4. /\ status'[j] = "CLAIMED" /\ claimedBy'[j] = Row(s)
      /\ \A k \in Jobs : k # j => status'[k] = status[k] /\ claimedBy'[k] = claimedBy[k]
  BY <1>1 DEF TypeOK
<1>5. \A t \in Slots : Holds(t) => run[t].job \in Jobs /\ run[t].job # j
  BY <1>1 DEF TypeOK, SoleInv, HoldersInv, Holds, Held
<1>6. \A w \in Workers : Taken(w) \subseteq Jobs /\ j \notin Taken(w)
  BY <1>1 DEF TypeOK, SoleInv, TakenInv, Taken
<1>7. HoldersInv'
  BY <1>2, <1>3, <1>4, <1>5 DEF SoleInv, HoldersInv, Holds, Held, Row
<1>8. TakenInv'
  BY <1>2, <1>3, <1>4, <1>6 DEF SoleInv, TakenInv, Holds, Taken
<1>9. RequeueInv'
  BY <1>1, <1>2, <1>4 DEF TypeOK, SoleInv, RequeueInv
<1>10. BudgetInv'
  <2>1. \A k \in Jobs : Below(k)' <=> Below(k)
    BY <1>2 DEF Below, Exhausted
  <2>2. Below(j)
    BY <1>1 DEF SoleInv, BudgetInv
  <2>3. \A t \in Slots : Holds(t) => run[t].job \in Jobs
    BY <1>5
  <2>4. \A k \in Jobs : status'[k] \in { "QUEUED", "SCHEDULED", "RETRY", "CLAIMED" } => Below(k)'
    BY <1>4, <2>1, <2>2 DEF SoleInv, BudgetInv
  <2>5. \A t \in Slots : run'[t].pc \in { "claimed", "verified" } => Below(run'[t].job)
    BY <1>3, <2>2 DEF SoleInv, BudgetInv
  <2>6. \A t \in Slots : run'[t].pc \in { "claimed", "verified" } => Below(run[t].job)'
    BY <1>3, <2>1, <2>2, <2>3, <2>5 DEF Holds
  <2>7. \A w \in Workers : \A k \in rec'[w].claimed : Below(k)'
    BY <1>2, <1>6, <2>1 DEF SoleInv, BudgetInv, Taken
  <2>8. RetryBudget'
    BY <1>2 DEF SoleInv, BudgetInv, RetryBudget
  <2> QED BY <2>4, <2>6, <2>7, <2>8 DEF BudgetInv
<1> QED BY <1>7, <1>8, <1>9, <1>10 DEF SoleInv

(* What a holder writes concerns its own job alone. *)
LEMMA HolderSole ==
  ASSUME TypeOK, TypeOK', SoleInv, NEW s \in Slots, Holds(s),
         UNCHANGED << up, rec, req, deadLetter >>,
         \A t \in Slots : t # s => run'[t] = run[t],
         run'[s].pc = "idle" \/ (run'[s].job = run[s].job /\ status'[run[s].job] \in Held),
         \A k \in Jobs : k # run[s].job =>
           /\ status'[k] = status[k] /\ claimedBy'[k] = claimedBy[k]
           /\ attemptCount'[k] = attemptCount[k],
         claimedBy'[run[s].job] \in {claimedBy[run[s].job], None},
         status'[run[s].job] \in { "RUNNING", "COMPLETED", "FAILED", status[run[s].job] },
         \/ attemptCount' = attemptCount
            /\ (run'[s].pc \in { "claimed", "verified" } => run[s].pc \in { "claimed", "verified" })
         \/ /\ run[s].pc = "verified" /\ run'[s].pc = "running"
            /\ status'[run[s].job] = "RUNNING"
            /\ attemptCount'[run[s].job] = attemptCount[run[s].job] + 1
  PROVE  SoleInv'
<1> DEFINE j == run[s].job
<1>1. j \in Jobs /\ \A t \in Slots : Holds(t) => run[t].job \in Jobs
  BY DEF TypeOK, Holds
<1>2. \A t \in Slots : t # s /\ Holds(t) => run[t].job # j
  BY DEF SoleInv, HoldersInv
<1>3. \A w \in Workers : Taken(w) \subseteq Jobs /\ j \notin Taken(w)
  BY DEF TypeOK, SoleInv, TakenInv, Taken
<1>4. status[j] \in Held
  BY DEF SoleInv, HoldersInv
<1>5. HoldersInv'
  <2>1. \A t, u \in Slots : Holds(t)' /\ Holds(u)' /\ run'[t].job = run'[u].job => t = u
    BY <1>2 DEF SoleInv, HoldersInv, Holds
  <2>2. ASSUME NEW t \in Slots, Holds(t)'
        PROVE  /\ up[ProcOf(t)] /\ status'[run'[t].job] \in Held
               /\ claimedBy'[run'[t].job] \in {Row(t), None}
    <3>1. CASE t = s
      BY <2>2, <3>1 DEF SoleInv, HoldersInv, Holds
    <3>2. CASE t # s
      BY <1>1, <1>2, <2>2, <3>2 DEF SoleInv, HoldersInv, Holds
    <3> QED BY <3>1, <3>2
  <2> QED BY <2>1, <2>2 DEF HoldersInv, Row
<1>6. TakenInv'
  <2>1. \A w \in Workers : \A k \in Taken(w) : k \in Jobs /\ k # j
    BY <1>3
  <2>2. \A t \in Slots : Holds(t)' => Holds(t) /\ run'[t].job = run[t].job
    BY DEF Holds
  <2> QED BY <2>1, <2>2 DEF SoleInv, TakenInv, Taken
<1>7. RequeueInv'
  <2>1. \A c \in Clients : req[c].op = "requeue" => req[c].job \in Jobs /\ req[c].job # j
    BY <1>4 DEF TypeOK, SoleInv, RequeueInv, Held
  <2> QED BY <2>1 DEF SoleInv, RequeueInv
<1>8. BudgetInv'
  <2>1. \A k \in Jobs : k # j => (Below(k)' <=> Below(k))
    BY DEF Below, Exhausted
  <2>2. attemptCount' = attemptCount => \A k \in Jobs : Below(k)' <=> Below(k)
    BY DEF Below, Exhausted
  <2>3. \A k \in Jobs : status'[k] \in { "QUEUED", "SCHEDULED", "RETRY", "CLAIMED" } => Below(k)'
    BY <1>1, <2>1, <2>2 DEF SoleInv, BudgetInv
  <2>4. ASSUME NEW t \in Slots, run'[t].pc \in { "claimed", "verified" }
        PROVE  Below(run[t].job)' /\ run'[t].job = run[t].job
    <3>1. CASE t = s
      BY <1>1, <2>2, <2>4, <3>1 DEF SoleInv, BudgetInv
    <3>2. CASE t # s
      <4>1. Holds(t) /\ run[t].job \in Jobs /\ run[t].job # j
        BY <1>1, <1>2, <2>4, <3>2 DEF Holds
      <4>2. Below(run[t].job)
        BY <2>4, <3>2 DEF SoleInv, BudgetInv
      <4> QED BY <2>1, <3>2, <4>1, <4>2
    <3> QED BY <3>1, <3>2
  <2>5. \A w \in Workers : \A k \in rec[w].claimed : Below(k)'
    BY <1>3, <2>1 DEF SoleInv, BudgetInv, Taken
  <2>6. RetryBudget'
    <3>1. ASSUME run[s].pc = "verified", attemptCount'[j] = attemptCount[j] + 1,
                 deadLetter[j] # "requeued"
          PROVE  attemptCount'[j] <= MaxAttempts /\ attemptCount'[j] <= PolicyMaxAttempts
      <4>1. attemptCount[j] < MaxAttempts /\ attemptCount[j] < PolicyMaxAttempts
            /\ attemptCount[j] \in Nat
        BY <1>1, <3>1, NumbersAssumption DEF SoleInv, BudgetInv, Below, Exhausted, TypeOK
      <4> QED BY <3>1, <4>1, NumbersAssumption
    <3> QED BY <3>1 DEF SoleInv, BudgetInv, RetryBudget
  <2>7. \A t \in Slots : (run[t].pc \in { "claimed", "verified" } => Below(run[t].job))'
    BY <2>4 DEF Below, Exhausted
  <2> QED BY <2>3, <2>5, <2>6, <2>7 DEF BudgetInv
<1> QED BY <1>5, <1>6, <1>7, <1>8 DEF SoleInv

LEMMA RuntimeSole ==
  ASSUME TypeOK, TypeOK', SoleInv, NEW s \in Slots, Runtime(s)
  PROVE  SoleInv'
<1> USE DEF jobVars, tableVars, workerVars
<1>0. IdleRun.pc = "idle" /\ (Holds(s) => run[s].job \in Jobs /\ status[run[s].job] \in Held)
  BY DEF IdleRun, Holds, TypeOK, SoleInv, HoldersInv
<1>1. CASE claimNextJob(s)
  BY <1>1, ClaimSole
<1>2. CASE verifyOwnership(s) \/ finish(s) \/ abandon(s)
  <2>1. /\ Holds(s) /\ UNCHANGED << status, claimedBy, attemptCount, up, rec, req, deadLetter >>
        /\ \A t \in Slots : t # s => run'[t] = run[t]
        /\ run'[s].pc = "idle" \/ (run'[s].job = run[s].job)
        /\ run'[s].pc \in { "claimed", "verified" } => run[s].pc \in { "claimed", "verified" }
    BY <1>0, <1>2 DEF verifyOwnership, finish, abandon, TypeOK, Holds
  <2> QED BY <1>0, <2>1, HolderSole
<1>3. CASE startExecution(s)
  <2>1. /\ Holds(s) /\ UNCHANGED << claimedBy, up, rec, req, deadLetter >>
        /\ \A t \in Slots : t # s => run'[t] = run[t]
        /\ run'[s].job = run[s].job /\ run[s].pc = "verified" /\ run'[s].pc = "running"
    BY <1>3 DEF startExecution, TypeOK, Holds
  <2>2. /\ status'[run[s].job] = "RUNNING"
        /\ attemptCount'[run[s].job] = attemptCount[run[s].job] + 1
        /\ \A k \in Jobs : k # run[s].job =>
             status'[k] = status[k] /\ attemptCount'[k] = attemptCount[k]
    BY <1>0, <1>3, <2>1 DEF startExecution, nextAttempt, TypeOK
  <2> QED BY <2>1, <2>2, HolderSole DEF Held
<1>4. CASE recordSuccess(s) \/ recordFailure(s)
  <2>1. /\ Holds(s) /\ UNCHANGED << attemptCount, up, rec, req, deadLetter >>
        /\ \A t \in Slots : t # s => run'[t] = run[t]
        /\ clearClaim({run[s].job})
    BY <1>4 DEF recordSuccess, recordFailure, TypeOK, Holds
  <2>2. /\ claimedBy'[run[s].job] = None
        /\ \A k \in Jobs : k # run[s].job => claimedBy'[k] = claimedBy[k]
    BY <1>0, <2>1, ClearClaim DEF TypeOK
  <2>3. /\ \A k \in Jobs : k # run[s].job => status'[k] = status[k]
        /\ status'[run[s].job] \in { "COMPLETED", "FAILED" }
        /\ run'[s].pc = "idle" \/ (run'[s].pc = "completed" /\ run'[s].job = run[s].job
                                  /\ status'[run[s].job] = "COMPLETED")
    BY <1>0, <1>4, <2>1 DEF recordSuccess, recordFailure, TypeOK
  <2> QED BY <2>1, <2>2, <2>3, HolderSole DEF Held
<1> QED BY <1>1, <1>2, <1>3, <1>4 DEF Runtime

(* A write that concerns no held or taken job, and no job about to be requeued:
   those are FAILED, SCHEDULED or RETRY. *)
LEMMA WaitingSole ==
  ASSUME TypeOK, TypeOK', SoleInv, UNCHANGED << up, run, rec, req, claimedBy, attemptCount >>,
         \A j \in Jobs :
           \/ status'[j] = status[j]
           \/ /\ status[j] \in { "FAILED", "SCHEDULED", "RETRY" }
              /\ status'[j] \in { "QUEUED", "RETRY" } /\ Below(j)
           \/ status[j] = "FAILED" /\ status'[j] = "DEAD_LETTER",
         \A j \in Jobs : deadLetter'[j] = "requeued" <=> deadLetter[j] = "requeued"
  PROVE  SoleInv'
<1>1. \A s \in Slots : Holds(s) =>
        run[s].job \in Jobs /\ status'[run[s].job] = status[run[s].job]
  BY DEF TypeOK, SoleInv, HoldersInv, Holds, Held
<1>2. \A w \in Workers : \A j \in Taken(w) : j \in Jobs /\ status'[j] = status[j]
  BY DEF TypeOK, SoleInv, TakenInv, Taken
<1>3. \A j \in Jobs : Below(j)' <=> Below(j)
  BY DEF Below, Exhausted
<1>4. HoldersInv'
  BY <1>1 DEF SoleInv, HoldersInv, Holds
<1>5. TakenInv'
  BY <1>2 DEF SoleInv, TakenInv, Taken, Holds
<1>6. RequeueInv'
  BY DEF TypeOK, SoleInv, RequeueInv
<1>7. BudgetInv'
  <2>1. \A j \in Jobs : status'[j] \in { "QUEUED", "SCHEDULED", "RETRY", "CLAIMED" } => Below(j)'
    BY <1>3 DEF SoleInv, BudgetInv
  <2>2. \A s \in Slots : (run[s].pc \in { "claimed", "verified" } => Below(run[s].job))'
    BY <1>1, <1>3 DEF SoleInv, BudgetInv, Holds
  <2>3. \A w \in Workers : \A j \in rec[w].claimed : Below(j)'
    BY <1>2, <1>3 DEF SoleInv, BudgetInv, Taken
  <2>4. RetryBudget'
    BY DEF SoleInv, BudgetInv, RetryBudget
  <2> QED BY <2>1, <2>2, <2>3, <2>4 DEF BudgetInv
<1> QED BY <1>4, <1>5, <1>6, <1>7 DEF SoleInv

LEMMA TickSole ==
  ASSUME TypeOK, TypeOK', SoleInv, Tick \/ \E j \in Jobs : retryJob(j)
  PROVE  SoleInv'
<1> USE DEF jobVars, tableVars, workerVars, procVars
<1>1. CASE promoteDueScheduledJobs \/ promoteDueRetries
  <2>1. \A j \in Jobs :
          \/ status'[j] = status[j]
          \/ status[j] \in { "SCHEDULED", "RETRY" } /\ status'[j] = "QUEUED" /\ Below(j)
    BY <1>1 DEF promoteDueScheduledJobs, promoteDueRetries, SoleInv, BudgetInv
  <2> QED BY <1>1, <2>1, WaitingSole DEF promoteDueScheduledJobs, promoteDueRetries
<1>2. ASSUME NEW j \in Jobs, scheduleFailedJob(j) PROVE SoleInv'
  <2>1. \A k \in Jobs :
          \/ status'[k] = status[k]
          \/ status[k] = "FAILED" /\ status'[k] = "RETRY" /\ Below(k)
    BY <1>2 DEF scheduleFailedJob, TypeOK, Below
  <2> QED BY <1>2, <2>1, WaitingSole DEF scheduleFailedJob
<1>3. ASSUME NEW j \in Jobs, processDeadLetter(j) PROVE SoleInv'
  <2>1. \A k \in Jobs :
          \/ status'[k] = status[k]
          \/ status[k] = "FAILED" /\ status'[k] = "DEAD_LETTER"
    BY <1>3 DEF processDeadLetter, TypeOK
  <2>2. \A k \in Jobs : deadLetter'[k] = "requeued" <=> deadLetter[k] = "requeued"
    BY <1>3 DEF processDeadLetter, createEntry, TypeOK
  <2> QED BY <1>3, <2>1, <2>2, WaitingSole DEF processDeadLetter
<1> QED BY <1>1, <1>2, <1>3 DEF Tick, retryJob

(* Recovery reads jobs of a deserted row, whose holders died with it. *)
LEMMA LockSole ==
  ASSUME TypeOK, TypeOK', TimelyInv, SoleInv, NEW p \in Procs, NEW w \in Workers,
         lockStaleWorker(p, w)
  PROVE  SoleInv'
<1> USE DEF jobVars, tableVars, workerVars, procVars
<1>1. /\ isStale(w) /\ ~RowLocked(w) /\ Deserted(w) /\ Taken(w) = {}
      /\ UNCHANGED << status, claimedBy, attemptCount, up, run, req, deadLetter >>
  BY DEF lockStaleWorker, isStale, TimelyInv
<1>2. /\ rec'[w].claimed = { j \in Jobs : claimedBy[j] = w /\ status[j] = "CLAIMED" }
      /\ rec'[w].running = { j \in Jobs : claimedBy[j] = w /\ status[j] = "RUNNING" }
      /\ rec'[w].rows = {} /\ \A v \in Workers : v # w => rec'[v] = rec[v]
  BY DEF lockStaleWorker, TypeOK
<1>3. \A s \in Slots : Holds(s) => claimedBy[run[s].job] # w
  <2> SUFFICES ASSUME NEW s \in Slots, Holds(s), claimedBy[run[s].job] = w PROVE FALSE
    OBVIOUS
  <2>1. Row(s) = w /\ up[ProcOf(s)]
    BY NoneAssumption DEF SoleInv, HoldersInv
  <2> QED BY <1>1, <2>1 DEF Deserted, Row, ProcOf, Slots
<1>4. \A v \in Workers : \A j \in Taken(v) : claimedBy[j] # w
  BY <1>1, NoneAssumption DEF SoleInv, TakenInv
<1>5. TakenInv'
  <2>1. ASSUME NEW v \in Workers, NEW j \in Taken(v)'
        PROVE  /\ status[j] \in { "CLAIMED", "RUNNING", "CANCELLED" }
               /\ claimedBy[j] \in {v, None}
               /\ \A s \in Slots : Holds(s) => run[s].job # j
               /\ \A u \in Workers : j \in Taken(u)' => u = v
    <3>1. CASE v = w
      <4>1. claimedBy[j] = w /\ status[j] \in { "CLAIMED", "RUNNING" }
        BY <1>2, <2>1, <3>1 DEF Taken
      <4>2. \A u \in Workers : u # w => j \notin Taken(u)'
        BY <1>2, <1>4, <4>1 DEF Taken
      <4> QED BY <1>3, <3>1, <4>1, <4>2
    <3>2. CASE v # w
      <4>1. j \in Taken(v)
        BY <1>2, <2>1, <3>2 DEF Taken
      <4>2. claimedBy[j] # w
        BY <1>4, <4>1
      <4>3. j \notin Taken(w)'
        BY <1>2, <4>2 DEF Taken
      <4>4. \A u \in Workers : j \in Taken(u)' => j \in Taken(u) \/ u = w
        BY <1>2 DEF Taken
      <4> QED BY <4>1, <4>3, <4>4 DEF SoleInv, TakenInv
    <3> QED BY <3>1, <3>2
  <2>2. \A v \in Workers : \A k \in rec'[v].rows : k[1] \in rec'[v].running
    BY <1>2 DEF SoleInv, TakenInv
  <2> QED BY <1>1, <2>1, <2>2 DEF TakenInv, Holds
<1>6. HoldersInv' /\ RequeueInv'
  BY <1>1 DEF SoleInv, HoldersInv, RequeueInv, Holds, Row
<1>7. BudgetInv'
  <2>1. \A v \in Workers : \A j \in rec'[v].claimed : Below(j)
    BY <1>2 DEF SoleInv, BudgetInv
  <2> QED BY <1>1, <2>1 DEF SoleInv, BudgetInv, Below, Exhausted, RetryBudget
<1> QED BY <1>5, <1>6, <1>7 DEF SoleInv

(* What was read is forgotten, or looked up. *)
LEMMA ForgetSole ==
  ASSUME TypeOK, SoleInv,
         UNCHANGED << status, claimedBy, attemptCount, req, deadLetter >>,
         \A w \in Workers :
           /\ rec'[w].claimed \subseteq rec[w].claimed
           /\ rec'[w].running \subseteq rec[w].running
           /\ \A k \in rec'[w].rows : k[1] \in rec'[w].running,
         \A s \in Slots : \/ run'[s] = run[s] /\ up'[ProcOf(s)] = up[ProcOf(s)]
                          \/ run'[s].pc = "idle"
  PROVE  SoleInv'
<1>1. \A s \in Slots : Holds(s)' => Holds(s) /\ run'[s] = run[s]
                                     /\ up'[ProcOf(s)] = up[ProcOf(s)]
  BY DEF Holds
<1>2. \A w \in Workers : Taken(w)' \subseteq Taken(w)
  BY DEF Taken
<1>3. HoldersInv'
  BY <1>1 DEF SoleInv, HoldersInv, Row
<1>4. TakenInv'
  BY <1>1, <1>2 DEF SoleInv, TakenInv
<1>5. RequeueInv'
  BY DEF SoleInv, RequeueInv
<1>6. BudgetInv'
  <2>1. \A s \in Slots : run'[s].pc \in { "claimed", "verified" } => Below(run'[s].job)
    BY DEF SoleInv, BudgetInv
  <2> QED BY <2>1 DEF SoleInv, BudgetInv, Below, Exhausted, RetryBudget
<1> QED BY <1>3, <1>4, <1>5, <1>6 DEF SoleInv

(* A recovery puts back and fails jobs that nobody holds. *)
LEMMA CommitSole ==
  ASSUME TypeOK, TypeOK', SoleInv, NEW w \in Workers, commitRecovery(w)
  PROVE  SoleInv'
<1> USE DEF jobVars, tableVars, workerVars, procVars
<1> DEFINE failed == { k[1] : k \in rec[w].rows }
<1>1. /\ status' = [j \in Jobs |-> IF j \in rec[w].claimed THEN "QUEUED"
                                   ELSE IF j \in failed THEN "FAILED" ELSE status[j]]
      /\ clearClaim(rec[w].claimed \cup failed)
      /\ UNCHANGED << attemptCount, up, run, req, deadLetter >>
  BY DEF commitRecovery
<1>2. failed \subseteq Taken(w)
  BY DEF SoleInv, TakenInv, Taken
<1>3. /\ rec'[w] = Closed /\ \A v \in Workers : v # w => rec'[v] = rec[v]
      /\ Taken(w)' = {} /\ \A v \in Workers : v # w => Taken(v)' = Taken(v)
  <2>1. rec'[w] = Closed /\ \A v \in Workers : v # w => rec'[v] = rec[v]
    BY DEF commitRecovery, TypeOK
  <2> QED BY <2>1 DEF Taken, Closed
<1> HIDE DEF failed
<1>4. \A j \in Jobs : j \notin Taken(w) => status'[j] = status[j] /\ claimedBy'[j] = claimedBy[j]
  BY <1>1, <1>2, ClearClaim DEF Taken, TypeOK
<1>5. \A s \in Slots : Holds(s) => run[s].job \in Jobs /\ run[s].job \notin Taken(w)
  BY DEF TypeOK, SoleInv, TakenInv, Holds
<1>6. \A v \in Workers : v # w => \A j \in Taken(v) : j \in Jobs /\ j \notin Taken(w)
  BY DEF TypeOK, SoleInv, TakenInv, Taken
<1>7. HoldersInv'
  BY <1>1, <1>4, <1>5 DEF SoleInv, HoldersInv, Holds, Row
<1>8. TakenInv'
  <2>1. \A v \in Workers : \A k \in rec'[v].rows : k[1] \in rec'[v].running
    BY <1>3 DEF SoleInv, TakenInv, Closed
  <2>2. ASSUME NEW v \in Workers, NEW j \in Taken(v)'
        PROVE  /\ status'[j] \in { "CLAIMED", "RUNNING", "CANCELLED" }
               /\ claimedBy'[j] \in {v, None}
               /\ \A s \in Slots : Holds(s) => run[s].job # j
               /\ \A u \in Workers : j \in Taken(u)' => u = v
    <3>1. v # w /\ j \in Taken(v)
      BY <1>3, <2>2
    <3>2. status'[j] = status[j] /\ claimedBy'[j] = claimedBy[j]
      BY <1>4, <1>6, <3>1
    <3>3. \A u \in Workers : j \in Taken(u)' => j \in Taken(u)
      BY <1>3
    <3> QED BY <3>1, <3>2, <3>3 DEF SoleInv, TakenInv
  <2> QED BY <1>1, <2>1, <2>2 DEF TakenInv, Holds
<1>9. RequeueInv'
  <2>1. \A j \in Taken(w) : status[j] # "DEAD_LETTER"
    BY DEF SoleInv, TakenInv
  <2> QED BY <1>1, <1>4, <2>1 DEF TypeOK, SoleInv, RequeueInv
<1>10. BudgetInv'
  <2>1. \A j \in Jobs : status'[j] \in { "QUEUED", "SCHEDULED", "RETRY", "CLAIMED" } => Below(j)
    BY <1>1 DEF SoleInv, BudgetInv
  <2>2. \A v \in Workers : \A j \in rec'[v].claimed : Below(j)
    BY <1>3 DEF SoleInv, BudgetInv, Closed
  <2> QED BY <1>1, <2>1, <2>2 DEF SoleInv, BudgetInv, Below, Exhausted, RetryBudget
<1> QED BY <1>7, <1>8, <1>9, <1>10 DEF SoleInv

LEMMA RecoverySole ==
  ASSUME TypeOK, TypeOK', TimelyInv, SoleInv, NEW w \in Workers, Recovery(w)
  PROVE  SoleInv'
<1> USE DEF jobVars, tableVars, workerVars, procVars
<1>1. CASE \E p \in Procs : lockStaleWorker(p, w)
  BY <1>1, LockSole
<1>2. CASE findExecutions(w)
  <2>1. /\ rec'[w].claimed = rec[w].claimed /\ rec'[w].running = rec[w].running
        /\ rec'[w].rows = activeExecutions(w, rec[w].running)
        /\ \A v \in Workers : v # w => rec'[v] = rec[v]
    BY <1>2 DEF findExecutions, TypeOK
  <2>2. \A k \in activeExecutions(w, rec[w].running) : k[1] \in rec[w].running
    BY DEF activeExecutions
  <2>3. \A v \in Workers : /\ rec'[v].claimed \subseteq rec[v].claimed
                           /\ rec'[v].running \subseteq rec[v].running
                           /\ \A k \in rec'[v].rows : k[1] \in rec'[v].running
    BY <2>1, <2>2 DEF SoleInv, TakenInv
  <2> QED BY <1>2, <2>3, ForgetSole DEF findExecutions
<1>3. CASE commitRecovery(w)
  BY <1>3, CommitSole
<1>4. CASE abortRecovery(w)
  <2>1. \A v \in Workers : /\ rec'[v].claimed \subseteq rec[v].claimed
                           /\ rec'[v].running \subseteq rec[v].running
                           /\ \A k \in rec'[v].rows : k[1] \in rec'[v].running
    BY <1>4 DEF abortRecovery, Closed, TypeOK, SoleInv, TakenInv
  <2> QED BY <1>4, <2>1, ForgetSole DEF abortRecovery
<1> QED BY <1>1, <1>2, <1>3, <1>4 DEF Recovery

(* A cancel may strike a job that is held or taken: it stays so.  A requeue
   strikes a job that is dead, since nobody else requeues. *)
LEMMA ApiSole ==
  ASSUME OneRequeueAtOnce, TypeOK, TypeOK', SoleInv, NEW c \in Clients,
         NEW j \in Jobs, j = req[c].job, NEW st,
         \/ st = "CANCELLED" /\ writeCancelled(c)
         \/ st = "QUEUED" /\ writeRequeued(c)
  PROVE  SoleInv'
<1> USE DEF jobVars, tableVars, workerVars, procVars
<1>0. /\ Idle.op = "idle" /\ req[c].op \in {"cancel", "requeue"}
      /\ (st = "QUEUED" => req[c].op = "requeue")
  BY DEF Idle, writeCancelled, writeRequeued
<1>1. /\ status' = [status EXCEPT ![j] = st] /\ req' = [req EXCEPT ![c] = Idle]
      /\ clearClaim({j}) /\ UNCHANGED << attemptCount, up, run, rec >>
      /\ deadLetter' = IF st = "QUEUED" THEN [deadLetter EXCEPT ![j] = "requeued"]
                                         ELSE deadLetter
  BY DEF writeCancelled, writeRequeued
<1>2. st = "QUEUED" => status[j] = "DEAD_LETTER"
  BY <1>0 DEF SoleInv, RequeueInv
<1>3. st \in {"CANCELLED", "QUEUED"}
  OBVIOUS
<1>4. /\ status'[j] = st /\ claimedBy'[j] = None
      /\ \A k \in Jobs : k # j => status'[k] = status[k] /\ claimedBy'[k] = claimedBy[k]
  BY <1>0, <1>1, ClearClaim DEF TypeOK
<1>5. \A s \in Slots : Holds(s) => run[s].job \in Jobs /\ (run[s].job = j => st = "CANCELLED")
  BY <1>2, <1>3 DEF TypeOK, SoleInv, HoldersInv, Holds, Held
<1>6. \A w \in Workers : \A k \in Taken(w) : k \in Jobs /\ (k = j => st = "CANCELLED")
  BY <1>2, <1>3 DEF TypeOK, SoleInv, TakenInv, Taken
<1>7. HoldersInv'
  BY <1>1, <1>4, <1>5 DEF SoleInv, HoldersInv, Holds, Held, Row
<1>8. TakenInv'
  BY <1>1, <1>4, <1>6 DEF SoleInv, TakenInv, Taken, Holds
<1>9. RequeueInv'
  <2> SUFFICES ASSUME NEW d \in Clients, req'[d].op = "requeue"
               PROVE  "requeue" \in ApiOps /\ status'[req'[d].job] = "DEAD_LETTER"
    BY DEF RequeueInv
  <2>1. d # c /\ req[d].op = "requeue"
    BY <1>0, <1>1 DEF TypeOK
  <2> QED BY <2>1, <1>0, <1>1 DEF OneRequeueAtOnce, SoleInv, RequeueInv
<1>10. BudgetInv'
  <2>1. \A k \in Jobs : Below(k) => Below(k)'
    BY <1>1 DEF Below, Exhausted, TypeOK
  <2>2. st = "QUEUED" => Below(j)'
    BY <1>1 DEF Below, TypeOK
  <2>3. \A k \in Jobs : status'[k] \in { "QUEUED", "SCHEDULED", "RETRY", "CLAIMED" } => Below(k)'
    BY <1>3, <1>4, <2>1, <2>2 DEF SoleInv, BudgetInv
  <2>4. \A s \in Slots : run[s].pc \in { "claimed", "verified" } => Below(run[s].job)'
    <3>1. \A s \in Slots : run[s].pc \in { "claimed", "verified" } =>
             /\ run[s].job \in Jobs
             /\ deadLetter[run[s].job] = "requeued" \/ ~Exhausted(run[s].job)
      BY <1>5 DEF SoleInv, BudgetInv, Holds, Below, TypeOK
    <3> QED BY <1>1, <3>1 DEF Below, Exhausted, TypeOK
  <2>5. \A w \in Workers : \A k \in rec[w].claimed : Below(k)'
    BY <1>6, <2>1 DEF SoleInv, BudgetInv, Taken
  <2>6. RetryBudget'
    BY <1>1 DEF SoleInv, BudgetInv, RetryBudget, TypeOK
  <2>7. \A s \in Slots : (run[s].pc \in { "claimed", "verified" } => Below(run[s].job))'
    BY <1>1, <2>4 DEF Below, Exhausted
  <2> QED BY <1>1, <2>3, <2>5, <2>6, <2>7 DEF BudgetInv
<1> QED BY <1>7, <1>8, <1>9, <1>10 DEF SoleInv

(* What only reads a job, or is about the process or its Worker row. *)
LEMMA OtherSole ==
  ASSUME TypeOK, TypeOK', SoleInv,
         \/ \E c \in Clients, j \in Jobs : readForCancel(c, j) \/ readForRequeue(c, j)
         \/ \E p \in Procs : crash(p) \/ restart(p)
         \/ UNCHANGED << status, claimedBy, attemptCount, deadLetter, up, run, rec, req >>
  PROVE  SoleInv'
<1> USE DEF jobVars, tableVars, workerVars, procVars
<1>1. ASSUME NEW c \in Clients, NEW j \in Jobs, readForCancel(c, j) \/ readForRequeue(c, j)
      PROVE  SoleInv'
  <2>1. UNCHANGED << status, claimedBy, attemptCount, deadLetter, up, run, rec >>
    BY <1>1 DEF readForCancel, readForRequeue
  <2>2. RequeueInv'
    BY <1>1 DEF readForCancel, readForRequeue, TypeOK, SoleInv, RequeueInv
  <2> QED BY <2>1, <2>2 DEF SoleInv, HoldersInv, TakenInv, BudgetInv, Holds, Taken, Row,
                            Below, Exhausted, RetryBudget
<1>2. ASSUME NEW p \in Procs, crash(p) PROVE SoleInv'
  <2>1. \A w \in Workers : /\ rec'[w].claimed \subseteq rec[w].claimed
                           /\ rec'[w].running \subseteq rec[w].running
                           /\ \A k \in rec'[w].rows : k[1] \in rec'[w].running
    BY <1>2 DEF crash, Closed, SoleInv, TakenInv
  <2>2. \A s \in Slots : \/ run'[s] = run[s] /\ up'[ProcOf(s)] = up[ProcOf(s)]
                         \/ run'[s].pc = "idle"
    BY <1>2 DEF crash, IdleRun, TypeOK, ProcOf, Slots
  <2> QED BY <1>2, <2>1, <2>2, ForgetSole DEF crash
<1>3. ASSUME NEW p \in Procs, restart(p) PROVE SoleInv'
  <2>1. UNCHANGED << status, claimedBy, attemptCount, deadLetter, run, rec, req >>
        /\ up' = [up EXCEPT ![p] = TRUE]
    BY <1>3 DEF restart
  <2>2. \A s \in Slots : up[ProcOf(s)] => up'[ProcOf(s)]
    BY <2>1 DEF TypeOK, ProcOf, Slots
  <2> QED BY <2>1, <2>2 DEF SoleInv, HoldersInv, TakenInv, RequeueInv, BudgetInv, Holds,
                            Taken, Row, Below, Exhausted, RetryBudget
<1>4. CASE UNCHANGED << status, claimedBy, attemptCount, deadLetter, up, run, rec, req >>
  BY <1>4 DEF SoleInv, HoldersInv, TakenInv, RequeueInv, BudgetInv, Holds, Taken, Row,
              Below, Exhausted, RetryBudget
<1> QED BY <1>1, <1>2, <1>3, <1>4

LEMMA NextSole ==
  ASSUME OneRequeueAtOnce, TypeOK, TypeOK', TimelyInv, SoleInv, [Next]_vars
  PROVE  SoleInv'
<1> USE DEF jobVars, tableVars, workerVars, procVars
<1>1. ASSUME NEW s \in Slots, Runtime(s) PROVE SoleInv'
  BY <1>1, RuntimeSole
<1>2. ASSUME NEW w \in Workers, Recovery(w) PROVE SoleInv'
  BY <1>2, RecoverySole
<1>3. CASE Tick
  BY <1>3, TickSole
<1>4. CASE Api
  <2>1. ASSUME NEW c \in Clients, writeCancelled(c) \/ writeRequeued(c) PROVE SoleInv'
    <3>1. PICK j \in Jobs : j = req[c].job
      BY <2>1 DEF TypeOK, Idle, writeCancelled, writeRequeued
    <3> QED BY <2>1, <3>1, ApiSole
  <2>2. CASE \E j \in Jobs : retryJob(j)
    BY <2>2, TickSole
  <2>3. CASE (\E w \in Workers : postHeartbeat(w)) \/ setPaused
    BY <2>3, OtherSole DEF postHeartbeat, setPaused
  <2>4. CASE \E c \in Clients, j \in Jobs : readForCancel(c, j) \/ readForRequeue(c, j)
    BY <2>4, OtherSole
  <2> QED BY <1>4, <2>1, <2>2, <2>3, <2>4 DEF Api
<1>5. CASE Environment
  <2>1. CASE \E p \in Procs : crash(p) \/ restart(p)
    BY <2>1, OtherSole
  <2>2. CASE (\E w \in Workers : heartbeatTimeout(w)) \/ \E j \in Jobs : becomeDue(j)
    BY <2>2, OtherSole DEF heartbeatTimeout, becomeDue
  <2> QED BY <1>5, <2>1, <2>2 DEF Environment
<1>6. CASE (\E p \in Procs : recordWorkerHeartbeat(p)) \/ UNCHANGED vars
  BY <1>6, OtherSole DEF recordWorkerHeartbeat, vars
<1> QED BY <1>1, <1>2, <1>3, <1>4, <1>5, <1>6 DEF Next

LEMMA InitSole == Init => TimelyInv /\ SoleInv
<1> SUFFICES ASSUME Init PROVE TimelyInv /\ SoleInv
  OBVIOUS
<1>1. \A s \in Slots : run[s].pc = "idle"
  BY DEF Init, IdleRun
<1>2. \A w \in Workers : ~RowLocked(w) /\ Taken(w) = {} /\ rec[w].rows = {} /\ ~stale[w]
                         /\ rec[w].claimed = {}
  BY DEF Init, Closed, RowLocked, Taken
<1>3. \A c \in Clients : req[c].op = "idle"
  BY DEF Init, Idle
<1>4. \A j \in Jobs : attemptCount[j] = 0
  BY DEF Init
<1>5. BudgetInv
  BY <1>1, <1>2, <1>4, NumbersAssumption DEF BudgetInv, Below, Exhausted, RetryBudget
<1> QED BY <1>1, <1>2, <1>3, <1>5
        DEF TimelyInv, SoleInv, HoldersInv, TakenInv, RequeueInv, Holds

(* core/jobClaimer.ts, core/workerRecovery.ts: at most one handler works on a job
   at a time, through crashes, restarts, recoveries, cancels, failing awaits and
   requeues, also where processes share a Worker row. *)
THEOREM OneHandlerPerJob ==
  HeartbeatsInTime /\ OneRequeueAtOnce => (Spec => []NoDoubleExecution)
<1> SUFFICES ASSUME HeartbeatsInTime, OneRequeueAtOnce PROVE Spec => []NoDoubleExecution
  OBVIOUS
<1>1. TypeOK /\ TypeOK' /\ TimelyInv /\ SoleInv /\ [Next]_vars => TimelyInv' /\ SoleInv'
  BY NextTimely, NextSole
<1>2. SoleInv => NoDoubleExecution
  BY DEF SoleInv, HoldersInv, Holds, NoDoubleExecution
<1> QED BY <1>1, <1>2, InitSole, TypeCorrect, PTL DEF Spec

(* core/retryProcessor.ts, core/jobClaimer.ts: a job that no operator requeued is
   never started more often than both limits allow. *)
THEOREM BudgetIsKept ==
  HeartbeatsInTime /\ OneRequeueAtOnce => (Spec => []RetryBudget)
<1> SUFFICES ASSUME HeartbeatsInTime, OneRequeueAtOnce PROVE Spec => []RetryBudget
  OBVIOUS
<1>1. TypeOK /\ TypeOK' /\ TimelyInv /\ SoleInv /\ [Next]_vars => TimelyInv' /\ SoleInv'
  BY NextTimely, NextSole
<1>2. SoleInv => RetryBudget
  BY DEF SoleInv, BudgetInv
<1> QED BY <1>1, <1>2, InitSole, TypeCorrect, PTL DEF Spec
-----------------------------------------------------------------------------
(* Where a job's status may go.  No write checks the status, so each rests on
   what its reader saw; that is still so at the write, unless the job was
   cancelled meanwhile (AsReadInv). *)
NoCancels == "cancel" \notin ApiOps
NoErrors == "error" \notin Faults

WasRead == [claimed |-> "CLAIMED", verified |-> "CLAIMED",
            running |-> "RUNNING", completed |-> "COMPLETED"]

AsReadInv ==
  /\ \A s \in Slots : Holds(s) => status[run[s].job] \in { WasRead[run[s].pc], "CANCELLED" }
  /\ \A w \in Workers :
       /\ \A j \in rec[w].claimed : status[j] \in { "CLAIMED", "CANCELLED" }
       /\ \A j \in rec[w].running : status[j] \in { "RUNNING", "CANCELLED" }

CancelInv == NoCancels => /\ \A j \in Jobs : status[j] # "CANCELLED"
                          /\ \A c \in Clients : req[c].op # "cancel"

KnownMoves == \A j \in Jobs : \/ status'[j] = status[j]
                              \/ canTransition(status[j], status'[j])
                              \/ Documented!requeued(j)
                              \/ deviates(j)

LEMMA NextCancel ==
  ASSUME TypeOK, CancelInv, [Next]_vars
  PROVE  CancelInv'
<1> SUFFICES ASSUME NoCancels
             PROVE  /\ \A j \in Jobs : status'[j] # "CANCELLED"
                    /\ \A c \in Clients : req'[c].op # "cancel"
  BY DEF CancelInv, NoCancels
<1> USE DEF jobVars, tableVars, workerVars, procVars, CancelInv, NoCancels
<1>0. status \in [Jobs -> JobStatus]
      /\ req \in [Clients -> [op : {"idle", "cancel", "requeue"}, job : Jobs \cup {NoJob}]]
  BY DEF TypeOK
<1>1. ASSUME NEW s \in Slots, Runtime(s)
      PROVE  req' = req /\ \A j \in Jobs : status'[j] # "CANCELLED"
  BY <1>0, <1>1 DEF Runtime, claimNextJob, verifyOwnership, startExecution, recordSuccess,
                    finish, recordFailure, abandon
<1>2. ASSUME NEW w \in Workers, Recovery(w)
      PROVE  req' = req /\ \A j \in Jobs : status'[j] # "CANCELLED"
  BY <1>2 DEF Recovery, lockStaleWorker, findExecutions, commitRecovery, abortRecovery
<1>3. CASE Tick \/ \E j \in Jobs : retryJob(j)
  BY <1>0, <1>3 DEF Tick, retryJob, promoteDueScheduledJobs, promoteDueRetries,
                    scheduleFailedJob, processDeadLetter
<1>4. CASE Api
  <2>1. ASSUME NEW c \in Clients, writeRequeued(c) PROVE CancelInv'
    BY <1>0, <2>1 DEF writeRequeued, Idle
  <2>2. ASSUME NEW c \in Clients, NEW j \in Jobs, readForRequeue(c, j) PROVE CancelInv'
    BY <1>0, <2>2 DEF readForRequeue
  <2>3. \A c \in Clients : ~writeCancelled(c) /\ \A j \in Jobs : ~readForCancel(c, j)
    BY DEF writeCancelled, readForCancel
  <2>4. CASE (\E w \in Workers : postHeartbeat(w)) \/ setPaused
    BY <2>4 DEF postHeartbeat, setPaused
  <2> QED BY <1>3, <1>4, <2>1, <2>2, <2>3, <2>4 DEF Api
<1>5. CASE Environment \/ (\E p \in Procs : recordWorkerHeartbeat(p)) \/ UNCHANGED vars
  BY <1>5 DEF Environment, heartbeatTimeout, becomeDue, crash, restart,
              recordWorkerHeartbeat, vars
<1> QED BY <1>1, <1>2, <1>3, <1>4, <1>5 DEF Next

LEMMA RuntimeAsRead ==
  ASSUME TypeOK, TypeOK', SoleInv, AsReadInv, CancelInv, NEW s \in Slots, Runtime(s)
  PROVE  AsReadInv' /\ KnownMoves
<1> USE DEF jobVars, tableVars, workerVars, procVars
<1>0. /\ \A t \in Slots : Holds(t) => run[t].job \in Jobs /\ status[run[t].job] \in Held
      /\ \A t \in Slots : Holds(s) /\ t # s /\ Holds(t) => run[t].job # run[s].job
      /\ \A w \in Workers : \A k \in Taken(w) :
           /\ status[k] \in { "CLAIMED", "RUNNING", "CANCELLED" }
           /\ Holds(s) => run[s].job # k
  BY DEF SoleInv, HoldersInv, TakenInv, TypeOK, Holds
<1>00. /\ run \in [Slots -> [pc : RunPCs, job : Jobs \cup {NoJob}, attempt : Nat]]
       /\ status \in [Jobs -> JobStatus]
  BY DEF TypeOK
(* s alone moves, to pc with its job i, whose status becomes st. *)
<1>1. ASSUME NEW i \in Jobs, NEW st, status' = [status EXCEPT ![i] = st], rec' = rec,
             \A t \in Slots : t # s => run'[t] = run[t] /\ (Holds(t) => run[t].job # i),
             \A w \in Workers : i \notin Taken(w),
             Holds(s)' => run'[s].job = i /\ WasRead[run'[s].pc] = st
      PROVE  AsReadInv'
  <2>1. status'[i] = st /\ \A k \in Jobs : k # i => status'[k] = status[k]
    BY <1>00, <1>1
  <2>2. \A t \in Slots : Holds(t)' => status'[run'[t].job] \in { WasRead[run'[t].pc], "CANCELLED" }
    <3>1. ASSUME NEW t \in Slots, t # s, Holds(t)'
          PROVE  status'[run'[t].job] \in { WasRead[run'[t].pc], "CANCELLED" }
      <4>1. run'[t] = run[t] /\ Holds(t) /\ run[t].job # i /\ run[t].job \in Jobs
        BY <1>0, <1>1, <3>1 DEF Holds
      <4> QED BY <2>1, <4>1 DEF AsReadInv
    <3> QED BY <1>1, <2>1, <3>1
  <2>3. \A w \in Workers : \A k \in Taken(w) : k \in Jobs /\ k # i
    BY <1>1 DEF TypeOK, Taken
  <2> QED BY <1>1, <2>1, <2>2, <2>3 DEF AsReadInv, Taken
<1>2. CASE claimNextJob(s)
  <2>1. PICK j \in Jobs :
          /\ status[j] = "QUEUED" /\ status' = [status EXCEPT ![j] = "CLAIMED"]
          /\ run' = [run EXCEPT ![s] = [pc |-> "claimed", job |-> j, attempt |-> 0]]
    BY <1>2 DEF claimNextJob, Eligible
  <2>2. \A t \in Slots : t # s => run'[t] = run[t] /\ (Holds(t) => run[t].job # j)
    BY <1>0, <1>00, <2>1 DEF Held
  <2>3. \A w \in Workers : j \notin Taken(w)
    BY <1>0, <2>1
  <2>4. run'[s].pc = "claimed" /\ run'[s].job = j /\ WasRead["claimed"] = "CLAIMED"
    BY <1>00, <2>1 DEF WasRead
  <2>5. AsReadInv'
    BY <1>1, <1>2, <2>1, <2>2, <2>3, <2>4 DEF claimNextJob
  <2> QED BY <1>00, <2>1, <2>5 DEF KnownMoves, canTransition, transitions
<1>3. CASE verifyOwnership(s) \/ finish(s) \/ abandon(s)
  <2>1. /\ status' = status /\ rec' = rec
        /\ \A t \in Slots : t # s => run'[t] = run[t]
        /\ \/ run'[s].pc = "idle"
           \/ /\ run[s].pc = "claimed" /\ run'[s].pc = "verified"
              /\ run'[s].job = run[s].job
    <3>1. CASE verifyOwnership(s)
      <4>1. run' = [run EXCEPT ![s] = IF ownsClaim(run[s].job, Row(s))
                                      THEN [run[s] EXCEPT !.pc = "verified"] ELSE IdleRun]
        BY <3>1 DEF verifyOwnership
      <4> QED BY <1>00, <3>1, <4>1 DEF verifyOwnership, IdleRun
    <3>2. CASE finish(s) \/ abandon(s)
      BY <1>00, <3>2 DEF finish, abandon, IdleRun
    <3> QED BY <1>3, <3>1, <3>2
  <2>2. WasRead["verified"] = "CLAIMED" /\ WasRead["claimed"] = "CLAIMED"
    BY DEF WasRead
  <2> QED BY <2>1, <2>2 DEF AsReadInv, Holds, KnownMoves
<1>4. CASE startExecution(s) \/ recordSuccess(s) \/ recordFailure(s)
  <2> DEFINE st == CASE run'[s].pc = "running" -> "RUNNING"
                     [] run'[s].pc = "completed" -> "COMPLETED"
                     [] OTHER -> "FAILED"
  <2>1. /\ Holds(s) /\ run[s].job \in Jobs /\ rec' = rec
        /\ \A t \in Slots : t # s => run'[t] = run[t]
    BY <1>0, <1>00, <1>4 DEF startExecution, recordSuccess, recordFailure, Holds
  <2>2. /\ status' = [status EXCEPT ![run[s].job] = st]
        /\ \/ run[s].pc = "verified" /\ run'[s].pc = "running" /\ st = "RUNNING"
           \/ run[s].pc = "running" /\ run'[s].pc = "completed" /\ st = "COMPLETED"
           \/ run[s].pc = "running" /\ run'[s].pc = "idle" /\ st = "FAILED"
           \/ /\ run[s].pc = "completed" /\ run'[s].pc = "idle" /\ st = "FAILED"
              /\ "error" \in Faults
        /\ Holds(s)' => run'[s].job = run[s].job
    BY <1>00, <1>4 DEF startExecution, recordSuccess, recordFailure, IdleRun, Holds
  <2> HIDE DEF st
  <2>3. /\ WasRead["verified"] = "CLAIMED" /\ WasRead["running"] = "RUNNING"
        /\ WasRead["completed"] = "COMPLETED"
    BY DEF WasRead
  <2>4. AsReadInv'
    <3>1. Holds(s)' => WasRead[run'[s].pc] = st
      BY <2>2, <2>3 DEF Holds
    <3>2. \A w \in Workers : run[s].job \notin Taken(w)
      BY <1>0, <2>1
    <3> QED BY <1>0, <1>1, <2>1, <2>2, <3>1, <3>2
  <2>5. status[run[s].job] \in { WasRead[run[s].pc], "CANCELLED" }
        /\ (status[run[s].job] = "CANCELLED" => "cancel" \in ApiOps)
    BY <2>1 DEF AsReadInv, CancelInv, NoCancels
  <2>6. /\ status'[run[s].job] = st
        /\ \A k \in Jobs : k # run[s].job => status'[k] = status[k]
    BY <1>00, <2>1, <2>2
  <2>7. \/ canTransition(status[run[s].job], st)
        \/ deviates(run[s].job)
    BY <2>2, <2>3, <2>5, <2>6 DEF canTransition, transitions, deviates
  <2> QED BY <2>4, <2>6, <2>7 DEF KnownMoves
<1> QED BY <1>2, <1>3, <1>4 DEF Runtime

LEMMA RecoveryAsRead ==
  ASSUME TypeOK, TypeOK', SoleInv, AsReadInv, CancelInv, NEW w \in Workers, Recovery(w)
  PROVE  AsReadInv' /\ KnownMoves
<1> USE DEF jobVars, tableVars, workerVars, procVars
<1>1. CASE (\E p \in Procs : lockStaleWorker(p, w)) \/ findExecutions(w) \/ abortRecovery(w)
  <2>1. /\ UNCHANGED << status, run >>
        /\ \A v \in Workers : v # w => rec'[v] = rec[v]
    BY <1>1 DEF lockStaleWorker, findExecutions, abortRecovery, TypeOK
  <2>2. /\ \A j \in rec'[w].claimed : status[j] \in { "CLAIMED", "CANCELLED" }
        /\ \A j \in rec'[w].running : status[j] \in { "RUNNING", "CANCELLED" }
    BY <1>1 DEF lockStaleWorker, findExecutions, abortRecovery, Closed, TypeOK, AsReadInv
  <2> QED BY <2>1, <2>2 DEF AsReadInv, KnownMoves, Holds
<1>2. CASE commitRecovery(w)
  <2> DEFINE failed == { k[1] : k \in rec[w].rows }
  <2>1. failed \subseteq rec[w].running
    BY DEF SoleInv, TakenInv
  <2>2. /\ status' = [j \in Jobs |-> IF j \in rec[w].claimed THEN "QUEUED"
                                     ELSE IF j \in failed THEN "FAILED" ELSE status[j]]
        /\ run' = run
    BY <1>2 DEF commitRecovery
  <2>3. /\ rec'[w] = Closed /\ \A v \in Workers : v # w => rec'[v] = rec[v]
    BY <1>2 DEF commitRecovery, TypeOK
  <2> HIDE DEF failed
  <2>4. /\ \A s \in Slots : Holds(s) => run[s].job \in Jobs /\ run[s].job \notin Taken(w)
        /\ \A v \in Workers : v # w => \A j \in Taken(v) : j \in Jobs /\ j \notin Taken(w)
    BY DEF SoleInv, TakenInv, TypeOK, Holds, Taken
  <2>5. \A j \in Jobs : j \notin Taken(w) => status'[j] = status[j]
    BY <2>1, <2>2 DEF Taken
  <2>6. \A s \in Slots : Holds(s)' => status'[run'[s].job] \in { WasRead[run'[s].pc], "CANCELLED" }
    BY <2>2, <2>4, <2>5 DEF AsReadInv, Holds
  <2>7. \A v \in Workers :
          /\ \A j \in rec'[v].claimed : status'[j] \in { "CLAIMED", "CANCELLED" }
          /\ \A j \in rec'[v].running : status'[j] \in { "RUNNING", "CANCELLED" }
    BY <2>3, <2>4, <2>5 DEF AsReadInv, Closed, Taken
  <2>8. \A j \in Jobs :
          \/ status'[j] = status[j]
          \/ status[j] \in { "CLAIMED", "CANCELLED" } /\ status'[j] = "QUEUED"
          \/ status[j] \in { "RUNNING", "CANCELLED" } /\ status'[j] = "FAILED"
    BY <2>1, <2>2 DEF AsReadInv
  <2>9. \A j \in Jobs : status[j] = "CANCELLED" => "cancel" \in ApiOps
    BY DEF CancelInv, NoCancels
  <2> QED BY <2>6, <2>7, <2>8, <2>9
          DEF AsReadInv, KnownMoves, canTransition, transitions, deviates
<1> QED BY <1>1, <1>2 DEF Recovery

(* The tick and the requeue move jobs that wait, failed or are dead: nobody
   holds or has read those. *)
LEMMA WaitingAsRead ==
  ASSUME TypeOK, SoleInv, AsReadInv, UNCHANGED << run, rec >>,
         \A j \in Jobs :
           \/ status'[j] = status[j]
           \/ status[j] \in { "SCHEDULED", "RETRY", "DEAD_LETTER" } /\ status'[j] = "QUEUED"
           \/ status[j] = "FAILED" /\ status'[j] \in { "RETRY", "DEAD_LETTER" }
  PROVE  AsReadInv' /\ KnownMoves
<1>1. \A s \in Slots : Holds(s) => run[s].job \in Jobs /\ status[run[s].job] \in Held
  BY DEF SoleInv, HoldersInv, TypeOK, Holds
<1>2. \A w \in Workers : \A j \in Taken(w) :
        j \in Jobs /\ status[j] \in { "CLAIMED", "RUNNING", "CANCELLED" }
  BY DEF SoleInv, TakenInv, TypeOK, Taken
<1>3. \A s \in Slots : Holds(s) => status'[run[s].job] = status[run[s].job]
  BY <1>1 DEF Held
<1>4. \A w \in Workers : \A j \in Taken(w) : status'[j] = status[j]
  BY <1>2
<1>5. AsReadInv'
  BY <1>3, <1>4 DEF AsReadInv, Holds, Taken
<1> QED BY <1>5 DEF KnownMoves, canTransition, transitions, Documented!requeued

LEMMA NextAsRead ==
  ASSUME TypeOK, TypeOK', SoleInv, AsReadInv, CancelInv, [Next]_vars
  PROVE  AsReadInv' /\ KnownMoves
<1> USE DEF jobVars, tableVars, workerVars, procVars
<1>1. ASSUME NEW s \in Slots, Runtime(s) PROVE AsReadInv' /\ KnownMoves
  BY <1>1, RuntimeAsRead
<1>2. ASSUME NEW w \in Workers, Recovery(w) PROVE AsReadInv' /\ KnownMoves
  BY <1>2, RecoveryAsRead
<1>3. CASE Tick \/ \E j \in Jobs : retryJob(j)
  BY <1>3, WaitingAsRead
  DEF Tick, retryJob, promoteDueScheduledJobs, promoteDueRetries, scheduleFailedJob,
      processDeadLetter, TypeOK
<1>4. CASE UNCHANGED << status, run, rec >>
  BY <1>4 DEF AsReadInv, KnownMoves, Holds
<1>5. CASE Api
  <2>1. ASSUME NEW c \in Clients, writeRequeued(c) PROVE AsReadInv' /\ KnownMoves
    <3>1. /\ req[c].job \in Jobs /\ status[req[c].job] = "DEAD_LETTER"
          /\ status' = [status EXCEPT ![req[c].job] = "QUEUED"]
          /\ UNCHANGED << run, rec >>
      BY <2>1 DEF writeRequeued, SoleInv, RequeueInv, TypeOK
    <3> QED BY <3>1, WaitingAsRead DEF TypeOK
  <2>2. ASSUME NEW c \in Clients, writeCancelled(c) PROVE AsReadInv' /\ KnownMoves
    <3>1. /\ req[c].job \in Jobs /\ "cancel" \in ApiOps
          /\ status' = [status EXCEPT ![req[c].job] = "CANCELLED"]
          /\ UNCHANGED << run, rec >>
      BY <2>2 DEF writeCancelled, CancelInv, NoCancels, TypeOK
    <3>2. \A j \in Jobs : status'[j] = status[j] \/ status'[j] = "CANCELLED"
      BY <3>1 DEF TypeOK
    <3>3. (\A s \in Slots : Holds(s) => run[s].job \in Jobs)
          /\ \A w \in Workers : Taken(w) \subseteq Jobs
      BY DEF TypeOK, Holds, Taken
    <3>4. AsReadInv'
      BY <3>1, <3>2, <3>3 DEF AsReadInv, Holds, Taken
    <3> QED BY <3>1, <3>2, <3>4 DEF KnownMoves, deviates
  <2>3. CASE \E c \in Clients, j \in Jobs : readForCancel(c, j) \/ readForRequeue(c, j)
    BY <1>4, <2>3 DEF readForCancel, readForRequeue
  <2>4. CASE (\E w \in Workers : postHeartbeat(w)) \/ setPaused
    BY <1>4, <2>4 DEF postHeartbeat, setPaused
  <2> QED BY <1>3, <1>5, <2>1, <2>2, <2>3, <2>4 DEF Api
<1>6. ASSUME NEW p \in Procs, crash(p) PROVE AsReadInv' /\ KnownMoves
  <2>1. \A s \in Slots : run'[s] = run[s] \/ run'[s].pc = "idle"
    BY <1>6 DEF crash, IdleRun
  <2>2. \A w \in Workers : /\ rec'[w].claimed \subseteq rec[w].claimed
                           /\ rec'[w].running \subseteq rec[w].running
    BY <1>6 DEF crash, Closed
  <2>3. status' = status
    BY <1>6 DEF crash
  <2> QED BY <2>1, <2>2, <2>3 DEF AsReadInv, KnownMoves, Holds
<1>7. CASE Environment
  BY <1>4, <1>6, <1>7 DEF Environment, heartbeatTimeout, becomeDue, restart
<1>8. CASE (\E p \in Procs : recordWorkerHeartbeat(p)) \/ UNCHANGED vars
  BY <1>4, <1>8 DEF recordWorkerHeartbeat, vars
<1> QED BY <1>1, <1>2, <1>3, <1>5, <1>7, <1>8 DEF Next

LEMMA InitAsRead == Init => AsReadInv /\ CancelInv
<1> SUFFICES ASSUME Init PROVE AsReadInv /\ CancelInv
  OBVIOUS
<1>1. \A s \in Slots : ~Holds(s)
  BY DEF Init, IdleRun, Holds
<1>2. \A w \in Workers : rec[w].claimed = {} /\ rec[w].running = {}
  BY DEF Init, Closed
<1>3. (\A c \in Clients : req[c].op = "idle") /\ \A j \in Jobs : status[j] # "CANCELLED"
  BY DEF Init, Idle
<1> QED BY <1>1, <1>2, <1>3 DEF AsReadInv, CancelInv

(* The facts that hold together where heartbeats are in time and requeues do not
   overlap. *)
SteadyInv == TypeOK /\ TimelyInv /\ SoleInv /\ AsReadInv /\ CancelInv

LEMMA Steady == HeartbeatsInTime /\ OneRequeueAtOnce => (Spec => []SteadyInv)
<1> SUFFICES ASSUME HeartbeatsInTime, OneRequeueAtOnce PROVE Spec => []SteadyInv
  OBVIOUS
<1>1. TypeOK /\ TypeOK' /\ TimelyInv /\ SoleInv /\ [Next]_vars => TimelyInv' /\ SoleInv'
  BY NextTimely, NextSole
<1>2. TypeOK /\ TypeOK' /\ SoleInv /\ AsReadInv /\ CancelInv /\ [Next]_vars
        => AsReadInv' /\ CancelInv'
  BY NextAsRead, NextCancel
<1> QED BY <1>1, <1>2, InitSole, InitAsRead, TypeCorrect, PTL DEF Spec, SteadyInv

(* core/jobStateMachine.ts, core/workerRuntime.ts, api/routes/queues.ts: the
   whole list of moves a job's status makes, with cancels and failing awaits:
   the table, the requeue, a completed job that fails because its publication
   throws, a cancel over any status, and a cancelled job that an owner or a
   recovery overwrites. *)
THEOREM OnlyKnownMovesHappen ==
  HeartbeatsInTime /\ OneRequeueAtOnce => (Spec => OnlyKnownMoves)
<1> SUFFICES ASSUME HeartbeatsInTime, OneRequeueAtOnce PROVE Spec => OnlyKnownMoves
  OBVIOUS
<1>1. SteadyInv /\ TypeOK' /\ [Next]_vars => [KnownMoves]_vars
  BY NextAsRead DEF SteadyInv
<1>2. KnownMoves <=> \A j \in Jobs : \/ status'[j] = status[j]
                                     \/ canTransition(status[j], status'[j])
                                     \/ Documented!requeued(j)
                                     \/ deviates(j)
  BY DEF KnownMoves
<1> QED BY <1>1, <1>2, Steady, TypeCorrect, PTL DEF Spec, OnlyKnownMoves

(* core/jobStateMachine.ts: where besides nothing is cancelled and no await fails
   every job moves along the table, although no write checks the status the row
   has at that moment. *)
THEOREM StateMachineImplemented ==
  HeartbeatsInTime /\ OneRequeueAtOnce /\ NoCancels /\ NoErrors =>
    (Spec => ImplementsStateMachine)
<1> SUFFICES ASSUME HeartbeatsInTime, OneRequeueAtOnce, NoCancels, NoErrors
             PROVE  Spec => ImplementsStateMachine
  OBVIOUS
<1>1. TypeOK' /\ KnownMoves => Documented!Step
  BY DEF TypeOK, KnownMoves, deviates, NoCancels, NoErrors, Documented!Step,
         canTransition, transitions, Documented!canTransition, Documented!transitions,
         JobStatus, Documented!JobStatus
<1>2. SteadyInv /\ TypeOK' /\ [Next]_vars => [Documented!Step]_status
  BY <1>1, NextAsRead DEF SteadyInv
<1>3. Init => Documented!Init
  BY DEF Init, Documented!Init
<1> QED BY <1>2, <1>3, Steady, TypeCorrect, PTL
        DEF Spec, ImplementsStateMachine, Documented!Spec

(* docs/03-JOB-LIFECYCLE.md:35-39: what the document says of COMPLETED and
   CANCELLED, which cancels and failing awaits refute (run doc_terminal), is
   true without them. *)
THEOREM TerminalWithoutCancels ==
  HeartbeatsInTime /\ OneRequeueAtOnce /\ NoCancels /\ NoErrors =>
    (Spec => TerminalIsFinal)
<1> SUFFICES ASSUME HeartbeatsInTime, OneRequeueAtOnce, NoCancels, NoErrors
             PROVE  Spec => TerminalIsFinal
  OBVIOUS
<1>1. SteadyInv /\ TypeOK' /\ [Next]_vars =>
        (\A j \in Jobs : status[j] \in {"COMPLETED", "CANCELLED"} => status'[j] = status[j])
  <2> SUFFICES ASSUME SteadyInv, TypeOK', [Next]_vars, NEW j \in Jobs,
                      status[j] \in {"COMPLETED", "CANCELLED"}
               PROVE  status'[j] = status[j]
    OBVIOUS
  <2>1. \/ status'[j] = status[j]
        \/ canTransition(status[j], status'[j])
        \/ Documented!requeued(j)
    BY NextAsRead DEF SteadyInv, KnownMoves, deviates, NoCancels, NoErrors
  <2> QED BY <2>1 DEF canTransition, transitions, Documented!requeued
<1> QED BY <1>1, Steady, TypeCorrect, PTL DEF Spec, TerminalIsFinal

(* Without cancels what was read is exactly so. *)
ExactInv ==
  /\ \A s \in Slots :
       /\ run[s].pc \in { "claimed", "verified" } => status[run[s].job] = "CLAIMED"
       /\ run[s].pc = "running" => status[run[s].job] = "RUNNING"
  /\ \A w \in Workers : /\ \A j \in rec[w].claimed : status[j] = "CLAIMED"
                        /\ \A j \in rec[w].running : status[j] = "RUNNING"
  /\ \A c \in Clients : req[c].op # "cancel"

LEMMA SteadyIsExact == NoCancels /\ SteadyInv => ExactInv
<1> SUFFICES ASSUME NoCancels, SteadyInv PROVE ExactInv
  OBVIOUS
<1>1. /\ \A s \in Slots : Holds(s) => run[s].job \in Jobs
      /\ \A w \in Workers : rec[w].claimed \subseteq Jobs /\ rec[w].running \subseteq Jobs
  BY DEF SteadyInv, TypeOK, Holds
<1> QED BY <1>1 DEF SteadyInv, AsReadInv, CancelInv, ExactInv, WasRead, Holds

-----------------------------------------------------------------------------
(* Who moves an active job on, where each process has a Worker row of its own
   and nothing is restarted or cancelled or fails in an await.

   RUNNING executions and RUNNING jobs correspond (AttemptInv); an owner's row
   stays ONLINE until recovery took back all of its jobs (RecoverableInv); and
   an owned job has its invocation until the owner dies (OwnerInv). *)
NoRestarts == "restart" \notin Faults
OwnRow == \A p, q \in Procs : RowOf[p] = RowOf[q] => p = q

AttemptInv ==
  /\ \A e \in executions : e.status = "RUNNING" =>
       /\ status[e.job] = "RUNNING" /\ e.attempt = attemptCount[e.job]
       /\ e.worker = claimedBy[e.job]
  /\ \A j \in Jobs : status[j] = "RUNNING" =>
       claimedBy[j] # None /\ \E e \in executions : e.job = j /\ e.status = "RUNNING"
  /\ \A s \in Slots : run[s].pc = "running" => run[s].attempt = attemptCount[run[s].job]

RecoverableInv ==
  /\ \A w \in Workers : ~Deserted(w) => wstatus[w] = "ONLINE"
  /\ \A j \in Jobs : claimedBy[j] # None => wstatus[claimedBy[j]] = "ONLINE"
  /\ \A w \in Workers : RowLocked(w) => \A j \in Jobs : claimedBy[j] = w => j \in Taken(w)
  /\ \A w \in Workers : rec[w].phase = "found" =>
       \A j \in rec[w].running : << j, attemptCount[j] >> \in rec[w].rows

OwnerInv ==
  \A j \in Jobs : claimedBy[j] # None =>
    Deserted(claimedBy[j]) \/ \E s \in Slots : Holds(s) /\ run[s].job = j

FateInv == AttemptInv /\ RecoverableInv /\ OwnerInv

(* What a writer leaves alone keeps its fate: jobs outside K keep their row, and
   what happens inside K is given. *)
LEMMA UntouchedFate ==
  ASSUME TypeOK, TypeOK', NEW K \in SUBSET Jobs, AttemptInv, RecoverableInv,
         UNCHANGED << up, wstatus, rec >>,
         \A j \in Jobs \ K : /\ status'[j] = status[j]
                             /\ claimedBy'[j] = claimedBy[j] /\ attemptCount'[j] = attemptCount[j],
         \A j \in K : claimedBy'[j] \in {claimedBy[j], None},
         \A w \in Workers : \A j \in Taken(w) : j \notin K,
         \A e \in executions : e.job \notin K => e \in executions',
         \A e \in executions' : e.job \in K \/ e \in executions,
         \A e \in executions' : e.job \in K /\ e.status = "RUNNING" =>
           /\ status'[e.job] = "RUNNING" /\ e.attempt = attemptCount'[e.job]
           /\ e.worker = claimedBy'[e.job],
         \A j \in K : status'[j] = "RUNNING" =>
           claimedBy'[j] # None /\ \E e \in executions' : e.job = j /\ e.status = "RUNNING",
         \A s \in Slots : run'[s].pc = "running" =>
           \/ run'[s] = run[s] /\ run[s].job \notin K
           \/ run'[s].attempt = attemptCount'[run'[s].job]
  PROVE  AttemptInv' /\ RecoverableInv'
<1>0. /\ executions' \subseteq Execution /\ executions \subseteq Execution
      /\ \A s \in Slots : run[s].pc = "running" => run[s].job \in Jobs
      /\ \A w \in Workers : Taken(w) \subseteq Jobs
  BY DEF TypeOK, Taken
<1>1. \A e \in executions' : e.status = "RUNNING" =>
        /\ status'[e.job] = "RUNNING" /\ e.attempt = attemptCount'[e.job]
        /\ e.worker = claimedBy'[e.job]
  BY <1>0 DEF AttemptInv, Execution
<1>2. \A j \in Jobs : status'[j] = "RUNNING" =>
        claimedBy'[j] # None /\ \E e \in executions' : e.job = j /\ e.status = "RUNNING"
  BY DEF AttemptInv
<1>3. \A s \in Slots : run'[s].pc = "running" => run'[s].attempt = attemptCount'[run'[s].job]
  BY <1>0 DEF AttemptInv
<1>4. AttemptInv'
  BY <1>1, <1>2, <1>3 DEF AttemptInv
<1>5. \A j \in Jobs : claimedBy'[j] \in {claimedBy[j], None}
  OBVIOUS
<1>6. \A w \in Workers : \A j \in Taken(w) : attemptCount'[j] = attemptCount[j]
  BY <1>0
<1>7. \A j \in Jobs : claimedBy'[j] # None => claimedBy[j] = claimedBy'[j]
  BY <1>5
<1>8. \A w \in Workers : \A j \in Jobs : claimedBy'[j] = w => claimedBy[j] = w
  BY <1>7, NoneAssumption
<1>9. RecoverableInv'
  BY <1>6, <1>7, <1>8 DEF RecoverableInv, Deserted, RowLocked, Taken
<1> QED BY <1>4, <1>9

LEMMA RuntimeFate ==
  ASSUME NoCancels, NoErrors, SteadyInv, SteadyInv', OwnedIsActive, OwnedIsActive', FateInv,
         NEW s \in Slots, Runtime(s)
  PROVE  FateInv'
<1> USE DEF jobVars, tableVars, workerVars, procVars
<1>0. /\ run \in [Slots -> [pc : RunPCs, job : Jobs \cup {NoJob}, attempt : Nat]]
      /\ status \in [Jobs -> JobStatus] /\ claimedBy \in [Jobs -> Workers \cup {None}]
      /\ attemptCount \in [Jobs -> Nat] /\ executions \subseteq Execution
      /\ Row(s) \in Workers /\ TypeOK /\ TypeOK'
  BY RowOfAssumption DEF SteadyInv, TypeOK, Row, Slots
<1>1. \A t \in Slots : Holds(t) =>
        /\ run[t].job \in Jobs /\ up[ProcOf(t)] /\ status[run[t].job] = WasRead[run[t].pc]
        /\ claimedBy[run[t].job] \in {Row(t), None}
        /\ \A w \in Workers : run[t].job \notin Taken(w)
        /\ \A u \in Slots : Holds(u) /\ run[u].job = run[t].job => t = u
  BY DEF SteadyInv, SoleInv, HoldersInv, TakenInv, AsReadInv, CancelInv, TypeOK, Holds
<1>2. /\ WasRead["claimed"] = "CLAIMED" /\ WasRead["verified"] = "CLAIMED"
      /\ WasRead["running"] = "RUNNING" /\ WasRead["completed"] = "COMPLETED"
  BY DEF WasRead
<1>3. Holds(s) /\ run[s].pc \in { "claimed", "verified" } => ownsClaim(run[s].job, Row(s))
  BY <1>1, <1>2 DEF OwnedIsActive, ownsClaim
(* Jobs other than i keep their owner and invocation. *)
<1>4. ASSUME NEW i \in Jobs, up' = up,
             \A t \in Slots : t # s => run'[t] = run[t],
             \A k \in Jobs : k # i => claimedBy'[k] = claimedBy[k],
             Holds(s) => run[s].job = i,
             claimedBy'[i] # None => Holds(s)' /\ run'[s].job = i
      PROVE  OwnerInv'
  <2> SUFFICES ASSUME NEW k \in Jobs, claimedBy'[k] # None
               PROVE  \/ \A p \in Procs : RowOf[p] = claimedBy'[k] => ~up'[p]
                      \/ \E t \in Slots : Holds(t)' /\ run'[t].job = k
    BY DEF OwnerInv, Deserted
  <2>1. CASE k = i
    BY <1>4, <2>1
  <2>2. CASE k # i
    <3>1. CASE Deserted(claimedBy[k])
      BY <1>4, <2>2, <3>1 DEF Deserted
    <3>2. ASSUME NEW t \in Slots, Holds(t), run[t].job = k
          PROVE  \E u \in Slots : Holds(u)' /\ run'[u].job = k
      BY <1>4, <2>2, <3>2 DEF Holds
    <3> QED BY <1>4, <2>2, <3>1, <3>2 DEF FateInv, OwnerInv
  <2> QED BY <2>1, <2>2
<1>5. CASE claimNextJob(s)
  <2>1. PICK j \in Jobs :
          /\ status[j] = "QUEUED" /\ status' = [status EXCEPT ![j] = "CLAIMED"]
          /\ claimedBy' = [claimedBy EXCEPT ![j] = Row(s)]
          /\ run' = [run EXCEPT ![s] = [pc |-> "claimed", job |-> j, attempt |-> 0]]
    BY <1>5 DEF claimNextJob, Eligible
  <2>2. /\ UNCHANGED << attemptCount, executions, up, wstatus, rec >>
        /\ ~Holds(s) /\ up[ProcOf(s)] /\ ~RowLocked(Row(s))
    BY <1>5 DEF claimNextJob, Holds
  <2>3. /\ run'[s].pc = "claimed" /\ run'[s].job = j /\ Holds(s)'
        /\ \A t \in Slots : t # s => run'[t] = run[t]
    BY <1>0, <2>1 DEF Holds
  <2>4. /\ status'[j] = "CLAIMED" /\ claimedBy'[j] = Row(s)
        /\ \A k \in Jobs : k # j => status'[k] = status[k] /\ claimedBy'[k] = claimedBy[k]
    BY <1>0, <2>1
  <2>5. OwnerInv'
    BY <1>4, <2>2, <2>3, <2>4
  <2>6. AttemptInv'
    <3>1. \A e \in executions : e.job \in Jobs /\ (e.status = "RUNNING" => e.job # j)
      BY <1>0, <2>1 DEF FateInv, AttemptInv, Execution
    <3>2. \A t \in Slots : run'[t].pc = "running" => run'[t] = run[t]
      BY <2>3
    <3> QED BY <2>2, <2>4, <3>1, <3>2 DEF FateInv, AttemptInv
  <2>7. RecoverableInv'
    <3>1. ~Deserted(Row(s))
      BY <2>2 DEF Deserted, Row, ProcOf, Slots
    <3>2. wstatus[Row(s)] = "ONLINE"
      BY <1>0, <3>1 DEF FateInv, RecoverableInv
    <3>3. \A w \in Workers : Deserted(w)' <=> Deserted(w)
      BY <2>2 DEF Deserted
    <3>4. \A w \in Workers : RowLocked(w)' <=> (RowLocked(w) /\ w # Row(s)) 
      BY <2>2 DEF RowLocked
    <3>5. \A k \in Jobs : claimedBy'[k] # None => wstatus'[claimedBy'[k]] = "ONLINE"
      BY <2>2, <2>4, <3>2 DEF FateInv, RecoverableInv
    <3>6. \A w \in Workers : RowLocked(w)' =>
            \A k \in Jobs : claimedBy'[k] = w => k \in Taken(w)'
      BY <2>2, <2>4, <3>4 DEF FateInv, RecoverableInv, Taken
    <3> QED BY <2>2, <3>3, <3>5, <3>6 DEF FateInv, RecoverableInv
  <2> QED BY <2>5, <2>6, <2>7 DEF FateInv
<1>6. CASE verifyOwnership(s) \/ finish(s)
  <2>1. UNCHANGED << status, claimedBy, attemptCount, executions, up, wstatus, rec >>
        /\ Holds(s) /\ \A t \in Slots : t # s => run'[t] = run[t]
    BY <1>0, <1>6 DEF verifyOwnership, finish, Holds
  <2>2. \/ run'[s].pc = "verified" /\ run'[s].job = run[s].job
        \/ run'[s].pc = "idle" /\ claimedBy[run[s].job] = None
    <3>1. CASE verifyOwnership(s)
      <4>1. run' = [run EXCEPT ![s] = [run[s] EXCEPT !.pc = "verified"]]
        BY <1>3, <2>1, <3>1 DEF verifyOwnership
      <4> QED BY <1>0, <4>1
    <3>2. CASE finish(s)
      <4>1. run'[s].pc = "idle" /\ run[s].pc = "completed"
        BY <1>0, <3>2 DEF finish, IdleRun
      <4> QED BY <1>1, <1>2, <2>1, <4>1 DEF OwnedIsActive
    <3> QED BY <1>6, <3>1, <3>2
  <2>3. OwnerInv'
    BY <1>1, <1>4, <2>1, <2>2 DEF Holds
  <2>4. \A t \in Slots : run'[t].pc = "running" => run'[t] = run[t]
    BY <2>1, <2>2
  <2>5. AttemptInv' /\ RecoverableInv'
    BY <2>1, <2>4 DEF FateInv, AttemptInv, RecoverableInv, Deserted, RowLocked, Taken
  <2> QED BY <2>3, <2>5 DEF FateInv
<1>7. CASE startExecution(s)
  <2>1. PICK i \in Jobs : i = run[s].job
    BY <1>1, <1>7 DEF startExecution, Holds
  <2> DEFINE n == attemptCount[i] + 1
             row == [job |-> i, attempt |-> n, worker |-> Row(s), status |-> "RUNNING"]
  <2>2. /\ Holds(s) /\ run[s].pc = "verified"
        /\ UNCHANGED << claimedBy, up, wstatus, rec >>
        /\ status' = [status EXCEPT ![i] = "RUNNING"]
        /\ attemptCount' = [attemptCount EXCEPT ![i] = n]
        /\ executions' = executions \cup {row}
        /\ run' = [run EXCEPT ![s] = [pc |-> "running", job |-> i, attempt |-> n]]
    BY <1>7, <2>1 DEF startExecution, nextAttempt, Holds
  <2>3. claimedBy[i] = Row(s) /\ status[i] = "CLAIMED" /\ Row(s) # None
    BY <1>0, <1>3, <2>1, <2>2, NoneAssumption DEF ownsClaim
  <2>4. /\ run'[s] = [pc |-> "running", job |-> i, attempt |-> n]
        /\ \A t \in Slots : t # s => run'[t] = run[t]
        /\ status'[i] = "RUNNING" /\ attemptCount'[i] = n
        /\ \A k \in Jobs : k # i => status'[k] = status[k] /\ attemptCount'[k] = attemptCount[k]
    BY <1>0, <2>2
  <2>5. row.job = i /\ row.attempt = n /\ row.worker = Row(s) /\ row.status = "RUNNING"
    OBVIOUS
  <2>6. \A e \in executions : e.job = i => e.status # "RUNNING"
    BY <2>3 DEF FateInv, AttemptInv
  <2> HIDE DEF row, n
  <2>7. OwnerInv'
    <3>1. Holds(s)' /\ run'[s].job = i
      BY <2>4 DEF Holds
    <3> QED BY <1>4, <2>1, <2>2, <2>4, <3>1
  <2>8. \A t \in Slots : run'[t].pc = "running" =>
          \/ run'[t] = run[t] /\ run[t].job \notin {i}
          \/ run'[t].attempt = attemptCount'[run'[t].job]
    <3>1. ASSUME NEW t \in Slots, t # s, run'[t].pc = "running" PROVE run[t].job # i
      BY <1>1, <2>1, <2>2, <2>4, <3>1 DEF Holds
    <3> QED BY <2>4, <3>1
  <2>9. \A w \in Workers : \A k \in Taken(w) : k \notin {i}
    BY <1>1, <2>1, <2>2
  <2>10. AttemptInv' /\ RecoverableInv'
    <3>1. \A e \in executions' : e.job \in {i} /\ e.status = "RUNNING" =>
            /\ status'[e.job] = "RUNNING" /\ e.attempt = attemptCount'[e.job]
            /\ e.worker = claimedBy'[e.job]
      BY <2>2, <2>3, <2>4, <2>5, <2>6
    <3>2. claimedBy'[i] # None /\ \E e \in executions' : e.job = i /\ e.status = "RUNNING"
      BY <2>2, <2>3, <2>5
    <3>3. \A e \in executions' : e.job \in {i} \/ e \in executions
      BY <2>2, <2>5
    <3>4. /\ \A e \in executions : e.job \notin {i} => e \in executions'
          /\ UNCHANGED << up, wstatus, rec >>
      BY <2>2
    <3>5. \A k \in Jobs \ {i} : /\ status'[k] = status[k] /\ claimedBy'[k] = claimedBy[k]
                                /\ attemptCount'[k] = attemptCount[k]
      BY <2>2, <2>4
    <3>6. /\ \A k \in {i} : claimedBy'[k] \in {claimedBy[k], None}
          /\ \A k \in {i} : status'[k] = "RUNNING" =>
               claimedBy'[k] # None /\ \E e \in executions' : e.job = k /\ e.status = "RUNNING"
      BY <2>2, <3>2
    <3> QED BY <1>0, <2>8, <2>9, <3>1, <3>3, <3>4, <3>5, <3>6, UntouchedFate
            DEF FateInv
  <2> QED BY <2>7, <2>10 DEF FateInv
<1>8. CASE recordSuccess(s) \/ recordFailure(s)
  <2>1. PICK i \in Jobs : i = run[s].job
    BY <1>1, <1>8 DEF recordSuccess, recordFailure, Holds
  <2>2. PICK st \in { "COMPLETED", "FAILED" } :
          /\ run[s].pc = "running" /\ Holds(s)
          /\ UNCHANGED << attemptCount, up, wstatus, rec >>
          /\ status' = [status EXCEPT ![i] = st]
          /\ clearClaim({i})
          /\ executions' = setExecutionStatus({<< i, run[s].attempt >>}, st)
          /\ run'[s].pc # "running"
          /\ \A t \in Slots : t # s => run'[t] = run[t]
    BY <1>0, <1>8, <2>1 DEF recordSuccess, recordFailure, NoErrors, Holds, IdleRun
  <2>3. run[s].attempt = attemptCount[i]
    BY <2>1, <2>2 DEF FateInv, AttemptInv
  <2>4. /\ claimedBy'[i] = None /\ \A k \in Jobs : k # i => claimedBy'[k] = claimedBy[k]
        /\ status'[i] = st /\ \A k \in Jobs : k # i => status'[k] = status[k]
    BY <1>0, <2>2, ClearClaim
  <2>5. \A e \in executions : e.job # i => e \in executions'
    BY <2>2 DEF setExecutionStatus
  <2>6. \A e \in executions' : \/ e.job = i /\ e.status # "RUNNING"
                               \/ e.job # i /\ e \in executions
    <3> SUFFICES ASSUME NEW e \in executions'
                 PROVE  \/ e.job = i /\ e.status # "RUNNING"
                        \/ e.job # i /\ e \in executions
      OBVIOUS
    <3>1. PICK x \in executions :
            e = IF << x.job, x.attempt >> \in {<< i, run[s].attempt >>}
                THEN [x EXCEPT !.status = st] ELSE x
      BY <2>2 DEF setExecutionStatus
    <3>2. x \in Execution
      BY <1>0
    <3>3. CASE << x.job, x.attempt >> = << i, run[s].attempt >>
      BY <3>1, <3>2, <3>3 DEF Execution
    <3>4. CASE << x.job, x.attempt >> # << i, run[s].attempt >>
      <4>1. e = x
        BY <3>1, <3>4
      <4>2. x.job = i => x.attempt # attemptCount[i]
        BY <2>3, <3>4
      <4> QED BY <4>1, <4>2 DEF FateInv, AttemptInv
    <3> QED BY <3>3, <3>4
  <2>7. OwnerInv'
    BY <1>4, <2>1, <2>2, <2>4
  <2>8. \A t \in Slots : run'[t].pc = "running" => run'[t] = run[t] /\ run[t].job \notin {i}
    <3>1. ASSUME NEW t \in Slots, t # s, run'[t].pc = "running" PROVE run[t].job # i
      BY <1>1, <2>1, <2>2, <3>1 DEF Holds
    <3> QED BY <2>2, <3>1
  <2>9. \A w \in Workers : \A k \in Taken(w) : k \notin {i}
    BY <1>1, <2>1, <2>2
  <2>10. AttemptInv' /\ RecoverableInv'
    <3>1. /\ \A k \in Jobs \ {i} : /\ status'[k] = status[k] /\ claimedBy'[k] = claimedBy[k]
                                   /\ attemptCount'[k] = attemptCount[k]
          /\ \A k \in {i} : claimedBy'[k] \in {claimedBy[k], None} /\ status'[k] # "RUNNING"
      BY <2>2, <2>4
    <3>2. /\ \A e \in executions : e.job \notin {i} => e \in executions'
          /\ \A e \in executions' : e.job \in {i} \/ e \in executions
          /\ \A e \in executions' : ~(e.job \in {i} /\ e.status = "RUNNING")
      BY <2>5, <2>6
    <3>3. \A t \in Slots : run'[t].pc = "running" =>
            \/ run'[t] = run[t] /\ run[t].job \notin {i}
            \/ run'[t].attempt = attemptCount'[run'[t].job]
      BY <2>8
    <3> QED BY <1>0, <2>2, <2>9, <3>1, <3>2, <3>3, UntouchedFate DEF FateInv
  <2> QED BY <2>7, <2>10 DEF FateInv
<1>9. CASE abandon(s)
  BY <1>9 DEF abandon, NoErrors
<1> QED BY <1>5, <1>6, <1>7, <1>8, <1>9 DEF Runtime

(* Recovery reads every job of the dead owner, with the execution that is its
   current attempt, and puts all of them back before the row goes OFFLINE. *)
LEMMA RecoveryFate ==
  ASSUME NoCancels, SteadyInv, SteadyInv', OwnedIsActive, FateInv,
         NEW w \in Workers, Recovery(w)
  PROVE  FateInv'
<1> USE DEF jobVars, tableVars, workerVars, procVars
<1>0. /\ status \in [Jobs -> JobStatus] /\ claimedBy \in [Jobs -> Workers \cup {None}]
      /\ attemptCount \in [Jobs -> Nat] /\ executions \subseteq Execution
      /\ \A v \in Workers : /\ rec[v].claimed \subseteq Jobs /\ rec[v].running \subseteq Jobs
                            /\ Taken(v) \subseteq Jobs
      /\ TypeOK /\ TypeOK'
  BY DEF SteadyInv, TypeOK, Taken
<1>1. \A v \in Workers : /\ \A j \in rec[v].claimed : status[j] = "CLAIMED"
                         /\ \A j \in rec[v].running : status[j] = "RUNNING"
                         /\ RowLocked(v) => Deserted(v)
                         /\ ~RowLocked(v) => Taken(v) = {}
                         /\ \A j \in Taken(v) : claimedBy[j] \in {v, None}
                         /\ \A k \in rec[v].rows : k[1] \in rec[v].running
  BY <1>0 DEF SteadyInv, AsReadInv, CancelInv, TimelyInv, SoleInv, TakenInv
<1>2. CASE (\E p \in Procs : lockStaleWorker(p, w)) \/ findExecutions(w) \/ abortRecovery(w)
  <2>1. /\ UNCHANGED << status, claimedBy, attemptCount, executions, up, run, wstatus >>
        /\ \A v \in Workers : v # w => rec'[v] = rec[v]
    BY <1>2 DEF lockStaleWorker, findExecutions, abortRecovery, TypeOK, SteadyInv
  <2>2. RowLocked(w)' => \A j \in Jobs : claimedBy[j] = w => j \in Taken(w)'
    <3>1. ASSUME NEW p \in Procs, lockStaleWorker(p, w)
          PROVE  \A j \in Jobs : claimedBy[j] = w => j \in Taken(w)'
      <4>1. /\ rec'[w].claimed = { j \in Jobs : claimedBy[j] = w /\ status[j] = "CLAIMED" }
            /\ rec'[w].running = { j \in Jobs : claimedBy[j] = w /\ status[j] = "RUNNING" }
        BY <1>0, <3>1 DEF lockStaleWorker, TypeOK
      <4> QED BY <4>1, NoneAssumption DEF OwnedIsActive, Taken
    <3>2. CASE findExecutions(w)
      <4>1. rec'[w].claimed = rec[w].claimed /\ rec'[w].running = rec[w].running
            /\ rec[w].phase = "read"
        BY <1>0, <3>2 DEF findExecutions, TypeOK
      <4> QED BY <4>1 DEF FateInv, RecoverableInv, RowLocked, Taken
    <3>3. CASE abortRecovery(w)
      BY <1>0, <3>3 DEF abortRecovery, RowLocked, Closed, TypeOK
    <3> QED BY <1>2, <3>1, <3>2, <3>3
  <2>3. rec'[w].phase = "found" =>
          \A j \in rec'[w].running : << j, attemptCount[j] >> \in rec'[w].rows
    <3> SUFFICES ASSUME findExecutions(w), NEW j \in rec[w].running
                 PROVE  /\ rec'[w].running = rec[w].running
                        /\ << j, attemptCount[j] >> \in rec'[w].rows
      BY <1>0, <1>2 DEF lockStaleWorker, findExecutions, abortRecovery, Closed, TypeOK
    <3>1. rec'[w].running = rec[w].running
          /\ rec'[w].rows = activeExecutions(w, rec[w].running)
      BY <1>0 DEF findExecutions, TypeOK
    <3>2. j \in Jobs /\ status[j] = "RUNNING" /\ claimedBy[j] = w
      <4>1. j \in Jobs /\ status[j] = "RUNNING" /\ claimedBy[j] \in {w, None}
        BY <1>0, <1>1 DEF Taken
      <4> QED BY <4>1 DEF FateInv, AttemptInv
    <3>3. PICK e \in executions : e.job = j /\ e.status = "RUNNING"
      BY <3>2 DEF FateInv, AttemptInv
    <3>4. e.worker = w /\ e.attempt = attemptCount[j]
      BY <3>2, <3>3 DEF FateInv, AttemptInv
    <3>5. \A y \in executions : y.job = j /\ y.status = "RUNNING" => y.attempt <= e.attempt
      BY <1>0, <3>2, <3>4 DEF FateInv, AttemptInv
    <3>6. << e.job, e.attempt >> \in activeExecutions(w, rec[w].running)
      BY <3>3, <3>4, <3>5 DEF activeExecutions
    <3> QED BY <3>1, <3>3, <3>4, <3>6
  <2>4. AttemptInv' /\ OwnerInv'
    BY <2>1 DEF FateInv, AttemptInv, OwnerInv, Deserted, Holds
  <2>5. RecoverableInv'
    <3>1. \A v \in Workers : v # w => (RowLocked(v)' <=> RowLocked(v)) /\ Taken(v)' = Taken(v)
      BY <2>1 DEF RowLocked, Taken
    <3>2. \A v \in Workers : RowLocked(v)' => \A j \in Jobs : claimedBy'[j] = v => j \in Taken(v)'
      BY <2>1, <2>2, <3>1 DEF FateInv, RecoverableInv
    <3>3. \A v \in Workers : rec'[v].phase = "found" =>
            \A j \in rec'[v].running : << j, attemptCount'[j] >> \in rec'[v].rows
      BY <2>1, <2>3 DEF FateInv, RecoverableInv
    <3>4. \A v \in Workers : ~Deserted(v)' => wstatus'[v] = "ONLINE"
      BY <2>1 DEF FateInv, RecoverableInv, Deserted
    <3>5. \A j \in Jobs : claimedBy'[j] # None => wstatus'[claimedBy'[j]] = "ONLINE"
      BY <2>1 DEF FateInv, RecoverableInv
    <3> QED BY <3>2, <3>3, <3>4, <3>5 DEF RecoverableInv
  <2> QED BY <2>4, <2>5 DEF FateInv
<1>3. CASE commitRecovery(w)
  <2> DEFINE failed == { k[1] : k \in rec[w].rows }
  <2>1. rec[w].phase = "found" /\ RowLocked(w) /\ Deserted(w)
    BY <1>1, <1>3 DEF commitRecovery, RowLocked
  <2>2. failed = rec[w].running
    <3>1. \A j \in rec[w].running : << j, attemptCount[j] >> \in rec[w].rows
      BY <2>1 DEF FateInv, RecoverableInv
    <3>2. \A j \in rec[w].running : j \in failed
      <4> SUFFICES ASSUME NEW j \in rec[w].running PROVE \E k \in rec[w].rows : j = k[1]
        OBVIOUS
      <4>1. << j, attemptCount[j] >>[1] = j
        OBVIOUS
      <4> QED BY <3>1, <4>1
    <3> QED BY <1>1, <3>2
  <2>3. /\ UNCHANGED << attemptCount, up, run >>
        /\ status' = [j \in Jobs |-> IF j \in rec[w].claimed THEN "QUEUED"
                                     ELSE IF j \in failed THEN "FAILED" ELSE status[j]]
        /\ clearClaim(rec[w].claimed \cup failed)
        /\ executions' = setExecutionStatus(rec[w].rows, "FAILED")
        /\ wstatus' = [wstatus EXCEPT ![w] = "OFFLINE"]
    BY <1>3 DEF commitRecovery
  <2>4. rec'[w] = Closed /\ \A v \in Workers : v # w => rec'[v] = rec[v]
    BY <1>3 DEF commitRecovery, SteadyInv, TypeOK
  <2> HIDE DEF failed
  <2>5. \A j \in Jobs : claimedBy'[j] = IF j \in Taken(w) THEN None ELSE claimedBy[j]
    BY <2>2, <2>3 DEF clearClaim, Taken
  <2>6. \A j \in Jobs : /\ j \in Taken(w) => status'[j] # "RUNNING"
                        /\ j \notin Taken(w) => status'[j] = status[j]
    BY <2>2, <2>3 DEF Taken
  <2>7. \A j \in Jobs : claimedBy'[j] # None => claimedBy'[j] = claimedBy[j] /\ claimedBy[j] # w
    BY <2>1, <2>5 DEF FateInv, RecoverableInv
  <2>8. \A e \in executions : e.job \notin Taken(w) => e \in executions'
    <3> SUFFICES ASSUME NEW e \in executions, e.job \notin Taken(w) PROVE e \in executions'
      OBVIOUS
    <3>1. << e.job, e.attempt >> \notin rec[w].rows
      <4> SUFFICES ASSUME << e.job, e.attempt >> \in rec[w].rows PROVE FALSE
        OBVIOUS
      <4> QED BY <1>1 DEF Taken
    <3> QED BY <2>3, <3>1 DEF setExecutionStatus
  <2>9. \A e \in executions' : e.status = "RUNNING" => e \in executions /\ e.job \notin Taken(w)
    <3> SUFFICES ASSUME NEW e \in executions', e.status = "RUNNING"
                 PROVE  e \in executions /\ e.job \notin Taken(w)
      OBVIOUS
    <3>1. PICK x \in executions :
            e = IF << x.job, x.attempt >> \in rec[w].rows
                THEN [x EXCEPT !.status = "FAILED"] ELSE x
      BY <2>3 DEF setExecutionStatus
    <3>2. x \in Execution
      BY <1>0
    <3>3. << x.job, x.attempt >> \notin rec[w].rows /\ e = x
      BY <3>1, <3>2 DEF Execution
    <3>4. status[x.job] = "RUNNING" /\ x.attempt = attemptCount[x.job]
      BY <3>3 DEF FateInv, AttemptInv
    <3>5. x.job \notin rec[w].claimed
      BY <1>1, <3>4
    <3>6. x.job \notin rec[w].running
      BY <2>1, <3>3, <3>4 DEF FateInv, RecoverableInv
    <3> QED BY <3>3, <3>5, <3>6 DEF Taken
  <2>10. AttemptInv'
    <3>1. \A e \in executions' : e.status = "RUNNING" =>
            /\ status'[e.job] = "RUNNING" /\ e.attempt = attemptCount'[e.job]
            /\ e.worker = claimedBy'[e.job]
      BY <1>0, <2>3, <2>5, <2>6, <2>9 DEF FateInv, AttemptInv, Execution
    <3>2. \A j \in Jobs : status'[j] = "RUNNING" =>
            claimedBy'[j] # None /\ \E e \in executions' : e.job = j /\ e.status = "RUNNING"
      BY <2>5, <2>6, <2>8 DEF FateInv, AttemptInv
    <3> QED BY <2>3, <3>1, <3>2 DEF FateInv, AttemptInv
  <2>11. RecoverableInv'
    <3>1. \A v \in Workers : Deserted(v)' <=> Deserted(v)
      BY <2>3 DEF Deserted
    <3>2. \A v \in Workers : v # w => wstatus'[v] = wstatus[v]
      BY <1>0, <2>3 DEF TypeOK
    <3>3. ~RowLocked(w)' /\ rec'[w].phase # "found"
      BY <2>4 DEF RowLocked, Closed
    <3>4. \A v \in Workers : v # w => (RowLocked(v)' <=> RowLocked(v)) /\ Taken(v)' = Taken(v)
      BY <2>4 DEF RowLocked, Taken
    <3>5. \A j \in Jobs : claimedBy'[j] # None => wstatus'[claimedBy'[j]] = "ONLINE"
      BY <1>0, <2>7, <3>2 DEF FateInv, RecoverableInv
    <3>6. \A v \in Workers : RowLocked(v)' => \A j \in Jobs : claimedBy'[j] = v => j \in Taken(v)'
      BY <2>7, <3>3, <3>4, NoneAssumption DEF FateInv, RecoverableInv
    <3>7. \A v \in Workers : rec'[v].phase = "found" =>
            \A j \in rec'[v].running : << j, attemptCount'[j] >> \in rec'[v].rows
      BY <2>3, <2>4, <3>3 DEF FateInv, RecoverableInv
    <3> QED BY <2>1, <3>1, <3>2, <3>5, <3>6, <3>7 DEF FateInv, RecoverableInv
  <2>12. OwnerInv'
    BY <2>3, <2>7 DEF FateInv, OwnerInv, Deserted, Holds
  <2> QED BY <2>10, <2>11, <2>12 DEF FateInv
<1> QED BY <1>2, <1>3 DEF Recovery

(* The tick and the requeue concern jobs nobody owns. *)
LEMMA WaitingFate ==
  ASSUME OwnedIsActive, FateInv,
         UNCHANGED << attemptCount, executions, up, run, wstatus, rec >>,
         \A j \in Jobs :
           \/ status'[j] = status[j] /\ claimedBy'[j] = claimedBy[j]
           \/ /\ status[j] \notin { "CLAIMED", "RUNNING" } /\ status'[j] # "RUNNING"
              /\ claimedBy'[j] \in {claimedBy[j], None},
         TypeOK
  PROVE  FateInv'
<1>1. \A j \in Jobs : claimedBy'[j] = claimedBy[j]
  BY DEF OwnedIsActive
<1>2. \A j \in Jobs : status'[j] = "RUNNING" <=> status[j] = "RUNNING"
  OBVIOUS
<1>3. \A e \in executions : e.job \in Jobs
  BY DEF TypeOK, Execution
<1>4. AttemptInv'
  BY <1>1, <1>2, <1>3 DEF FateInv, AttemptInv
<1>5. RecoverableInv'
  BY <1>1 DEF FateInv, RecoverableInv, RowLocked, Taken, Deserted
<1>6. OwnerInv'
  BY <1>1 DEF FateInv, OwnerInv, Deserted, Holds
<1> QED BY <1>4, <1>5, <1>6 DEF FateInv

(* The invocations of a process end with it, and then its row is deserted. *)
LEMMA CrashFate ==
  ASSUME OwnRow, SteadyInv, FateInv, NEW p \in Procs, crash(p)
  PROVE  FateInv'
<1> USE DEF jobVars, tableVars, workerVars
<1>1. /\ UNCHANGED << status, claimedBy, attemptCount, executions, wstatus >>
      /\ \A v \in Workers : rec'[v] \in {Closed, rec[v]}
      /\ \A s \in Slots : run'[s] = IF ProcOf(s) = p THEN IdleRun ELSE run[s]
  BY DEF crash
<1>2. \A v \in Workers : Deserted(v) => Deserted(v)'
  BY DEF crash, Deserted, SteadyInv, TypeOK
<1>3. RowOf[p] \in Workers /\ Deserted(RowOf[p])'
  BY RowOfAssumption DEF crash, Deserted, OwnRow, SteadyInv, TypeOK
<1>4. IdleRun.pc = "idle" /\ Closed.phase = "closed"
  BY DEF IdleRun, Closed
<1>5. AttemptInv'
  BY <1>1, <1>4 DEF FateInv, AttemptInv
<1>6. RecoverableInv'
  BY <1>1, <1>2, <1>4 DEF FateInv, RecoverableInv, RowLocked, Taken
<1>7. OwnerInv'
  <2> SUFFICES ASSUME NEW j \in Jobs, NEW v \in Workers, claimedBy[j] = v, v # None,
                      ~Deserted(v)'
               PROVE  \E s \in Slots : Holds(s)' /\ run'[s].job = j
    BY <1>1, NoneAssumption DEF OwnerInv, Deserted, SteadyInv, TypeOK
  <2>1. ~Deserted(v)
    BY <1>2
  <2>2. PICK s \in Slots : Holds(s) /\ run[s].job = j
    BY <2>1 DEF FateInv, OwnerInv
  <2>3. v = RowOf[ProcOf(s)]
    BY <2>2 DEF SteadyInv, SoleInv, HoldersInv, Row, ProcOf
  <2>4. ProcOf(s) # p
    BY <1>3, <2>3
  <2> QED BY <1>1, <2>2, <2>4 DEF Holds
<1> QED BY <1>5, <1>6, <1>7 DEF FateInv

LEMMA NextFate ==
  ASSUME NoCancels, NoErrors, NoRestarts, OwnRow, SteadyInv, SteadyInv', OwnedIsActive,
         OwnedIsActive', FateInv, [Next]_vars
  PROVE  FateInv'
<1> USE DEF jobVars, tableVars, workerVars, procVars
<1>0. TypeOK /\ RequeueInv /\ \A c \in Clients : req[c].op # "cancel"
  BY DEF SteadyInv, SoleInv, CancelInv
<1>1. ASSUME NEW s \in Slots, Runtime(s) PROVE FateInv'
  BY <1>1, RuntimeFate
<1>2. ASSUME NEW w \in Workers, Recovery(w) PROVE FateInv'
  BY <1>2, RecoveryFate
<1>3. CASE Tick \/ \E j \in Jobs : retryJob(j)
  <2>1. /\ UNCHANGED << claimedBy, attemptCount, executions, up, run, wstatus, rec >>
        /\ \A j \in Jobs : \/ status'[j] = status[j]
                           \/ /\ status[j] \notin { "CLAIMED", "RUNNING" }
                              /\ status'[j] # "RUNNING"
    BY <1>0, <1>3 DEF Tick, retryJob, promoteDueScheduledJobs, promoteDueRetries,
                      scheduleFailedJob, processDeadLetter, TypeOK
  <2> QED BY <1>0, <2>1, WaitingFate
<1>4. CASE UNCHANGED << status, claimedBy, attemptCount, executions, up, run, wstatus, rec >>
  BY <1>0, <1>4, WaitingFate
<1>5. CASE Api
  <2>1. ASSUME NEW c \in Clients, writeRequeued(c) PROVE FateInv'
    <3>1. /\ req[c].job \in Jobs /\ status[req[c].job] = "DEAD_LETTER"
          /\ status' = [status EXCEPT ![req[c].job] = "QUEUED"]
          /\ clearClaim({req[c].job})
          /\ UNCHANGED << attemptCount, executions, up, run, wstatus, rec >>
      BY <1>0, <2>1 DEF writeRequeued, RequeueInv, TypeOK
    <3>2. \A j \in Jobs : /\ claimedBy'[j] \in {claimedBy[j], None}
                          /\ j # req[c].job => claimedBy'[j] = claimedBy[j]
      BY <3>1 DEF clearClaim
    <3>3. \A j \in Jobs : \/ status'[j] = status[j] /\ j # req[c].job
                          \/ status[j] = "DEAD_LETTER" /\ status'[j] = "QUEUED"
      BY <1>0, <3>1 DEF TypeOK
    <3> QED BY <1>0, <3>1, <3>2, <3>3, WaitingFate
  <2>2. \A c \in Clients : ~writeCancelled(c)
    BY <1>0 DEF writeCancelled
  <2>3. CASE \E c \in Clients, j \in Jobs : readForCancel(c, j) \/ readForRequeue(c, j)
    BY <1>4, <2>3 DEF readForCancel, readForRequeue
  <2>4. CASE (\E w \in Workers : postHeartbeat(w)) \/ setPaused
    BY <1>4, <2>4 DEF postHeartbeat, setPaused
  <2> QED BY <1>3, <1>5, <2>1, <2>2, <2>3, <2>4 DEF Api
<1>6. CASE Environment
  <2>1. \A p \in Procs : ~restart(p)
    BY DEF restart, NoRestarts
  <2>2. ASSUME NEW p \in Procs, crash(p) PROVE FateInv'
    BY <2>2, CrashFate
  <2>3. CASE (\E w \in Workers : heartbeatTimeout(w)) \/ \E j \in Jobs : becomeDue(j)
    BY <1>4, <2>3 DEF heartbeatTimeout, becomeDue
  <2> QED BY <1>6, <2>1, <2>2, <2>3 DEF Environment
<1>7. CASE (\E p \in Procs : recordWorkerHeartbeat(p)) \/ UNCHANGED vars
  BY <1>4, <1>7 DEF recordWorkerHeartbeat, vars
<1> QED BY <1>1, <1>2, <1>3, <1>5, <1>6, <1>7 DEF Next

LEMMA FateIsKnown ==
  ASSUME SteadyInv, OwnedIsActive, FateInv
  PROVE  NobodyIsOrphaned
<1> SUFFICES ASSUME NEW j \in Jobs, status[j] \in { "CLAIMED", "RUNNING" },
                    \A s \in Slots : ~(Holds(s) /\ run[s].job = j)
             PROVE  /\ claimedBy[j] # None /\ Deserted(claimedBy[j])
                    /\ wstatus[claimedBy[j]] = "ONLINE"
                    /\ status[j] = "RUNNING" =>
                         \E e \in executions :
                           e.job = j /\ e.worker = claimedBy[j] /\ e.status = "RUNNING"
  BY DEF SteadyInv, SoleInv, HoldersInv, Holds, NobodyIsOrphaned
<1>1. claimedBy[j] # None
  BY DEF OwnedIsActive, FateInv, AttemptInv
<1>2. Deserted(claimedBy[j])
  BY <1>1 DEF FateInv, OwnerInv
<1>3. wstatus[claimedBy[j]] = "ONLINE"
  BY <1>1 DEF FateInv, RecoverableInv
<1>4. status[j] = "RUNNING" =>
        \E e \in executions : e.job = j /\ e.worker = claimedBy[j] /\ e.status = "RUNNING"
  BY DEF FateInv, AttemptInv
<1> QED BY <1>1, <1>2, <1>3, <1>4

(* core/workerRecovery.ts:85-130, docs/06: an active job is in the hands of a
   live invocation or within the reach of recovery, at every moment of every
   crash.  Each condition is needed: where processes share a row
   (run doc_orphans), come back, or lose an await, a job is left behind. *)
THEOREM ActiveJobsAreInReach ==
  HeartbeatsInTime /\ OneRequeueAtOnce /\ NoCancels /\ NoErrors /\ NoRestarts /\ OwnRow =>
    (Spec => []NobodyIsOrphaned)
<1> SUFFICES ASSUME HeartbeatsInTime, OneRequeueAtOnce, NoCancels, NoErrors, NoRestarts,
                    OwnRow
             PROVE  Spec => []NobodyIsOrphaned
  OBVIOUS
<1>1. Init => FateInv
  <2> SUFFICES ASSUME Init PROVE FateInv
    OBVIOUS
  <2>1. /\ executions = {} /\ \A j \in Jobs : claimedBy[j] = None /\ status[j] # "RUNNING"
        /\ \A s \in Slots : run[s].pc = "idle"
        /\ \A w \in Workers : wstatus[w] = "ONLINE" /\ rec[w].phase = "closed"
    BY DEF Init, IdleRun, Closed
  <2> QED BY <2>1 DEF FateInv, AttemptInv, RecoverableInv, OwnerInv, RowLocked
<1>2. SteadyInv /\ SteadyInv' /\ OwnedIsActive /\ OwnedIsActive' /\ FateInv /\ [Next]_vars
        => FateInv'
  BY NextFate
<1>3. SteadyInv /\ OwnedIsActive /\ FateInv => NobodyIsOrphaned
  BY FateIsKnown
<1> QED BY <1>1, <1>2, <1>3, Steady, OwnershipCorrect, PTL DEF Spec

-----------------------------------------------------------------------------
(* The batch row, under the same conditions.  A job of the batch becomes
   COMPLETED or DEAD_LETTER once, in the two steps that also count it, and
   leaves them only as a requeue; the guard pendingJobs > 0 never bites, for
   the job that is counted was itself open. *)
Settled == { "COMPLETED", "DEAD_LETTER" }
Count(S) == Cardinality({ j \in BatchJobs : status[j] \in S })

LEMMA CountNat == ASSUME NEW S PROVE Count(S) \in Nat
<1>1. IsFiniteSet({ j \in BatchJobs : status[j] \in S })
  BY BatchAssumption, FS_Subset
<1> QED BY <1>1, FS_CardinalityType DEF Count

LEMMA CountMoves ==
  ASSUME NEW S, NEW i \in BatchJobs,
         \A k \in BatchJobs : k # i => (status'[k] \in S <=> status[k] \in S)
  PROVE  /\ status[i] \in S /\ status'[i] \notin S =>
              Count(S)' = Count(S) - 1 /\ Count(S) > 0
         /\ status[i] \notin S /\ status'[i] \in S => Count(S)' = Count(S) + 1
         /\ (status[i] \in S <=> status'[i] \in S) => Count(S)' = Count(S)
<1> DEFINE A == { j \in BatchJobs : status[j] \in S }
           B == { j \in BatchJobs : status'[j] \in S }
<1>1. IsFiniteSet(A) /\ IsFiniteSet(B)
  BY BatchAssumption, FS_Subset
<1>2. Count(S) = Cardinality(A) /\ Count(S)' = Cardinality(B)
  BY DEF Count
<1>3. Cardinality(A) \in Nat /\ Cardinality(B) \in Nat
  BY <1>1, FS_CardinalityType
<1>4. ASSUME status[i] \in S, status'[i] \notin S
      PROVE  Cardinality(B) = Cardinality(A) - 1 /\ Cardinality(A) > 0
  <2>1. i \notin B /\ A = B \cup {i}
    BY <1>4
  <2>2. Cardinality(A) = Cardinality(B) + 1
    BY <1>1, <2>1, FS_AddElement
  <2> QED BY <1>3, <2>2
<1>5. ASSUME status[i] \notin S, status'[i] \in S
      PROVE  Cardinality(B) = Cardinality(A) + 1
  <2>1. i \notin A /\ B = A \cup {i}
    BY <1>5
  <2> QED BY <1>1, <2>1, FS_AddElement
<1>6. ASSUME status[i] \in S <=> status'[i] \in S PROVE A = B
  BY <1>6
<1> QED BY <1>2, <1>4, <1>5, <1>6

(* A step that settles no job. *)
LEMMA KeepsBatch ==
  ASSUME BatchReflectsJobs, batch' = batch,
         \A j \in Jobs : deadLetter[j] = "requeued" => deadLetter'[j] = "requeued",
         \A j \in Jobs : \/ status'[j] = status[j]
                         \/ status[j] \in JobStatus \ Settled /\ status'[j] \in JobStatus \ Settled
                         \/ deadLetter'[j] = "requeued"
  PROVE  BatchReflectsJobs'
<1> SUFFICES ASSUME \A j \in BatchJobs : deadLetter'[j] # "requeued"
             PROVE  BatchReflectsJobs'
  BY DEF BatchReflectsJobs
<1>1. \A j \in BatchJobs : j \in Jobs
  BY BatchAssumption
<1>2. \A j \in BatchJobs : deadLetter[j] # "requeued"
  BY <1>1
<1>3. ASSUME NEW S \in { {"COMPLETED"}, {"DEAD_LETTER"}, JobStatus \ Settled }
      PROVE  { j \in BatchJobs : status'[j] \in S } = { j \in BatchJobs : status[j] \in S }
  BY <1>1 DEF Settled
<1>4. /\ { j \in BatchJobs : status'[j] \in {"COMPLETED"} }
             = { j \in BatchJobs : status[j] \in {"COMPLETED"} }
      /\ { j \in BatchJobs : status'[j] \in {"DEAD_LETTER"} }
             = { j \in BatchJobs : status[j] \in {"DEAD_LETTER"} }
      /\ { j \in BatchJobs : status'[j] \in JobStatus \ Settled }
             = { j \in BatchJobs : status[j] \in JobStatus \ Settled }
  BY <1>3
<1> QED BY <1>2, <1>4 DEF BatchReflectsJobs, Settled

(* A step that settles the open job i, and counts it if it is of the batch. *)
LEMMA SettlesInBatch ==
  ASSUME TypeOK, BatchReflectsJobs, NEW i \in Jobs,
         NEW st \in Settled, NEW outcome \in { "completed", "failed" },
         (outcome = "completed") <=> (st = "COMPLETED"),
         status[i] \in JobStatus \ Settled, status' = [status EXCEPT ![i] = st],
         settleInBatch(i, outcome),
         \A j \in Jobs : deadLetter[j] = "requeued" => deadLetter'[j] = "requeued"
  PROVE  BatchReflectsJobs'
<1> SUFFICES ASSUME \A j \in BatchJobs : deadLetter'[j] # "requeued"
             PROVE  BatchReflectsJobs'
  BY DEF BatchReflectsJobs
<1>1. \A j \in BatchJobs : j \in Jobs /\ deadLetter[j] # "requeued"
  BY BatchAssumption
<1>2. /\ batch.completed = Count({"COMPLETED"}) /\ batch.failed = Count({"DEAD_LETTER"})
      /\ batch.pending = Count(JobStatus \ Settled)
  BY <1>1 DEF BatchReflectsJobs, Count, Settled
<1>3. status'[i] = st /\ \A k \in Jobs : k # i => status'[k] = status[k]
  BY DEF TypeOK
<1> SUFFICES /\ batch'.completed = Count({"COMPLETED"})'
             /\ batch'.failed = Count({"DEAD_LETTER"})'
             /\ batch'.pending = Count(JobStatus \ Settled)'
  BY DEF BatchReflectsJobs, Count, Settled
<1>4. CASE i \notin BatchJobs
  <2>1. \A k \in BatchJobs : status'[k] = status[k]
    BY <1>1, <1>3, <1>4
  <2>2. ASSUME NEW S PROVE Count(S)' = Count(S)
    <3>1. { j \in BatchJobs : status'[j] \in S } = { j \in BatchJobs : status[j] \in S }
      BY <2>1
    <3> QED BY <3>1 DEF Count
  <2>3. batch' = batch
    BY <1>4 DEF settleInBatch
  <2> QED BY <1>2, <2>2, <2>3
<1>5. CASE i \in BatchJobs
  <2>1. \A k \in BatchJobs : k # i => status'[k] = status[k]
    BY <1>1, <1>3
  <2>2. Count(JobStatus \ Settled)' = Count(JobStatus \ Settled) - 1
        /\ Count(JobStatus \ Settled) > 0
    BY <1>3, <1>5, <2>1, CountMoves
  <2>3. batch' = [batch EXCEPT ![outcome] = batch[outcome] + 1, !.pending = batch.pending - 1]
    BY <1>2, <1>5, <2>2 DEF settleInBatch
  <2>4. batch \in [completed : Nat, failed : Nat, pending : Nat]
    BY DEF TypeOK
  <2>5. CASE st = "COMPLETED"
    <3>1. Count({"COMPLETED"})' = Count({"COMPLETED"}) + 1
      BY <1>3, <1>5, <2>1, <2>5, CountMoves DEF Settled
    <3>2. Count({"DEAD_LETTER"})' = Count({"DEAD_LETTER"})
      BY <1>3, <1>5, <2>1, <2>5, CountMoves DEF Settled
    <3> QED BY <1>2, <2>2, <2>3, <2>4, <2>5, <3>1, <3>2
  <2>6. CASE st = "DEAD_LETTER"
    <3>1. Count({"DEAD_LETTER"})' = Count({"DEAD_LETTER"}) + 1
      BY <1>3, <1>5, <2>1, <2>6, CountMoves DEF Settled
    <3>2. Count({"COMPLETED"})' = Count({"COMPLETED"})
      BY <1>3, <1>5, <2>1, <2>6, CountMoves DEF Settled
    <3> QED BY <1>2, <2>2, <2>3, <2>4, <2>6, <3>1, <3>2
  <2> QED BY <2>5, <2>6 DEF Settled
<1> QED BY <1>4, <1>5

LEMMA NextBatch ==
  ASSUME NoCancels, NoErrors, TypeOK, TypeOK', SoleInv, ExactInv, BatchReflectsJobs,
         [Next]_vars
  PROVE  BatchReflectsJobs'
<1> USE DEF jobVars, tableVars, workerVars, procVars
<1>1. ASSUME NEW s \in Slots, recordSuccess(s) PROVE BatchReflectsJobs'
  <2>1. run[s].job \in Jobs /\ status[run[s].job] = "RUNNING"
    BY <1>1 DEF recordSuccess, ExactInv, TypeOK
  <2>2. /\ status' = [status EXCEPT ![run[s].job] = "COMPLETED"]
        /\ settleInBatch(run[s].job, "completed") /\ deadLetter' = deadLetter
    BY <1>1 DEF recordSuccess
  <2> QED BY <2>1, <2>2, SettlesInBatch DEF Settled, JobStatus
<1>2. ASSUME NEW j \in Jobs, processDeadLetter(j) PROVE BatchReflectsJobs'
  <2>1. \A k \in Jobs : deadLetter[k] = "requeued" => deadLetter'[k] = "requeued"
    BY <1>2 DEF processDeadLetter, createEntry, TypeOK
  <2>2. /\ status[j] = "FAILED" /\ status' = [status EXCEPT ![j] = "DEAD_LETTER"]
        /\ settleInBatch(j, "failed")
    BY <1>2 DEF processDeadLetter
  <2> QED BY <2>1, <2>2, SettlesInBatch DEF Settled, JobStatus
<1>3. ASSUME NEW c \in Clients, writeRequeued(c) PROVE BatchReflectsJobs'
  <2>1. req[c].job \in Jobs
    BY <1>3 DEF writeRequeued, TypeOK
  <2>2. /\ batch' = batch /\ deadLetter' = [deadLetter EXCEPT ![req[c].job] = "requeued"]
        /\ status' = [status EXCEPT ![req[c].job] = "QUEUED"]
    BY <1>3 DEF writeRequeued
  <2> QED BY <2>1, <2>2, KeepsBatch DEF TypeOK
<1>4. ASSUME UNCHANGED << batch, deadLetter >>,
             \A j \in Jobs : \/ status'[j] = status[j]
                             \/ /\ status[j] \in JobStatus \ Settled
                                /\ status'[j] \in JobStatus \ Settled
      PROVE  BatchReflectsJobs'
  BY <1>4, KeepsBatch
<1>5. ASSUME NEW s \in Slots, Runtime(s), ~recordSuccess(s) PROVE BatchReflectsJobs'
  <2>1. UNCHANGED << batch, deadLetter >>
    BY <1>5 DEF Runtime, claimNextJob, verifyOwnership, startExecution, finish,
                recordFailure, abandon
  <2>2. \/ status' = status
        \/ \E j \in Jobs, st \in JobStatus \ Settled :
             status[j] \in JobStatus \ Settled /\ status' = [status EXCEPT ![j] = st]
    <3>1. CASE claimNextJob(s)
      BY <3>1 DEF claimNextJob, Eligible, Settled, JobStatus
    <3>2. CASE startExecution(s)
      <4>1. run[s].job \in Jobs /\ status[run[s].job] = "CLAIMED"
        BY <3>2 DEF startExecution, TypeOK, ExactInv
      <4> QED BY <3>2, <4>1 DEF startExecution, Settled, JobStatus
    <3>3. CASE recordFailure(s)
      <4>1. run[s].job \in Jobs /\ status[run[s].job] = "RUNNING"
        BY <3>3 DEF recordFailure, NoErrors, TypeOK, ExactInv
      <4> QED BY <3>3, <4>1 DEF recordFailure, Settled, JobStatus
    <3> QED BY <1>5, <3>1, <3>2, <3>3
            DEF Runtime, verifyOwnership, finish, abandon
  <2>3. status \in [Jobs -> JobStatus]
    BY DEF TypeOK
  <2> QED BY <1>4, <2>1, <2>2, <2>3
<1>6. ASSUME NEW w \in Workers, Recovery(w) PROVE BatchReflectsJobs'
  <2>1. CASE commitRecovery(w)
    <3> DEFINE failed == { k[1] : k \in rec[w].rows }
    <3>1. failed \subseteq rec[w].running
      BY DEF SoleInv, TakenInv
    <3>2. /\ status' = [j \in Jobs |-> IF j \in rec[w].claimed THEN "QUEUED"
                                       ELSE IF j \in failed THEN "FAILED" ELSE status[j]]
          /\ UNCHANGED << batch, deadLetter >>
      BY <2>1 DEF commitRecovery
    <3> HIDE DEF failed
    <3>3. \A j \in Jobs : \/ status'[j] = status[j]
                          \/ status[j] = "CLAIMED" /\ status'[j] = "QUEUED"
                          \/ status[j] = "RUNNING" /\ status'[j] = "FAILED"
      BY <3>1, <3>2 DEF ExactInv
    <3> QED BY <1>4, <3>2, <3>3 DEF Settled, JobStatus
  <2>2. CASE (\E p \in Procs : lockStaleWorker(p, w)) \/ findExecutions(w) \/ abortRecovery(w)
    BY <1>4, <2>2 DEF lockStaleWorker, findExecutions, abortRecovery
  <2> QED BY <1>6, <2>1, <2>2 DEF Recovery
<1>7. CASE Tick \/ \E j \in Jobs : retryJob(j)
  <2>1. CASE promoteDueScheduledJobs \/ promoteDueRetries
    BY <1>4, <2>1 DEF promoteDueScheduledJobs, promoteDueRetries, Settled, JobStatus
  <2>2. ASSUME NEW j \in Jobs, scheduleFailedJob(j) PROVE BatchReflectsJobs'
    BY <1>4, <2>2 DEF scheduleFailedJob, Settled, JobStatus, TypeOK
  <2> QED BY <1>2, <1>7, <2>1, <2>2 DEF Tick, retryJob
<1>8. CASE UNCHANGED << status, batch, deadLetter >>
  BY <1>4, <1>8
<1>9. CASE Api
  <2>1. \A c \in Clients : ~writeCancelled(c)
    BY DEF writeCancelled, ExactInv
  <2>2. CASE \E c \in Clients, j \in Jobs : readForCancel(c, j) \/ readForRequeue(c, j)
    BY <1>8, <2>2 DEF readForCancel, readForRequeue
  <2>3. CASE (\E w \in Workers : postHeartbeat(w)) \/ setPaused
    BY <1>4, <2>3 DEF postHeartbeat, setPaused
  <2> QED BY <1>3, <1>7, <1>9, <2>1, <2>2, <2>3 DEF Api
<1>10. CASE Environment \/ (\E p \in Procs : recordWorkerHeartbeat(p)) \/ UNCHANGED vars
  BY <1>8, <1>10 DEF Environment, heartbeatTimeout, becomeDue, crash, restart,
                     recordWorkerHeartbeat, vars
<1> QED BY <1>1, <1>5, <1>6, <1>7, <1>9, <1>10 DEF Next

(* core/retryProcessor.ts, core/workerRuntime.ts: the batch row counts its jobs
   truly as long as none of them was requeued, whatever is recovered, retried
   or started again. *)
THEOREM BatchCountsAreTrue ==
  HeartbeatsInTime /\ OneRequeueAtOnce /\ NoCancels /\ NoErrors =>
    (Spec => []BatchReflectsJobs)
<1> SUFFICES ASSUME HeartbeatsInTime, OneRequeueAtOnce, NoCancels, NoErrors
             PROVE  Spec => []BatchReflectsJobs
  OBVIOUS
<1>1. SteadyInv => SoleInv /\ ExactInv
  BY SteadyIsExact DEF SteadyInv
<1>2. TypeOK /\ TypeOK' /\ SoleInv /\ ExactInv /\ BatchReflectsJobs /\ [Next]_vars
        => BatchReflectsJobs'
  BY NextBatch
<1>3. Init => BatchReflectsJobs
  <2> SUFFICES ASSUME Init PROVE BatchReflectsJobs
    OBVIOUS
  <2>1. /\ { j \in BatchJobs : status[j] \in {"COMPLETED"} } = {}
        /\ { j \in BatchJobs : status[j] \in {"DEAD_LETTER"} } = {}
        /\ { j \in BatchJobs : status[j] \in JobStatus \ Settled } = BatchJobs
    BY BatchAssumption DEF Init, JobStatus, Settled
  <2> QED BY <2>1, FS_EmptySet DEF Init, BatchReflectsJobs, Settled
<1> QED BY <1>1, <1>2, <1>3, Steady, TypeCorrect, PTL DEF Spec
=============================================================================
