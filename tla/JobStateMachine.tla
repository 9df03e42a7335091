-------------------------- MODULE JobStateMachine --------------------------
(***************************************************************************)
(* What the job's life cycle promises, as the transition table of          *)
(* jobStateMachine.ts states it: a job is created QUEUED or SCHEDULED and  *)
(* its status then only moves along the table, except that an operator may *)
(* requeue a dead-lettered job.  One step may move several jobs (a bulk    *)
(* promotion, a stale worker's recovery).                                  *)
(***************************************************************************)
EXTENDS JobStates

CONSTANT Jobs          \* the jobs of one queue

VARIABLE status        \* Job.status of every job

Init == status \in [Jobs -> {"QUEUED", "SCHEDULED"}]

(* POST /dlq/:id/requeue, the one move that is not in the table. *)
requeued(j) == status[j] = "DEAD_LETTER" /\ status'[j] = "QUEUED"

Step ==
  /\ status' \in [Jobs -> JobStatus]
  /\ \A j \in Jobs : \/ status'[j] = status[j]
                     \/ canTransition(status[j], status'[j])
                     \/ requeued(j)

Spec == Init /\ [][Step]_status
=============================================================================
