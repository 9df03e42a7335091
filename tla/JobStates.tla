----------------------------- MODULE JobStates -----------------------------
(***************************************************************************)
(* The job and execution status enums and the transition table that        *)
(* backend/src/core/jobStateMachine.ts holds.  Constant-level: every other *)
(* module of the project that speaks of a job's status extends this one.   *)
(***************************************************************************)
EXTENDS Naturals

JobStatus == { "QUEUED", "SCHEDULED", "CLAIMED", "RUNNING", "COMPLETED",
               "FAILED", "RETRY", "DEAD_LETTER", "CANCELLED" }

(* The execution statuses the code writes; the enum also declares CLAIMED and
   CANCELLED. *)
ExecutionStatus == { "RUNNING", "COMPLETED", "FAILED" }

(* The record `transitions`, as a relation. *)
transitions ==
       ({"QUEUED"}    \X {"CLAIMED", "CANCELLED"})
  \cup ({"SCHEDULED"} \X {"QUEUED", "CANCELLED"})
  \cup ({"CLAIMED"}   \X {"RUNNING", "QUEUED", "CANCELLED"})
  \cup ({"RUNNING"}   \X {"COMPLETED", "FAILED", "CANCELLED"})
  \cup ({"FAILED"}    \X {"RETRY", "DEAD_LETTER"})
  \cup ({"RETRY"}     \X {"QUEUED", "CANCELLED"})

canTransition(from, to) == <<from, to>> \in transitions

(* The statuses POST /jobs/:id/cancel accepts. *)
Cancellable == { "QUEUED", "SCHEDULED", "CLAIMED", "RUNNING", "RETRY" }
=============================================================================
