----------------------------- MODULE Timetable -----------------------------
(***************************************************************************)
(* What recurring schedules promise (docs/05-SCHEDULER.md, the idempotency *)
(* key and the deterministic next run): the occurrences of a definition    *)
(* become jobs in their order, each once and never before its time, and a  *)
(* job that waits is released to the workers once.  Occurrences may be     *)
(* passed over.                                                            *)
(***************************************************************************)
EXTENDS Integers

CONSTANT Definitions

VARIABLES
  now,        \* the clock
  scheduled,  \* the jobs that wait, each a definition and its occurrence
  promoted    \* the jobs that were released

Init == now = 0 /\ scheduled = {} /\ promoted = {}

Pass ==
  /\ now' = now + 1
  /\ UNCHANGED << scheduled, promoted >>

(* The occurrence r of d, which is later than all of d that were fired. *)
Fire(d, r) ==
  /\ \A j \in scheduled \cup promoted : j[1] = d => j[2] < r
  /\ scheduled' = scheduled \cup {<< d, r >>}
  /\ UNCHANGED << now, promoted >>

Release ==
  /\ scheduled' \subseteq scheduled
  /\ promoted' = promoted \cup (scheduled \ scheduled')
  /\ now' = now

Next == Pass \/ Release \/ \E d \in Definitions, r \in 0 .. now : Fire(d, r)

Spec == Init /\ [][Next]_<< now, scheduled, promoted >>

(* The promise seen by workers: what was released never waits again, so that
   nobody gets an occurrence twice. *)
ReleasedOnce == scheduled \cap promoted = {}
=============================================================================
