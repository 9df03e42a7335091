-------------------------- MODULE IdempotentStore --------------------------
(* What an idempotency key promises (docs/06, "Duplicate submission"; the key of
   README's "unique idempotency constraints"): whoever submits under a key that
   is taken is told of the job that took it. *)
CONSTANTS Keys, Jobs

VARIABLES
  taken,  \* the keys that are taken, each with the job that took it
  told    \* what submitters were told, a key and a job each

Init == taken = {} /\ told = {}

\* A key names one job, and a job has one key.
OneEach(pairs) == \A p, q \in pairs : p[1] = q[1] <=> p[2] = q[2]

(* Free keys are taken, several at once by a batch. *)
Take ==
  /\ taken \subseteq taken'
  /\ taken' \subseteq Keys \X Jobs
  /\ OneEach(taken')
  /\ told' = told

Tell ==
  /\ \E p \in taken : told' = told \cup {p}
  /\ taken' = taken

Next == Take \/ Tell

Spec == Init /\ [][Next]_<< taken, told >>

(* The promise seen by clients: all who are answered under one key are told of
   one job. *)
OneJobPerKey == \A s, t \in told : s[1] = t[1] => s[2] = t[2]
=============================================================================
