---------------------------- MODULE MCScheduler ----------------------------
(***************************************************************************)
(* Instances of Scheduler for TLC: two queues with a schedule each, one of *)
(* which the API may create.                                               *)
(***************************************************************************)
EXTENDS Scheduler, TLC

CONSTANTS d1, d2

Homes == (d1 :> 1) @@ (d2 :> 2)

(* d1 runs at every unit of time, d2 at every second one. *)
Every(p) == [t \in 0 .. Horizon |-> (t \div p + 1) * p]
Crons == (d1 :> Every(1)) @@ (d2 :> Every(2))

Firsts == (d1 :> 1) @@ (d2 :> 2)
=============================================================================
