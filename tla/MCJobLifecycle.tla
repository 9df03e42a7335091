--------------------------- MODULE MCJobLifecycle ---------------------------
(***************************************************************************)
(* Instances of JobLifecycle for TLC: which Worker row each process uses.  *)
(***************************************************************************)
EXTENDS JobLifecycle, TLC

CONSTANTS p1, p2, w1, w2

(* Runtimes built by hand: every process registered a worker of its own. *)
OwnRows == (p1 :> w1) @@ (p2 :> w2)

(* The shipped bootstrap: the row is found by the queue's name. *)
SharedRow == (p1 :> w1) @@ (p2 :> w1)

(* Requests are interchangeable; used by runs without liveness. *)
ClientSymmetry == Permutations(Clients)
=============================================================================
