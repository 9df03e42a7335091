---------------------------- MODULE MCBootstrap ----------------------------
(***************************************************************************)
(* Instances of Bootstrap for TLC: the start-up and one overlapping tick.  *)
(***************************************************************************)
EXTENDS Bootstrap

CONSTANTS t1, t2
=============================================================================
