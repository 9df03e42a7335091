---------------------------- MODULE MCSessions ----------------------------
(* Two tabs and two calls; a window is shorter than two seconds, and neither
   is a multiple of the other.                                              *)
EXTENDS Sessions, TLC
CONSTANTS t1, t2, c1, c2
Limits == [b \in {"auth", "write"} |-> 1]
Symmetric == Permutations(Tabs) \cup Permutations(Calls)
=============================================================================
