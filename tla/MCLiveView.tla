----------------------------- MODULE MCLiveView -----------------------------
(* Two jobs in two projects, one tab, two connections alive at a time.      *)
EXTENDS LiveView
CONSTANTS a, b, publisher, c1, c2
Visited == {Overview(a), Detail(b), Form}
=============================================================================
