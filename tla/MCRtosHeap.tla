----------------------------- MODULE MCRtosHeap -----------------------------
(***************************************************************************)
(* A small instance of RtosHeap for TLC: sizes that need rounding, that    *)
(* split a block, that take it whole, that are too large and that are 0.   *)
(***************************************************************************)
EXTENDS RtosHeap

MCRequests == {0, 1, 12, 30, 100}
=============================================================================
