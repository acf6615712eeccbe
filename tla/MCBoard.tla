------------------------------ MODULE MCBoard -------------------------------
(***************************************************************************)
(* A small instance of Board for TLC: frames that just fit the buffer and  *)
(* frames that do not, and a FIFO that holds one of each.                  *)
(***************************************************************************)
EXTENDS Board

MCWireLengths == {8, 13}

MCLoads ==
  {[frames |-> 2, packets |-> 0, chars |-> 0],
   [frames |-> 1, packets |-> 2, chars |-> 0],
   [frames |-> 0, packets |-> 1, chars |-> 3]}
=============================================================================
