----------------------------- MODULE MCRtosList -----------------------------
(***************************************************************************)
(* A small instance of RtosList for TLC: a ready list, a list like         *)
(* xPendingReadyList and a list of sleepers.                               *)
(***************************************************************************)
EXTENDS RtosList

MCLists == {"ready", "pending", "delayed"}
MCKind == [l \in MCLists |->
  CASE l = "ready" -> "walked" [] l = "pending" -> "fifo" [] OTHER -> "sorted"]

(* Fingerprints leave out what no step reads: the pointers that an item    *)
(* keeps when it is removed, and what was returned last.                   *)
Linking == {n \in Nodes : n \in Lists \/ pvContainer[n] # NULL}
Relevant ==
  <<[n \in Linking |-> pxNext[n]], [n \in Linking |-> pxPrevious[n]],
    xItemValue, pvContainer, pxIndex, uxNumberOfItems, insertion>>

=============================================================================
