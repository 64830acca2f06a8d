-------------------------- MODULE MCPriorityQueue --------------------------
(***************************************************************************)
(* PriorityQueue with room for three levels of the heap: the removal of an *)
(* inner entry and the sinking past a right child both need five entries.  *)
(***************************************************************************)
EXTENDS PriorityQueue

MCPriorities == 1 .. 3
=============================================================================
