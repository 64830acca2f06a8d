----------------------------- MODULE MCPolling -----------------------------
(***************************************************************************)
(* Two calls for the same transaction, of one hook instance or of two.     *)
(***************************************************************************)
EXTENDS Polling

MCFor == [c \in Call |-> CHOOSE i \in Id : TRUE]
=============================================================================
