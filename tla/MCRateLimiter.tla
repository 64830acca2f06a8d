--------------------------- MODULE MCRateLimiter ---------------------------
(***************************************************************************)
(* Three requests of one client overlap (the values of two clients share   *)
(* nothing); at most two may pass in two ticks, and five ticks are enough  *)
(* for a lost time to leave the window again.                              *)
(***************************************************************************)
EXTENDS RateLimiter, TLC

MCSymmetry == Permutations(Check)
=============================================================================
