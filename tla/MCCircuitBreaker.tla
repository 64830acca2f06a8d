-------------------------- MODULE MCCircuitBreaker --------------------------
(* Small instances of CircuitBreaker; the configurations give every value. *)
EXTENDS CircuitBreaker
=============================================================================
