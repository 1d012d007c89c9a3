-------------------------- MODULE MCCircuitBreaker --------------------------
(* A small instance of CircuitBreaker for TLC. *)
EXTENDS CircuitBreaker, TLC
=============================================================================
