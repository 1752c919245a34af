-------------------------- MODULE MCCircuitBreaker --------------------------
(* Enough calls to trip the breaker, probe it, and complete late. *)
EXTENDS CircuitBreaker

CONSTANTS c1, c2, c3, c4, c5

MCCalls == {c1, c2, c3, c4, c5}

=============================================================================
