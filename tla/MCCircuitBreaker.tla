-------------------------- MODULE MCCircuitBreaker ---------------------------
(* CircuitBreaker for TLC; the sizes are in the configurations.            *)
EXTENDS CircuitBreaker, TLC
=============================================================================
