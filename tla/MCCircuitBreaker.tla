-------------------------- MODULE MCCircuitBreaker --------------------------
(* A small instance of CircuitBreaker for TLC: more callers than a period  *)
(* has probes.  The coroutines are interchangeable, but the run checks     *)
(* liveness, so their symmetry is not used.                                *)
EXTENDS CircuitBreaker, TLC

ASSUME EnoughCallers == Cardinality(Calls) > HalfOpenMaxCalls + 1
=============================================================================
