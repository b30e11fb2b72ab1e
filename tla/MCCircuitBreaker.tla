--------------------------- MODULE MCCircuitBreaker ---------------------------
(* Instances of CircuitBreaker for TLC: threads are interchangeable. *)
EXTENDS CircuitBreaker, TLC

ThreadSymmetry == Permutations(Thread)
==============================================================================
