--------------------------- MODULE MCCircuitBreaker ---------------------------
(* Instances of CircuitBreaker for TLC; the threads are interchangeable.     *)
EXTENDS CircuitBreaker, TLC

Symmetric == Permutations(Threads)
=============================================================================
