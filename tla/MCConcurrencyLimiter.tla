------------------------- MODULE MCConcurrencyLimiter -------------------------
(* Instances of ConcurrencyLimiter for TLC: each run says which kinds of      *)
(* fault may happen and how often.                                            *)
EXTENDS ConcurrencyLimiter, TLC

CONSTANTS Faults, Often

MCBudget == [k \in FaultKinds |-> IF k \in Faults THEN Often ELSE 0]

Symmetric == Permutations(Requests)
=============================================================================
