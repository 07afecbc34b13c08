------------------------------ MODULE MCChatTurn ------------------------------
(* Instances of ChatTurn for TLC: each run names the kinds of fault it allows *)
(* and how often each may happen.                                             *)
EXTENDS ChatTurn, TLC

CONSTANTS Faults, Often

MCBudget == [k \in FaultKinds |-> IF k \in Faults THEN Often ELSE 0]

Symmetric == Permutations(Workers)
=============================================================================
