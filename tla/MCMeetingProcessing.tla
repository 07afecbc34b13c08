------------------------- MODULE MCMeetingProcessing -------------------------
(* Instances of MeetingProcessing for TLC: each run names the kinds of fault *)
(* it allows, and each kind may happen once.                                 *)
EXTENDS MeetingProcessing, TLC

CONSTANT Faults

MCBudget == [k \in FaultKinds |-> IF k \in Faults THEN 1 ELSE 0]

Symmetric == Permutations(Workers)
=============================================================================
