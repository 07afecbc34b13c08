-------------------------- MODULE MCRetrievalRepair --------------------------
(* Instances of RetrievalRepair for TLC: each run says how often Milvus fails *)
(* (twice, to fail the pipeline and its repair) and which other kinds of      *)
(* fault may happen once.                                                     *)
EXTENDS RetrievalRepair, TLC

CONSTANTS Faults, MilvusFaults

MCBudget == [k \in FaultKinds |-> CASE k = "milvus"  -> MilvusFaults
                                 [] k \in Faults -> 1
                                 [] OTHER        -> 0]

Symmetric == Permutations(Workers) \cup Permutations(Tokens)
=============================================================================
