\* A superseded worker fails after its lock expired.
SPECIFICATION Spec
CONSTANTS
  Workers = {w1, w2}
  Calls = {c1}
  MaxRetries = 0
  MaxMessages = 1
  AttemptsMod = 2
  Faults = {"expiry"}
  FaultBudget <- MCBudget
SYMMETRY Symmetric
PROPERTY StateChangesFenced
CHECK_DEADLOCK FALSE
