\* Two workers, a retry, a lease that expires under its holder, a crash.
SPECIFICATION Spec
CONSTANTS
  Workers = {w1, w2}
  LastTurn = 2
  MaxRetries = 1
  MaxMessages = 1
  Faults = {"expiry", "raise", "crash"}
  Often = 1
  FaultBudget <- MCBudget
SYMMETRY Symmetric
INVARIANT TypeOK
INVARIANT LeaseInv
INVARIANT PendingIffActive
PROPERTY OustedNeverWrites
PROPERTY KeepsPromise
CHECK_DEADLOCK FALSE
