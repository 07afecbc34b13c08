\* Leases and locks that expire under their holders, a publish that raises, a
\* crash, and a deletion in the middle of it that may fail.
SPECIFICATION Spec
CONSTANTS
  Workers = {w1, w2}
  Tokens = {t1, t2, t3}
  MaxRetries = 1
  MaxMessages = 1
  Faults = {"broker", "lease", "expiry", "crash", "delete", "removal"}
  MilvusFaults = 2
  FaultBudget <- MCBudget
SYMMETRY Symmetric
INVARIANT TypeOK
INVARIANT ClaimInv
INVARIANT NoOrphanVectors
INVARIANT MissingVectorsAreMarked
PROPERTY StaleTokenIsNoop
CHECK_DEADLOCK FALSE
