\* Every fault once: a QUEUED meeting is taken up, a deleted one stays deleted.
SPECIFICATION FairSpec
CONSTANTS
  Workers = {w1}
  Calls = {c1}
  MaxRetries = 1
  MaxMessages = 1
  AttemptsMod = 1
  Faults = {"crash", "broker", "delete", "storage", "expiry"}
  FaultBudget <- MCBudget
INVARIANT NotStranded
PROPERTY KeepsMeetingPromise
PROPERTY QueuedIsTakenUp
PROPERTY ProcessingSettles
CHECK_DEADLOCK FALSE
