\* Two workers race over one meeting; an expired lock, a Redis error, a crash.
SPECIFICATION Spec
CONSTANTS
  Workers = {w1, w2}
  Calls = {c1}
  MaxRetries = 0
  MaxMessages = 1
  AttemptsMod = 2
  Faults = {"expiry", "redis", "crash"}
  FaultBudget <- MCBudget
SYMMETRY Symmetric
INVARIANT TypeOK
INVARIANT HolderInv
PROPERTY SupersededNeverAdvances
PROPERTY ReleaseRespectsOwner
PROPERTY KeepsMeetingPromise
PROPERTY PipelineSkipsReady
PROPERTY AttemptsNotLost
CHECK_DEADLOCK FALSE
