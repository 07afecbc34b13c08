\* Requests outlive their key, Redis raises, the process ends.
SPECIFICATION FairSpec
CONSTANTS
  Requests = {r1, r2, r3, r4, r5, r6}
  Limit = 2
  TTL = 2
  Faults = {"slow", "redis", "kill"}
  Often = 1
  FaultBudget <- MCBudget
INVARIANT TypeOK
INVARIANT BoundedOverrun
INVARIANT RefusalsJustified
PROPERTY Serves
