\* Every repair ends, whatever fails and dies around it, or goes with its meeting.
SPECIFICATION FairSpec
CONSTANTS
  Workers = {w1}
  Tokens = {t1, t2, t3}
  MaxRetries = 1
  MaxMessages = 1
  Faults = {"broker", "redis", "database", "removal", "crash", "delete"}
  MilvusFaults = 2
  FaultBudget <- MCBudget
PROPERTY RepairEnds
CHECK_DEADLOCK FALSE
