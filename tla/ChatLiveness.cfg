\* Every question is answered, and the chat keeps its promise, under every fault.
SPECIFICATION FairSpec
CONSTANTS
  Workers = {w1, w2}
  LastTurn = 1
  MaxRetries = 1
  MaxMessages = 1
  Faults = {"broker", "database", "raise", "crash", "expiry", "delete"}
  Often = 1
  FaultBudget <- MCBudget
PROPERTY AnswersEveryQuestion
CHECK_DEADLOCK FALSE
