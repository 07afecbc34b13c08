\* A task that gives up early ends the turn of another worker.
SPECIFICATION Spec
CONSTANTS
  Workers = {w1, w2}
  LastTurn = 1
  MaxRetries = 0
  MaxMessages = 1
  Faults = {"raise"}
  Often = 1
  FaultBudget <- MCBudget
SYMMETRY Symmetric
PROPERTY OnlyTheHolderEndsATurn
CHECK_DEADLOCK FALSE
