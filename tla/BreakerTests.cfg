\* Two threads arrive when the recovery time is over.
SPECIFICATION Spec
CONSTANTS
  Threads = {t1, t2}
  Threshold = 1
  Recovery = 1
  Outages = 1
SYMMETRY Symmetric
INVARIANT OneTestCall
