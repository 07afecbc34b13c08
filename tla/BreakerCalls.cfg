\* Three threads, two failures to open, two outages, a service that may return.
SPECIFICATION FairSpec
CONSTANTS
  Threads = {t1, t2, t3}
  Threshold = 2
  Recovery = 2
  Outages = 2
INVARIANT TypeOK
INVARIANT ClosedIffBelowThreshold
PROPERTY Recovers
