SPECIFICATION Spec
CONSTANTS
  Jobs = {j1}
  Workers = {w1}
  Threads = {t1}
  Submitter = submitter
  MaxAttempts = 1
  MaxFaults = 0
  None = None
  BatchOf <- NoBatch
INVARIANT
  NoOrphanTree
