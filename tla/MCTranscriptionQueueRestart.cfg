SPECIFICATION Spec
CONSTANTS
  Jobs = {j1}
  Workers = {w1}
  Threads = {t1}
  Submitter = submitter
  MaxAttempts = 2
  MaxFaults = 1
  None = None
  BatchOf <- NoBatch
INVARIANT
  RequeuedAttemptCanStart
