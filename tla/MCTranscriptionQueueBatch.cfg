SPECIFICATION Spec
CONSTANTS
  Jobs = {j1, j2}
  Workers = {w1}
  Threads = {t1}
  Submitter = submitter
  MaxAttempts = 1
  MaxFaults = 0
  None = None
  BatchOf <- OneBatch
SYMMETRY JobSymmetry
INVARIANT
  BatchSharesDeadline
PROPERTY
  DeletionSparesActive
