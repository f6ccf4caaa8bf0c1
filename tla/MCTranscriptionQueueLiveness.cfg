SPECIFICATION FairSpec
CONSTANTS
  Jobs = {j1}
  Workers = {w1}
  Threads = {t1}
  Submitter = submitter
  MaxAttempts = 1
  MaxFaults = 1
  None = None
  BatchOf <- NoBatch
PROPERTIES
  ReservationIsCarriedOut
  CancelSettles
  NoIndefiniteStorage
