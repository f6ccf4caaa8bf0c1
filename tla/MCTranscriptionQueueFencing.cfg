SPECIFICATION Spec
CONSTANTS
  Jobs = {j1}
  Workers = {w1, w2}
  Threads = {t1}
  Submitter = submitter
  MaxAttempts = 2
  MaxFaults = 1
  None = None
  BatchOf <- NoBatch
SYMMETRY WorkerSymmetry
INVARIANTS
  TypeOK
  Fenced
  PublishedByLastAttempt
  QueueCoherent
  DeletionCoversReserved
PROPERTIES
  ReservationIsFinal
  CancelWins
