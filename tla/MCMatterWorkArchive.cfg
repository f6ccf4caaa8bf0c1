SPECIFICATION Spec
CONSTANTS
  o = o
  m = m
  q1 = q1
  q2 = q2
  q3 = q3
  Jobs = {q1}
  KindOf <- MixedKinds
  ActorOf <- MixedActors
  Convs = {c1, c2}
  People <- Team
  Owner = o
  AnswerWorkers = {a1}
  ResearchWorkers = {r1}
  Delayed = {}
  MaxAttempts = 1
  MaxCrashes = 0
  MaxErrors = 0
  None = None
INVARIANTS
  NoWorkInArchive
CHECK_DEADLOCK FALSE
