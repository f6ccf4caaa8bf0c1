SPECIFICATION FairSpec
CONSTANTS
  o = o
  m = m
  q1 = q1
  q2 = q2
  q3 = q3
  Jobs = {q1, q2}
  KindOf <- FencedKinds
  ActorOf <- FencedActors
  Convs = {c1}
  People <- Team
  Owner = o
  AnswerWorkers = {a1, a2}
  ResearchWorkers = {r1, r2}
  Delayed = {a1, r1}
  MaxAttempts = 2
  MaxCrashes = 1
  MaxErrors = 0
  None = None
INVARIANTS
  ResultMatchesState
  LastAttemptWins
PROPERTIES
  KeepsPromise
  RequestsSettle
  PurgeSettles
  CancelWins
CHECK_DEADLOCK FALSE
