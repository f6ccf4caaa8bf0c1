SPECIFICATION FairSpec
CONSTANTS
  a1 = a1
  j1 = j1
  j2 = j2
  Jobs = {j1}
  ActorOf <- SameActor
  Actors = {a1}
  Workers = {w1}
  ActorLimit = 1
  PendingLimit = 2
  MaxAttempts = 2
  MaxRetries = 0
  MaxEdits = 1
  MaxEnds = 1
  None = None
PROPERTIES
  ShutdownKeepsIntent
