SPECIFICATION Spec
CONSTANTS
  NumJobs = 2
  Editors = {e1}
  Servers = {s1, s2}
  Links = {l1, l2}
  MaxAttempts = 2
  MaxRevision = 2
  Events <- AllEvents
  Allotments <- Some
  None = None
SYMMETRY Alike
INVARIANTS
  StreamsWhatWasReviewed
PROPERTIES
  PurgeKeepsEdits
CHECK_DEADLOCK FALSE
