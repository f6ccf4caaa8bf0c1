SPECIFICATION Spec
CONSTANTS
  p = p
  n = n
  q = q
  m = m
  k = k
  Docs = {p, q, n, m, k}
  Present = {p, q}
  Registered = {n}
  Resumable = {m, k}
  Recordings = {p}
  Bases = {b1, b2}
  IngestWorkers = {i1}
  Holders = {w1, w2, u1, u2}
  Items = {f1}
  Uploaders = {u1, u2}
  Chunks = 2
  Events <- AllEvents
  Allotments <- Some
  Ranges <- RangesOf
  ReviewWorkers = {w1, w2}
  Reviewers = {r1, r2}
  MaxCalls = 3
  MaxControls = 1
  None = None
SYMMETRY Alike
INVARIANTS
  TypeOK
  CountersAgree
  StagedCopyIsOwned
  OneSourcePerItem
  DiscardedIsEmpty
PROPERTIES
  VerdictsStand
  CancelWins
  AttemptsAreFenced
  AdjudicatesWhatItSaw
CHECK_DEADLOCK FALSE
