SPECIFICATION ExecutionSpec
CONSTANTS
  j1 = j1
  j2 = j2
  k1 = k1
  u1 = u1
  w1 = w1
  w2 = w2
  NoJob = NoJob
  Jobs = {j1, j2}
  ClientKeys = {k1}
  Uuids = {u1}
  Workers = {w1, w2}
  Cancellers = {}
  Reporters = {}
  Limits = {1}
  Repeats = {"no", "minutes"}
  ClaimLimit = 1
  MaxAttempts = 0
  MaxCrashes = 1
  Replayers = {}
  ReplayLimit = 1
SYMMETRY Interchangeable
INVARIANTS AtMostOnceEffect StartedIsAccounted
PROPERTIES ImplementsScheduler ImplementsLedger
CHECK_DEADLOCK FALSE
