SPECIFICATION ExecutionSpec
CONSTANTS
  j1 = j1
  j2 = j2
  k1 = k1
  u1 = u1
  w1 = w1
  NoJob = NoJob
  Jobs = {j1, j2}
  ClientKeys = {k1}
  Uuids = {u1}
  Workers = {w1}
  Cancellers = {}
  Reporters = {}
  Limits = {1, 2}
  Repeats = {"no", "minutes", "seconds"}
  ClaimLimit = 2
  MaxAttempts = 0
  MaxCrashes = 0
  replay1 = replay1
  replay2 = replay2
  Replayers = {replay1, replay2}
  ReplayLimit = 1
SYMMETRY Interchangeable
INVARIANTS AttemptsRationed SucceededMeansCompleted ReplayCountIsBacked
CHECK_DEADLOCK FALSE
