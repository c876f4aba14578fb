SPECIFICATION ExecutionSpec
CONSTANTS
  j1 = j1
  w1 = w1
  NoJob = NoJob
  Jobs = {j1}
  ClientKeys = {}
  Uuids = {}
  Workers = {w1}
  Cancellers = {}
  Reporters = {}
  Limits = {2}
  Repeats = {"no"}
  ClaimLimit = 1
  MaxAttempts = 0
  MaxCrashes = 0
  Replayers = {}
  ReplayLimit = 2
INVARIANTS RefusedOnlyInProgress
CHECK_DEADLOCK FALSE
