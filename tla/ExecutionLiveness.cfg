SPECIFICATION FairSpec
CONSTANTS
  cancel1 = cancel1
  j1 = j1
  j2 = j2
  k1 = k1
  w1 = w1
  NoJob = NoJob
  Jobs = {j1, j2}
  ClientKeys = {k1}
  Uuids = {}
  Workers = {w1}
  Cancellers = {cancel1}
  Reporters = {}
  Limits = {1, 2}
  Repeats = {"no"}
  ClaimLimit = 2
  MaxAttempts = 0
  MaxCrashes = 0
  Replayers = {}
  ReplayLimit = 2
PROPERTIES RunningEnds EveryJobSettles
CHECK_DEADLOCK FALSE
