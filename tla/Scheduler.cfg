SPECIFICATION Spec
CONSTANTS
  cancel1 = cancel1
  j1 = j1
  report1 = report1
  u1 = u1
  w1 = w1
  w2 = w2
  NoJob = NoJob
  Jobs = {j1}
  ClientKeys = {}
  Uuids = {u1}
  Workers = {w1, w2}
  Cancellers = {cancel1}
  Reporters = {report1}
  Limits = {1, 2}
  Repeats = {"no", "minutes", "seconds"}
  ClaimLimit = 1
  MaxAttempts = 2
  MaxCrashes = 1
SYMMETRY Interchangeable
INVARIANTS RunningIsHeld
PROPERTIES CancelSticks
CHECK_DEADLOCK FALSE
