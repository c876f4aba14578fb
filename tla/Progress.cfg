SPECIFICATION ProgressSpec
CONSTANTS
  c1 = c1
  c2 = c2
  p1 = p1
  p2 = p2
  op1 = op1
  o1 = o1
  s1 = s1
  s2 = s2
  h1 = h1
  h2 = h2
  Callers = {c1, c2}
  Steady = {c1}
  Threshold = 5
  Pollers = {p1, p2}
  Operators = {op1}
  Troubles = {"offline", "degraded"}
  EventTrouble = "event"
  Organizations = {o1}
  Systems = {s1, s2}
  Owner <- OwnerOfAll
  Payload <- SmallPayload
  Strict = TRUE
  Hosts = {h1, h2}
  Registrars = {}
  MaxCrashes = 1
  f1 = f1
  r1 = r1
  r2 = r2
  loop = loop
  shutdown = shutdown
  Faults = {f1}
  Handlers = {r1, r2}
  Loop = loop
  Shutdown = shutdown
  MaxVersion = 2
INVARIANTS OpenIsEarned SettledSurvives
PROPERTIES RowCatchesUp OpenGetsItsTime RipeIsTried PollsSettle HostsAllComeUp
CHECK_DEADLOCK FALSE
