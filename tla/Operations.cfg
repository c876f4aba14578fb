SPECIFICATION Spec
CONSTANTS
  e1 = e1
  e2 = e2
  v1 = v1
  v2 = v2
  a1 = a1
  d1 = d1
  d2 = d2
  d3 = d3
  p1 = p1
  p2 = p2
  op1 = op1
  o1 = o1
  s1 = s1
  s2 = s2
  h1 = h1
  h2 = h2
  g1 = g1
  n1 = n1
  n2 = n2
  n3 = n3
  r1 = r1
  r2 = r2
  Editors = {e1, e2}
  Values = {v1, v2}
  Authors = {a1}
  MaxVersions = 4
  Senders = {d1, d2, d3}
  MaxAttempts = 2
  Pollers = {p1, p2}
  Operators = {op1}
  Troubles = {"offline"}
  EventTrouble = "event"
  Organizations = {o1}
  Systems = {s1, s2}
  Owner <- OwnerOfAll
  Payload <- SmallPayload
  Strict = TRUE
  Hosts = {h1, h2}
  Registrars = {g1}
  MaxCrashes = 1
  Nodes = {n1, n2, n3}
  Requests = {r1, r2}
  t1 = t1
  t2 = t2
  t3 = t3
  Tasks = {t1, t2, t3}
  m1 = m1
  m2 = m2
  Manifests = {m1, m2}
  Factory = Factory
  NoManifest = NoManifest
  k1 = k1
  k2 = k2
  ModelReleases = {k1, k2}
  NoRelease = NoRelease
  q1 = q1
  q2 = q2
  Subscribers = {q1, q2}
  MaxQueue = 1
  MaxEvents = 3
  PerMinute = 2
  Minute = 2
  MaxTime = 4
INVARIANTS
  OperationsTypeOK
  ValueInForceIsRecorded
  KeeperHasItsNumber
  DeliveredWasTaken
  AllClearIsQuiet
  BootLeavesWhole
  ImpactIsLeastClosed
  BegunOnCompletedWork
  WhatRunsWasReleased
  FlowsAreAccounted
PROPERTIES
  OnlyTheLateUndo
CHECK_DEADLOCK FALSE
