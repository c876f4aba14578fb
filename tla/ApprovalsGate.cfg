SPECIFICATION Spec
CONSTANTS
  ann = ann
  bob = bob
  cid = cid
  ops = ops
  r1 = r1
  t1 = t1
  e1 = e1
  v1 = v1
  v2 = v2
  l1 = l1
  g1 = g1
  Nobody = Nobody
  Requests = {r1}
  Actors = {ann, bob, cid}
  Roles = {ops}
  RolesOf <- RolesHeld

  t2 = t2
  Targets = {t1, t2}
  PolicyKeys = {1}
  PolicyBodies <- Eased
  Editors = {e1}
  Voters = {v1, v2}
  Readers = {l1}
  Callers = {g1}
SYMMETRY Interchangeable
INVARIANTS CountIsBacked GateOpensOnQuorum
PROPERTIES ImplementsGate
CONSTRAINT EditsMatter
CHECK_DEADLOCK FALSE
