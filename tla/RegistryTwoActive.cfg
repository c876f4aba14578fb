SPECIFICATION Spec
CONSTANTS
  a1 = a1
  a2 = a2
  c1 = c1
  Nobody = Nobody
  MaxVersion = 2
  Activators = {a1, a2}
  Clerks = {c1}
SYMMETRY Interchangeable
INVARIANTS OneActive
CHECK_DEADLOCK FALSE
