CONSTANTS
  Ops = {set, dflt}
  Attributes = {a, n}
  WellKnown = {w}
  Own = {o1}
  CValue = c
  Values = {v1, v2}
  NULL = NULL
  Touched = {a, "PBSException", "Server", "attr"}
  Failures = 2
SPECIFICATION Spec
SYMMETRY Symmetry
INVARIANTS TypeOK TypesUsable GlobalsHeld
PROPERTY ImportIsComplete
CHECK_DEADLOCK FALSE
