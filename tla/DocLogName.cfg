CONSTANTS
  Logs = {l1}
  Names = {n1, n2}
  Paths = {p}
  Cells = {c1, c2}
  Masks = {8191, 1000000}
  LONG_MAX = 999999
  PBSEVENT_MASK = 8191
  Address = 140000
  PBS_LOG_NAME = PBS_None
  NULL = NULL
SPECIFICATION Spec
INVARIANT MsgNameDefined
