CONSTANTS
  Logs = {l1, l2}
  Names = {n1}
  Paths = {p}
  Cells = {c1, c2, c3}
  Masks = {8191, 1000000}
  LONG_MAX = 999999
  PBSEVENT_MASK = 8191
  Address = 140000
  PBS_LOG_NAME = PBS_None
  NULL = NULL
SPECIFICATION Spec
SYMMETRY Symmetry
INVARIANTS TypeOK StringsOwned
PROPERTY OnlyInitLeaks
