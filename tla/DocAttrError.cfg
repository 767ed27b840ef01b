CONSTANTS
  Calls = {c1}
  Attrs = {a1, a2}
  Others = {x}
  Strings = {s1, s2}
  Nodes = {n1, n2}
  None = None
  NULL = NULL
SPECIFICATION Spec
SYMMETRY Symmetry
INVARIANT FailureIsReported
