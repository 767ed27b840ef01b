CONSTANTS
  Calls = {c1, c2}
  Attrs = {a1, a2}
  Others = {x}
  Strings = {s1}
  Nodes = {n1, n2}
  None = None
  NULL = NULL
SPECIFICATION FairSpec
INVARIANTS TypeOK NodesOwned RefsConserved ListIsWhatWasGiven LentStringsLive
PROPERTIES LoanSpec CallReturns
CHECK_DEADLOCK FALSE
