CONSTANTS
  Objs = {1, 2, 3, 4, 5, 6, 7, 8, 9, 10, 11}
  PBS_NULLSTR = 1
  txt = txt
  plus = plus
  Str = {txt, plus}
  Empty = Empty
  OpNames <- Rows
  Statuses <- Small
  Jobs <- Two
  None = None
  NULL = NULL
  MaxHeld = 2
  MaxOwn = 3
SPECIFICATION Spec
INVARIANT NoDangling
CHECK_DEADLOCK FALSE
