CONSTANTS
  Producers = {p1, p2}
  Item = {x1, x2, x3, x4}
  Cap = 2
  None = None
SPECIFICATION Spec
INVARIANT LostOnlyWhenFull
CHECK_DEADLOCK FALSE
