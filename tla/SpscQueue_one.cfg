CONSTANTS
  Producers = {p1}
  Item = {x1, x2, x3, x4}
  Cap = 2
  None = None
SPECIFICATION FairSpec
INVARIANT TypeOK
PROPERTIES IsBoundedQueue AcceptedArrives
CHECK_DEADLOCK FALSE
