SPECIFICATION Spec
CONSTANTS
  Cameras = {c1}
  Files = {file}
  Cap = 2
  MaxFrames = 3
  Costs = {2}
  None = None
INVARIANTS CountedOnce TakenAgree
CHECK_DEADLOCK FALSE
