SPECIFICATION Spec
CONSTANTS
  c1 = c1
  c2 = c2
  Cameras <- TwoCameras
  MayReopen = FALSE
  Reid = FALSE
  Garbage <- AnyMemory
  HitThresh = 1
  LostThresh = 1
  DeleteThresh = 3
  LeaveLength = 4
  TrajectorySize = 5
  Width = 32
  MaxFrame = 7
  MaxGap = 2
  MaxDetections = 2
  MaxPersons = 2
CHECK_DEADLOCK FALSE
INVARIANT ExpiredWhenLost
