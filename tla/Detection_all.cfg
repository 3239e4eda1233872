SPECIFICATION Spec
CONSTANTS
  Slots = {1, 2, 3}
  RawBoxes <- SixBoxes
  Scores = {1, 2, 3}
  MaxClass = 2
  Width = 40
  Height = 40
  Threshold = 1
  IouNum = 1
  IouDen = 2
  FaceNum = 3
  FaceDen = 5
  MaxFaces = 2
  FaceShapes <- Shapes
INVARIANTS AnchorsHavePriors KeptApart LostOnlyToBetter SmallHidesBetter 
CHECK_DEADLOCK FALSE
