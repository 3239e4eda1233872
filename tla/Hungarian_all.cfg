SPECIFICATION Spec
CONSTANTS
  MaxRows = 3
  MaxColumns = 3
  MaxCost = 2
INVARIANTS TypeOK PathGoesOn Optimal
PROPERTIES Advances Terminates
CHECK_DEADLOCK FALSE
