SPECIFICATION Spec
CONSTANTS
  CellsPerAxis = 4
  CellSize = 2
  MaxEntities = 3
  Positions <- MCPositions
  Diameter = 2
  AoiRadius = 3
  Drift = 1
INVARIANTS
  IndexConsistent
  PairsOnce
  QueryComplete
