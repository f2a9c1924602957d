SPECIFICATION Spec
CONSTANTS
  p1 = p1
  p2 = p2
  c1 = c1
  Slots <- OneSlot
  Readers <- OneReader
  Points <- Edge
  Radii = {1}
  Landmarks = {1}
  Around <- Surroundings
  Grain = 4
  CellSize = 6
INVARIANTS
  FoundAfterSync
