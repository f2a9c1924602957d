SPECIFICATION Spec
CONSTANTS
  p1 = p1
  p2 = p2
  c1 = c1
  Slots <- TwoSlots
  Readers <- OneReader
  Points <- Edge
  Radii = {1, 2}
  Landmarks = {2}
  Around <- Surroundings
  Grain = 4
  CellSize = 6
SYMMETRY SlotSymmetry
INVARIANTS
  TypeOK
  CachedIsStored
  NoSecondSave
  ReturnedIsStored
  FoundAfterQueue
PROPERTIES
  SaveAtMostDoubles
