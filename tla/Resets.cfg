SPECIFICATION ResetSpec
CONSTANTS
  p1 = p1
  p2 = p2
  c1 = c1
  Slots <- TwoSlots
  WorkerSlots <- OneWorkerSlot
  Readers <- OneReader
  Points <- Middle
  Radii = {1}
  Landmarks = {1}
  Around <- Surroundings
  Grain = 4
  CellSize = 6
  MaxEnds = 1
INVARIANTS
  ResetTypeOK
  StoredUnlessCarried
  FoundUnlessCarried
  NoSecondSave
