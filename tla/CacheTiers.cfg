SPECIFICATION Spec
CONSTANTS
  api = api
  worker = worker
  c1 = c1
  c2 = c2
  c3 = c3
  v1 = v1
  v2 = v2
  Processes <- TwoProcesses
  Calls <- ThreeCalls
  Home <- HomeOf
  Lists <- TwoLists
  Nothing = Nothing
  Ttl = 2
  MemoryTtl = 1
  RefillTtl = 2
SYMMETRY Alike
INVARIANTS
  TypeOK
  BoundedStaleness
PROPERTIES
  LooseCacheSpec
