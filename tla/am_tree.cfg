CONSTANTS
  LeafSpace = 9
  KeySize = 2
  CellSize = 2
  Keys = {1, 2, 3, 4, 5, 6, 7}
  r1 = r1
  r2 = r2
  r3 = r3
  RecIds = {r1}
  MaxKeys = 2
  AnyGaps = {}
  BufferCounts = {1, 2, 3}
  MaxPages = 9
  MissPages = 3
CHECK_DEADLOCK FALSE
SPECIFICATION Spec
INVARIANTS
  TypeOK
  TreeShape
  EntriesFindable
  ChainInOrder
PROPERTIES
  ImplementsIndex
  ThreeBuffersSuffice
