CONSTANTS
  LeafSpace = 9
  KeySize = 2
  CellSize = 2
  Keys = {1, 2}
  r1 = r1
  r2 = r2
  r3 = r3
  RecIds = {r1, r2, r3}
  MaxKeys = 2
  AnyGaps = {0, 9}
  BufferCounts = {20}
  MaxPages = 7
  MissPages = 0
CHECK_DEADLOCK FALSE
SPECIFICATION Spec
PROPERTY InsertTakesEffect
