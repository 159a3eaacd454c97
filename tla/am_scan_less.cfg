CONSTANTS
  LeafSpace = 9
  KeySize = 2
  CellSize = 2
  Keys = {1, 2, 3}
  r1 = r1
  r2 = r2
  RecIds = {r1}
  MaxKeys = 2
  AnyGaps = {}
  BufferCounts = {20}
  MaxPages = 7
  MissPages = 0
  Loads <- NoLoads
  MaxParentEntries = 1024
  Ops = {"LESS_THAN"}
  Values = {1, 2, 3}
  TreeKeys = {1, 2, 3}
  MaxStack = 1
CHECK_DEADLOCK FALSE
SPECIFICATION SpecH
INVARIANT ScanReturnsAll
