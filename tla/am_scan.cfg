CONSTANTS
  LeafSpace = 18
  KeySize = 4
  CellSize = 2
  Keys = {1, 2, 3, 4, 5, 6, 7, 8, 9, 10}
  r1 = r1
  r2 = r2
  RecIds = {r1, r2}
  MaxKeys = 2
  AnyGaps = {}
  BufferCounts = {1, 2, 3}
  MaxPages = 4
  MissPages = 3
  Loads <- AllLoads
  MaxParentEntries = 2
  Ops = {"ALL", "EQUAL", "LESS_THAN", "GREATER_THAN", "LESS_THAN_EQUAL", "GREATER_THAN_EQUAL", "NOT_EQUAL"}
  Values = {1, 3, 4, 5}
  TreeKeys = {1, 2, 3}
  MaxStack = 1
CHECK_DEADLOCK FALSE
SPECIFICATION SpecH
INVARIANTS
  ScanTypeOK
  EntriesFindable
  EOFOnlyAtEnd
PROPERTIES
  LoadAllOrNothing
  NextEntryInOrder
  TwoBuffersForScans
