CONSTANTS
  HeaderSize = 3
  AnyKeyPtrs = {0}
  LeafSpace = 10
  KeySize = 1
  CellSize = 2
  Keys = {1, 2, 3, 4}
  SearchKeys = {1, 2, 3, 4, 5, 6, 7}
  r1 = r1
  r2 = r2
  RecIds = {r1, r2}
SYMMETRY RecIdSymmetry
SPECIFICATION Spec
INVARIANTS
  PageWellFormed
  SearchFindsPlace
PROPERTY ImplementsLeaf
