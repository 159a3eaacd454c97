CONSTANTS
  Files = {f1, f2}
  FtabSize = 2
  MaxPages = 1
  MaxFrames = 2
  Vals = {v1}
  Zero = Zero
  Junk = Junk
  Absent = Absent
  Faults = {}
  InitArgs <- MruPool1LruPool2
  Modes = {"r", "w"}
  AllocTouches = TRUE
SPECIFICATION RFairSpec
INVARIANTS
  FramesOfOpenFiles
  Coherent
PROPERTIES
  ReadersChangeNothing
  CallsReturn
  UsedUntilDisposed
  ImplementsPageStore
