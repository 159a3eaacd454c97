CONSTANTS
  Files = {f1}
  FtabSize = 1
  MaxPages = 3
  MaxFrames = 2
  Vals = {}
  Zero = Zero
  Junk = Junk
  Absent = Absent
  Faults = {"malloc", "read", "write"}
  InitArgs <- LruPool2
  Modes = {"w"}
  AllocTouches = FALSE
SPECIFICATION Spec
PROPERTY
  AllocatedStaysUsed
