CONSTANTS
  PageSize = 10
  HeaderSize = 2
  SlotSize = 2
  short = short
  long = long
  Records = {short, long}
  RecLen <- ShortAndLong
  NoRecord = NoRecord
  Texts <- SomeTexts
  MaxPages = 3
  NumBuffers = 2
  PFMayFail = TRUE
  Absent = Absent
CHECK_DEADLOCK FALSE
SPECIFICATION Spec
INVARIANTS
  TypeOK
  PagesLaidOut
  TwoBuffersSuffice
PROPERTIES
  ConvertKeepsText
  FindReturnsFirst
  DeleteRemovesFirst
  OnlyCallsChangeRecords
  ScanCountsAll
