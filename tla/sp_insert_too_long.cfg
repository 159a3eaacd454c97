CONSTANTS
  PageSize = 10
  HeaderSize = 2
  SlotSize = 2
  short = short
  long = long
  Records = {short, long}
  RecLen <- ShortAndTooLong
  NoRecord = NoRecord
  Texts <- ShortText
  MaxPages = 3
  NumBuffers = 2
  PFMayFail = FALSE
  Absent = Absent
SPECIFICATION Spec
PROPERTY RejectedInsertKeepsRecords
