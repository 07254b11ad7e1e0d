SPECIFICATION Spec
CONSTANTS
  PAGE_SIZE = 20
  RECORD_PAGE_HEADER_SIZE = 2
  WORD = 640
  DEPTH = 1
  LEVEL_UNIT = 2
  MAX_FSP = 2
  Sizes <- HalfAndQuarter
  Nil = Nil
CHECK_DEADLOCK TRUE
INVARIANTS
  TypeOK
  PagesSound
  FreeSpaceTreeTrue
  ScanMeetsEveryRecord
PROPERTIES
  ImplementsRecordStore
