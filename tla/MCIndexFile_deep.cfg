SPECIFICATION Spec
CONSTANTS
  M = 3
  INDEX_KEY_MAX = 5
  Keys <- FiveKeys
  RepeatedKeys <- NoKeys
  MaxRecords = 5
  MaxPages = 33
  MaxPagesUsed = 33
  Nil = Nil
CHECK_DEADLOCK FALSE
INVARIANTS
  SearchFindsRange
