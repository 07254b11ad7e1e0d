SPECIFICATION Spec
CONSTANTS
  M = 3
  INDEX_KEY_MAX = 4
  Keys <- FourKeys
  RepeatedKeys <- ThreeKeys
  MaxRecords = 9
  MaxPages = 25
  MaxPagesUsed = 9
  Nil = Nil
CHECK_DEADLOCK FALSE
INVARIANTS
  TypeOK
  SearchFindsRange
  LinksFollowTree
  Balanced
PROPERTIES
  ImplementsIndexStore
