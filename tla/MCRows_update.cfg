SPECIFICATION Spec
CONSTANTS
  P = P
  C = C
  Tables <- Both
  Fields <- BothFields
  Nullables <- BothNullables
  Rids <- TwoRids
  INDEX_KEY_MAX = 4
  Inserts <- SomeInserts
  Conditions <- SomeConditions
  SetClauses <- SomeSetClauses
  Keys <- SomeKeys
  ForeignKeys <- SomeForeignKeys
  MAX_UNIQUE_CONSTRAINT_COUNT = 1
  MAX_FOREIGN_FIELD_COUNT = 1
  MaxDrops = 1
CHECK_DEADLOCK TRUE
INVARIANTS
  FailedUpdateKeepsRows
