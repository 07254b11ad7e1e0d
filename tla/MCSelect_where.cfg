SPECIFICATION Spec
CONSTANTS
  A = A
  B = B
  C = C
  D = D
  Fields <- AllFields
  INDEX_KEY_MAX = 4
  Contents <- SomeContents
  IndexSets <- SomeIndexSets
  Statements <- Above
CHECK_DEADLOCK FALSE
INVARIANTS
  WhereRight
