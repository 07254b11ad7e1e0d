SPECIFICATION Spec
CONSTANTS
  A = A
  B = B
  C = C
  D = D
  Fields <- AllFields
  INDEX_KEY_MAX = 4
  Contents <- SomeContents
  IndexSets <- SomeIndexSets
  Statements <- SomeStatements
CHECK_DEADLOCK FALSE
INVARIANTS
  TypeOK
  PartialResultsRight
  WhereRight
  AnswerRight
  EachRoundPlaces
