SPECIFICATION Spec
CONSTANTS
  Scripts <- Typed
INVARIANTS
  TypeOK
  OnlySentencesRun
  ChunkIsOneStatement
  CallsSayTheStatement
PROPERTIES
  EverySessionEnds
