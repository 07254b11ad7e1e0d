SPECIFICATION FairSpec
CONSTANTS
  n1 = n1
  n2 = n2
  v1 = v1
  v2 = v2
  Files <- OneFile
  PAGES <- ThreePages
  Values <- TwoValues
  Absent = Absent
  Nil = Nil
  BUFFER_MAX = 2
CHECK_DEADLOCK TRUE
INVARIANTS
  TypeOK
  CleanPageMatchesDisk
  CacheCoherent
  CloseReachesEveryPage
  PointerStaysGood
PROPERTIES
  DirtyPageReachesDisk
  ImplementsPageStore
  ExitSavesEverything
