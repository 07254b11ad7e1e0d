SPECIFICATION Spec
CONSTANTS
  n1 = n1
  n2 = n2
  v1 = v1
  v2 = v2
  Files <- TwoFiles
  PAGES <- TwoPages
  Values <- TwoValues
  Absent = Absent
  Nil = Nil
  BUFFER_MAX = 1
SYMMETRY Symmetry
CHECK_DEADLOCK TRUE
PROPERTIES
  DirtyPageReachesDisk
