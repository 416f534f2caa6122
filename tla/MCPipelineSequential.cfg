CONSTANTS
  p1 = p1
  a = a
  b = b
  u = u
  A = A
  B = B
  Absent = Absent
  Null = Null
  Torn = Torn
  Window = Window
  Proc <- OneProc
  Path = {1}
  Content = {a, b, u}
  Structural <- MCStructural
  Config = {A, B}
  Layout <- MCLayout
  LayoutOf <- MCLayoutOf
  MaxSnap = 2
  MaxEdits = 2
  MaxFaults = 2
  EditsRace = FALSE
  WindowLines = 3
  SearchLines = 1
  FileLines = {1, 2, 3, 4, 5, 6}
  FoundLines = {0, 1, 2, 3, 4, 5, 6, 7}
SYMMETRY TextSymmetry
SPECIFICATION Spec
INVARIANTS BuildRepairsPayloads NoStaleRows AttributedBetweenCommands InventoryMatchesRevision ChunksTile
CHECK_DEADLOCK FALSE
