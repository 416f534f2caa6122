CONSTANTS
  p1 = p1
  a = a
  b = b
  u = u
  A = A
  B = B
  Absent = Absent
  Null = Null
  Torn = Torn
  Window = Window
  Proc <- OneProc
  Path = {1}
  Content = {a, b}
  Structural <- MCStructural
  Config = {A}
  Layout <- MCLayout
  LayoutOf <- MCLayoutOf
  MaxSnap = 1
  MaxEdits = 1
  MaxFaults = 0
  EditsRace = TRUE
  WindowLines = 3
  SearchLines = 1
  FileLines = {1, 2, 3, 4, 5, 6}
  FoundLines = {0, 1, 2, 3, 4, 5, 6, 7}
SPECIFICATION Spec
INVARIANTS TextMatchesHash
CHECK_DEADLOCK FALSE
