CONSTANTS
  p1 = p1
  p2 = p2
  a = a
  b = b
  u = u
  A = A
  B = B
  Absent = Absent
  Null = Null
  Torn = Torn
  Window = Window
  Proc <- OneProc
  Path = {1, 2}
  Content = {a, b}
  Structural <- MCStructural
  Config = {A}
  Layout <- MCLayout
  LayoutOf <- MCLayoutOf
  MaxSnap = 2
  MaxEdits = 1
  MaxFaults = 1
  EditsRace = FALSE
SPECIFICATION ReindexSpec
INVARIANTS SnapshotHasManifest ReindexTypeOK ResultIsReadable RunAccountsForInventory TextMatchesHash IndexedIsComplete
PROPERTIES CommandsEnd
CHECK_DEADLOCK FALSE
