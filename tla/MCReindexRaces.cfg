CONSTANTS
  p1 = p1
  p2 = p2
  a = a
  b = b
  u = u
  A = A
  B = B
  Absent = Absent
  Null = Null
  Torn = Torn
  Window = Window
  Proc <- TwoProcs
  Path = {1}
  Content = {a, b}
  Structural <- MCStructural
  Config = {A}
  Layout <- MCLayout
  LayoutOf <- MCLayoutOf
  MaxSnap = 2
  MaxEdits = 2
  MaxFaults = 0
  EditsRace = TRUE
SPECIFICATION ReindexSpec
SYMMETRY TextSymmetry
INVARIANTS RowMatchesInventory RowHasPayload ReindexCatchesUp
PROPERTIES InventoryFrozen
CHECK_DEADLOCK FALSE
