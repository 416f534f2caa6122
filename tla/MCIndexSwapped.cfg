CONSTANTS
  p1 = p1
  p2 = p2
  A = A
  B = B
  m1 = m1
  m2 = m2
  txt = txt
  Null = Null
  Proc <- OneProc
  Config = {A, B}
  Semantic = {m1}
  Text = {txt}
  TextOf <- MCTextOf
  Cases = 1
  MaxSnap = 2
  MaxChunks = 2
  MaxBuilds = 2
  MaxQueries = 1
  MaxFaults = 0
  Item = {1, 2, 3, 4}
  CandidateWindow = 3
  RankConstant = 2
  Wanted = {1, 2, 4}
SPECIFICATION Spec
INVARIANTS LexicalAnswersMatchBuild
CHECK_DEADLOCK FALSE
