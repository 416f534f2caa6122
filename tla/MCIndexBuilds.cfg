CONSTANTS
  p1 = p1
  p2 = p2
  A = A
  B = B
  m1 = m1
  m2 = m2
  txt = txt
  Null = Null
  Proc <- TwoProcs
  Config = {A, B}
  Semantic = {m1, m2}
  Text = {txt}
  TextOf <- MCTextOf
  Cases = 2
  MaxSnap = 2
  MaxChunks = 2
  MaxBuilds = 2
  MaxQueries = 1
  MaxFaults = 1
  Item = {1, 2, 3, 4}
  CandidateWindow = 3
  RankConstant = 2
  Wanted = {1, 2, 4}
SPECIFICATION Spec
SYMMETRY Symmetry
INVARIANTS TypeOK BuildsHaveIndexes SemanticAnswersMatchBuild HybridAnswersAgree LexicalBuildsAreAttributed NewestBuildIsRead FusionIsFair TotalsAreTruthful AlignmentIsTruthful
CHECK_DEADLOCK FALSE
