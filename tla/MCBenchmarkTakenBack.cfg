CONSTANTS
  Cases = 2
  MaxSignals = 1
  MaxFailures = 0
  Null = Null
  Torn = Torn
  Judgments <- MCJudgments
  Found <- MCFound
  MaxJudged = 3
  Cutoffs = {1, 2}
  MaxSamples = 200
  Measured = {1, 2}
  MaxForeign = 1
  MaxCompared = 3
SPECIFICATION FairSpec
PROPERTIES SucceededIsFinal
CHECK_DEADLOCK FALSE
