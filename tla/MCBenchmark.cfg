CONSTANTS
  Cases = 3
  MaxSignals = 2
  MaxFailures = 2
  Null = Null
  Torn = Torn
  Judgments <- MCJudgments
  Found <- MCFound
  MaxJudged = 3
  Cutoffs = {1, 2}
  MaxSamples = 200
  Measured = {1, 2}
  MaxForeign = 1
  MaxCompared = 3
SPECIFICATION FairSpec
INVARIANTS TypeOK ReportsAreFinal FailedRowsCountEveryCase OneDisturbanceLeavesNoOrphan RowNamesItsEvidence MetricsAreTruthful ComparisonsAreTruthful
PROPERTIES KeepsLedger RunsAreConcluded
CHECK_DEADLOCK FALSE
