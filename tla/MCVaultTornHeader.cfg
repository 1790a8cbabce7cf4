SPECIFICATION Spec
CONSTANTS
  CountLimit = 3
  GenMod = 5
  Torn = Torn
  MaxAppends = 3
  MaxCrashes = 1
  MaxRecordErrors = 0
  MaxCommitErrors = 1
INVARIANTS CommitPointSurvives
CHECK_DEADLOCK FALSE
