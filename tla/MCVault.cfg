SPECIFICATION Spec
CONSTANTS
  CountLimit = 3
  GenMod = 5
  Torn = Torn
  MaxAppends = 4
  MaxCrashes = 2
  MaxRecordErrors = 1
  MaxCommitErrors = 2
CHECK_DEADLOCK FALSE
INVARIANTS CrashSafe ReadsBack
PROPERTIES IsALog
