SPECIFICATION Spec
CONSTANTS
  Window = 3
  Confirm = 4
  K = 1
  MinStreak = 2
  Warmup = 2
  RateWindow = 3
  Floor = 2
  RateCooldown = 3
  PollSecs = 1
  Heartbeat = 2
  SnapshotFresh = 5
  AlertFresh = 4
  ClearFresh = 1
  Margin = 2
  MaxTriggers = 1
  Bursts = {0, 2, 4}
  MaxDelay = 1
  MaxStarts = 1
  MaxClock = 8
CHECK_DEADLOCK FALSE
INVARIANTS LiveIsFresh IncidentTold
PROPERTIES NoFalseClear
