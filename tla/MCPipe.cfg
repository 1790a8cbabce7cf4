CONSTANTS
  MaxCapture = 3
  Questions <- MCQuestions
  sim <- MCsim
  norm <- MCnorm
  cut <- MCcut
  Outputs <- MCOutputs
  Backends <- MCBackends
  RingCapacity = 2
  RecallLevels = {0, 1}
  MaxTurns = 2
  MaxKills = 1
  MaxLost = 1
  MaxFiles = 3
SPECIFICATION Spec
CHECK_DEADLOCK FALSE
INVARIANTS TurnTold VaultTellsTurns AuditReadsBack ModelGiven
PROPERTIES PipeAnswers
