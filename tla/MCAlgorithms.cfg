CONSTANTS
  NiceWidths <- MCNiceWidths
  TargetBuckets = 8
  MaxLagBuckets = 2
  MaxLagSeconds = 4
  MinOverlap = 3
  MinEvents = 2
  TopK = 2
  TriggerMaxEvents = 2
  TriggerSparsity = 2
  MinDropBuckets = 4
  MinAbsDrop = 1
  MinHorizon = 2
  SniffRows = 2
  TextCap = 2
  TopN = 1
  MaxGroups = 2
  ByteArrayMax = 2
  TopTables = 1
  SniffedPrefix = 400
  MaxHighSeveritySamples = 2
  SampleLineTruncate = 3
  FormatPrefix = 9
SPECIFICATION Spec
CHECK_DEADLOCK FALSE
PROPERTIES StreamsRight SummariesRight WireRight TokensRight RecallRight TerminalRight
