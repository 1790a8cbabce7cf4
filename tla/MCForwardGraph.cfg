SPECIFICATION PassSpec
CONSTANTS
  NThreads = 3
  Size = 4
  NTokens = 3
  Group = 2
  TokChunk = 2
  Stack <- TwoLayers
CHECK_DEADLOCK FALSE
INVARIANTS SharedSoundly
PROPERTIES GraphEnds
