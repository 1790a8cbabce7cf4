SPECIFICATION Spec
CONSTANTS
  NLayers = 4
  SwaLayers = {0, 2}
  SharedSuffix = 2
  Window = 3
  MaxSeqLen = 6
  MaxBatch = 6
  Ubatches = {1, 2, 6}
  MaxTokens = 3
  MaxCalls = 2
CHECK_DEADLOCK FALSE
INVARIANTS AttendsRight CacheHoldsText ThinkingHidden
