SPECIFICATION Spec
CONSTANTS
  NThreads = 3
  PassMod = 2
  MaxSpurious = 1
  GraphMod = 2
  Phases = 2
  MaxGraphs = 2
CHECK_DEADLOCK FALSE
INVARIANTS GraphsApart
PROPERTIES IsABarrier PoolFinishes
