SPECIFICATION Spec
CONSTANTS
  Watcher = {w1, w2}
  Stopper = {s1}
  Sinks <- MCSinks
  MaxBytes = 3
  MaxRotations = 1
  MaxAlerts = 1
  MaxHangs = 1
INVARIANTS OneWatcher TailExact EverySinkTold
SYMMETRY MCSymmetry
CHECK_DEADLOCK FALSE
