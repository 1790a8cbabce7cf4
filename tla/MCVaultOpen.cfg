SPECIFICATION MCSpec
CONSTANTS
  Procs = {p1, p2, p3}
  Passes = {pass, typo}
  Owner = pass
  None = None
  Existing = TRUE
  MaxStarts = 4
  MaxBlocks = 4
  MaxPowerLoss = 1
CHECK_DEADLOCK FALSE
INVARIANTS OneWriter SaltKept
PROPERTIES OldVaultGrows
