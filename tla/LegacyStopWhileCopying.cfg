SPECIFICATION FairSpec
CONSTANTS
  N = 4
  BatchLimit = 2
  InPlace <- MCInPlace
  Orphans <- MCOrphans
  Skipped <- MCSkipped
  M = 2
  ItemOf <- MCSmallItemOf
  StopAt = {"staging"}
  MaxStops = 1
  MaxPowerLoss = 0
  MaxDamage = 0
  MaxErrors = 0
PROPERTY StopsOnlyDelay
CHECK_DEADLOCK FALSE
