SPECIFICATION FairSpec
CONSTANTS
  N = 4
  BatchLimit = 2
  InPlace <- MCInPlace
  Orphans <- MCOrphans
  Skipped <- MCSkipped
  M = 2
  ItemOf <- MCSmallItemOf
  StopAt = {"plan"}
  MaxStops = 1
  MaxPowerLoss = 0
  MaxDamage = 0
  MaxErrors = 0
PROPERTY PrefixIsReplanned
CHECK_DEADLOCK FALSE
