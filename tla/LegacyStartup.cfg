SPECIFICATION FairSpec
CONSTANTS
  N = 5
  BatchLimit = 2
  InPlace <- MCInPlace
  Orphans <- MCOrphans
  Skipped <- MCSkipped
  M = 2
  ItemOf <- MCItemOf
  StopAt = {"plan", "backplan", "staging", "journal", "run", "receipt"}
  MaxStops = 1
  MaxPowerLoss = 1
  MaxDamage = 1
  MaxErrors = 1
INVARIANTS TypeOK RowsNameDurableFiles PristineBackup RecordsHold
PROPERTIES ImplementsMediaCutover StartsInTheEnd
CHECK_DEADLOCK FALSE
