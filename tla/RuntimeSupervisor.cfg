CONSTANTS
  MaxAccepted = 3
  MaxFaults = 1
SPECIFICATION FairSpec
INVARIANTS
  TypeOK
  GateOpensOnlyWhenReady
  ExclusiveWriters
PROPERTIES
  ServingEnds
  RetryHappens
