SPECIFICATION FairSpec
CONSTANTS
  Handlers <- SingleDef
  Kinds <- AllKindsDef
  Lag = 1
  Ceiling = 1
  Grace = 3
  MaxFaults = 1
PROPERTIES GoroutineOwnsStatus DestroyIsFinal Converges
CHECK_DEADLOCK FALSE
