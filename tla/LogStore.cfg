SPECIFICATION FairSpec
CONSTANTS
  LastDay = 4
  Lifespan = 1
  Batches <- MCBatches
  MaxRecords = 3
  MaxCrashes = 1
  MaxFailures = 1
INVARIANTS PermanentIds AcknowledgedKept LocationsHold NeverRefused
PROPERTIES ImplementsDurableStore GraffitiVanish
CHECK_DEADLOCK FALSE
