SPECIFICATION FairSpec
CONSTANTS
  e1 = e1  e2 = e2  reader1 = reader1
  None = None
  Exporters <- TwoExporters
  Reader = reader1
  Deployments <- ExportersOrReader
  MaxEvents = 2
  BatchSize = 2
  MaxAttempts = 2
  PageSize = 1
  MaxQuarantines = 1
  MaxCrashes = 1
INVARIANTS NothingLost NeighboursSpared ReaderIsGapFree
PROPERTIES OutcomeStays EventuallySettled
CHECK_DEADLOCK FALSE
