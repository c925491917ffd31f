CONSTANTS
  j1 = j1
  j2 = j2
  w1 = w1
  w2 = w2
  Jobs = {j1, j2}
  Workers = {w1, w2}
  None = None
  Worlds <- AllWorlds
  Horizon = 4
  MaxRevision = 2
  MaxRetries = 1
  MaxManual = 1
SPECIFICATION Spec
CHECK_DEADLOCK FALSE
INVARIANTS
  OneClaimPerGroup
  ScheduleKept
  OutcomesAreTrue
PROPERTIES
  KeepsContract
  CatchesUp
