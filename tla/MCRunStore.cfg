SPECIFICATION Spec
CONSTANTS
  r1 = r1  r2 = r2  r3 = r3
  t1 = t1  t2 = t2  t3 = t3
  q1 = q1  q2 = q2  i1 = i1
  Runs <- ThreeRuns
  Tids <- ThreeIds
  Requests <- TwoRequests
  Inputs <- OneInput
  MaxDepth = 2
  MaxFanout = 2
SYMMETRY Symmetry
CONSTRAINT Explored
INVARIANTS ApprovalsTrackWaits HistoryAccounts CompletionCovers
PROPERTIES AbandonReachesDescendants KeepsPromise
CHECK_DEADLOCK FALSE
