SPECIFICATION GatewaySpec
CONSTANTS
  c1 = c1  c2 = c2  c3 = c3
  w1 = w1  w2 = w2  w3 = w3
  Calls <- ThreeCalls
  Workers <- ThreeWorkers
  Placements <- OwnOrShared
  MaxFence = 3
INVARIANTS OneDispatcher SettlementsAreTrue CompletedIsDurable
PROPERTY SettledStays
CHECK_DEADLOCK FALSE
