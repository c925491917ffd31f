SPECIFICATION FairSpec
CONSTANTS
  w1 = w1  w2 = w2  w3 = w3
  Workers <- Everyone
  First = w1
  Team <- AllWorlds
  MaxStalls = 1
  MaxFence = 3
INVARIANTS DispatchedOnce OutcomesAreKnown
PROPERTIES ParkedUntilEvidence CancelSettles
CHECK_DEADLOCK FALSE
