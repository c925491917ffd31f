CONSTANTS
  w1 = w1
  w2 = w2
  s1 = s1
  s2 = s2
  Candidates = {1, 2}
  Callers = {w1, w2}
  Sweepers = {s1, s2}
  None = None
  Worlds <- AllWorlds
  MaxKeys = 2
  MaxStamp = 2
  PageLimit = 1
SPECIFICATION Spec
CHECK_DEADLOCK FALSE
INVARIANTS
  CallsUnderIntentOnce
  LedgerIsTrueWithCare
PROPERTY DoubtIsSettled
