SPECIFICATION FairSpec
CONSTANTS
  t1 = t1
  t2 = t2
  t3 = t3
  t4 = t4
  t5 = t5
  t6 = t6
  None = None
  Tasks <- SixTasks
  SessionOf <- SixSessions
  TenantOf <- TwoTenants
  Limits = {1, 2}
  MaxWaiting = 4
  MaxPerTenant = 3
  MaxPerSession = 2
INVARIANTS Accounting Exclusive WorkConserving FairShare
PROPERTY Admitted
CHECK_DEADLOCK FALSE
