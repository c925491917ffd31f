CONSTANTS
  s1 = s1
  s2 = s2
  t1 = t1
  Servers <- TwoServers
  Threads <- OneThread
  None = None
  Ttl = 4
  Uncertainty = 1
  Margin = 1
  CheckTimeout = 2
  MaxTransaction = 3
  MaxFence = 3
  Horizon = 8
SYMMETRY Symmetric
SPECIFICATION AuthoritySpec
INVARIANTS
  CommitsByHolder
  OneTenure
