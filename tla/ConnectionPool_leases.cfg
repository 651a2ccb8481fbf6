SPECIFICATION FairSpec
CONSTANTS
  Threads = {t1, t2}
  Connections = {c1, c2, c3, c4}
  None = None
  InitialSize = 2
  MaxPoolSize = 2
  MaxConnections = 1
  MaxIdleTime = 2
  MaxTime = 3
  MaxFailures = 1
INVARIANTS TypeOK TotalBounded TotalAccounts Exclusive SortedByIdleTime
PROPERTIES NeverClosedEarly ExpiredLeavesPool ImplementsLease
