SPECIFICATION FairSpec
CONSTANTS
  r1 = r1
  r2 = r2
  r3 = r3
  r4 = r4
  RequestIds <- Four
  Helped <- Renames
  MaySkip <- SkipMetrics
  Main = Main
  Threads = 2
  PoolSize = 3
  BatchSize = 2
INVARIANTS TypeOK ClientsInUse NoHoldAndWait MetricsAreAccounted OneSaves
PROPERTIES RequestsAreAnswered StopSavesMetrics
