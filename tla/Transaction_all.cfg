SPECIFICATION Spec
CONSTANTS
  d1 = d1
  d2 = d2
  a = a
  b = b
  None = None
  Ids = {d1, d2}
  Values = {a, b}
  RequestIds = {r1, r2}
  Requests <- EveryRequest
  Stores <- HalfStores
  MaxAttempts = 2
  Failures = TRUE
INVARIANTS TypeOK VersionsAreListed
PROPERTIES CommitsInFull ImplementsVersionedStore
