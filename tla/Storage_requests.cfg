SPECIFICATION Spec
CONSTANTS
  d1 = d1
  d2 = d2
  a = a
  b = b
  err = err
  None = None
  Ids = {d1, d2}
  Values = {a, b, err}
  ErrorValues = {err}
  RequestIds = {r1, r2}
  Requests <- EveryRequest
  Stores <- StartStores
  Threads = 2
  Failures = TRUE
INVARIANTS TypeOK SuccessIsVersioned VersionsWereStored NewestVersionIsStored
SYMMETRY Symmetry
