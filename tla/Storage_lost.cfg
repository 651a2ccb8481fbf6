SPECIFICATION Spec
CONSTANTS
  d1 = d1
  d2 = d2
  a = a
  b = b
  err = err
  None = None
  Ids = {d1, d2}
  Values = {a, b, err}
  ErrorValues = {err}
  RequestIds = {r1, r2}
  Requests <- ConcurrentUpdates
  Stores <- StartStores
  Threads = 2
  Failures = FALSE
INVARIANT UpdateIsVersioned
