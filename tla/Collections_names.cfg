SPECIFICATION Spec
CONSTANTS
  d1 = d1
  d2 = d2
  d3 = d3
  A = A
  B = B
  C = C
  None = None
  RequestIds = {r1, r2, r3}
  Requests <- EveryRequest
  Names = {A, B, C}
  Docs = {d1, d2, d3}
  Inits <- OneDocument
INVARIANTS TypeOK VersionsFollow NoStrayVersions
