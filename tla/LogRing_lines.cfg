SPECIFICATION Spec
CONSTANTS
  Producers = {p1, p2}
  MaxLines = 8
  Size = 3
  Wrap = 4
  None = None
INVARIANTS TypeOK InOrderUnlessClash DrainedUnlessDropped
PROPERTY ClashOnlyWhenFull
