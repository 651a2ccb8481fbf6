SPECIFICATION FairSpec
CONSTANTS
  Producers = {p1, p2, p3}
  MaxLines = 2
  Size = 2
  None = None
INVARIANTS TypeOK SlotIsOwned Drained
PROPERTIES ImplementsLineLog LinesAreWritten
