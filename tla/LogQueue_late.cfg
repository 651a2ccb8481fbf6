SPECIFICATION FairSpec
CONSTANTS
  Producers = {p1, p2}
  MaxLines = 3
  Size = 2
  None = None

PROPERTY NoLineIsDropped
