SPECIFICATION FairSpec
CONSTANTS
  Size = 8
  BufSize = 3
  Room = 2
  Movies = 2
  MaxLate = 4
  Other = Other
CHECK_DEADLOCK FALSE
INVARIANTS
  BytesAtTheirPlace
  SendsAllBuffers
PROPERTY QuitLeaves
