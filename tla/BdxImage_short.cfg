SPECIFICATION Spec
CONSTANTS
  BlockSize = 3
  Prefix = 2
  Files <- SmallFiles
  ShortReads = TRUE
  CutReads = TRUE
  MaxTransfers = 2
CHECK_DEADLOCK FALSE
INVARIANT
  ReceivesImage
