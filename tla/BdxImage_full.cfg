SPECIFICATION Spec
CONSTANTS
  BlockSize = 3
  Prefix = 2
  Files <- SmallFiles
  ShortReads = FALSE
  CutReads = TRUE
  MaxTransfers = 2
CHECK_DEADLOCK FALSE
INVARIANTS
  TypeOK
  ReceivesImage
  CountsAgree
  OnlyLastIsShort
  EndsWithImage
