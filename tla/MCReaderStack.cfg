CONSTANTS
  BlockSize = 2
  BufBlocks = 1
  InSize = 2
  OutSize = 3
  Readers <- ReadersDef
  Sizes = {1, 3}
  Fill = 9
  Word = 100
  Faults <- FaultsDef
  Dests <- Destinations
  MaxLen = 5
  CopyBuf = 2
SPECIFICATION Spec
INVARIANTS
  CopyComplete
PROPERTIES
  CachesAgree
  IsStream
  OutsideKept
CHECK_DEADLOCK FALSE
