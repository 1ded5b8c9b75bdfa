CONSTANTS
  Points <- PointsDef
  Units <- UnitsDef
  MaxPoints = 3
  Chars <- CharsDef
  MaxLength = 5
SPECIFICATION TextSpec
INVARIANTS
  IteratorWalksPoints
  ConversionsRight
  CodecsInvert
  DumpsExpand
CHECK_DEADLOCK FALSE
