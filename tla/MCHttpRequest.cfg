CONSTANTS
  Keys <- KeysDef
  Values <- ValuesDef
  Names <- NamesDef
  Lengthy <- LengthyDef
  Strings <- StringsDef
  Requests <- RequestsDef
  MaxItems = 2
  Texts <- TextsDef
  Chunk = 2
  Room = 3
  MaxLines = 3
SPECIFICATION HttpSpec
INVARIANTS
  QueryKeepsItems
  MessageMeansParts
  LinesArrive
CHECK_DEADLOCK FALSE
