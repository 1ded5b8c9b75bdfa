CONSTANTS
  Elem = {a, b}
  Blank = a
  N = 3
  MaxRequest = 4
SPECIFICATION Spec
INVARIANTS
  TypeOK
  IndexesAgree
  PrefixStored
PROPERTIES
  UnreadKept
  ImplementsFifo
