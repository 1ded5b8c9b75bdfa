CONSTANTS
  Readers = {r1, r2}
  Writers = {w1, w2}
  Stoppers = {}
  Owner = none
  NoThread = none
  Cap = 2
  ReadRequests <- Requests
  WriteSizes = {1}
SPECIFICATION Spec
INVARIANTS
  DataNotAbandoned
  SpaceNotAbandoned
