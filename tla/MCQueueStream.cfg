CONSTANTS
  Readers = {r}
  Writers = {w}
  Stoppers = {s1, s2}
  Owner = s1
  NoThread = none
  Cap = 3
  ReadRequests <- Requests
  WriteSizes = {1, 2, 4}
SPECIFICATION FairSpec
INVARIANTS
  TypeOK
  DataNotAbandoned
  SpaceNotAbandoned
  StopWakesAll
  QuietAfterStop
PROPERTIES
  StopReleases
CHECK_DEADLOCK FALSE
