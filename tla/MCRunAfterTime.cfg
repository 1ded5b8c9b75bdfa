CONSTANTS
  Owner = owner
  Thread = thread
  Others = {s}
  NoThread = none
SPECIFICATION RSpec
INVARIANTS
  RTypeOK
  NeverEarly
PROPERTIES
  NotAfterStop
  EventuallyFires
  StopReturns
  IsProcess
CHECK_DEADLOCK FALSE
