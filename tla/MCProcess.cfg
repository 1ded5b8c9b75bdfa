CONSTANTS
  Owner = owner
  Thread = thread
  Others = {s1, s2}
  NoThread = none
SPECIFICATION FairSpec
INVARIANTS
  VirtualSafe
  StopMeansQuiet
  OneProcessStop
PROPERTIES
  StopReturns
  DestructorCompletes
CHECK_DEADLOCK FALSE
