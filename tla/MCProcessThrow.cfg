CONSTANTS
  Owner = owner
  Thread = thread
  Others = {}
  NoThread = none
SPECIFICATION FairSpec
PROPERTIES
  FailedConstructionCompletes
CHECK_DEADLOCK FALSE
