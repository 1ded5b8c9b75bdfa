CONSTANTS
  Cap = 3
  AnsLen = 2
  Chains <- ChainsDef
  MaxSend = 3
  MaxWrite = 3
SPECIFICATION FairSpec
INVARIANTS
  OutStream
  InStream
  OneServed
  CrashCause
PROPERTIES
  PeerCloseEnds
CHECK_DEADLOCK FALSE
