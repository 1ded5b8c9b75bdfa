CONSTANTS
  Cap = 2
  AnsLen = 1
  Chains <- ChainsDef
  MaxSend = 1
  MaxWrite = 1
SPECIFICATION Spec
INVARIANTS
  NextIsServed
CHECK_DEADLOCK FALSE
