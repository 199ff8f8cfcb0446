CONSTANTS
  Versions = {"1_4"}
  MaxClients = 2
  MaxSends = 1
  MaxNitz = 2
SPECIFICATION Spec
INVARIANT CallerHoldsLock
CHECK_DEADLOCK FALSE
