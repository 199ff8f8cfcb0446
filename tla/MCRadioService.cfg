CONSTANTS
  Versions = {"1_4"}
  MaxClients = 2
  MaxSends = 1
  MaxNitz = 2
SPECIFICATION FairSpec
INVARIANTS
  LiveClientStays
  DeadClientForgotten
  LockHeldUntilError
  NitzKeptUntilOverlap
PROPERTY EverySendEnds
CHECK_DEADLOCK FALSE
