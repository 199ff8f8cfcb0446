CONSTANTS
  w1 = w1
  w2 = w2
  Writers <- MCWriters
  Ops = {"sms", "handshake"}
  Emulator = {1}
  UnsolPrefixes = {"NO_CARRIER"}
  HANDSHAKE_RETRY_COUNT = 2
  MaxCalls = 2
  MaxInter = 2
  MaxUnsol = 1
  MaxTimeouts = 1
  MaxHangups = 1
  MaxOpens = 2
  NULL = NULL
SPECIFICATION FairSpec
PROPERTY EveryCallReturns
