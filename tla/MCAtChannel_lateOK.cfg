CONSTANTS
  w1 = w1
  w2 = w2
  Writers <- MCWriters
  Ops = {"plain", "handshake"}
  Emulator = {1}
  UnsolPrefixes = {"unsol"}
  HANDSHAKE_RETRY_COUNT = 2
  MaxCalls = 2
  MaxInter = 2
  MaxUnsol = 1
  MaxTimeouts = 1
  MaxHangups = 0
  MaxOpens = 1
  NULL = NULL
SYMMETRY WriterSymmetry
SPECIFICATION Spec
INVARIANTS AnswersItsCommand
