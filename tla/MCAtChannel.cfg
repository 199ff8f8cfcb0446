CONSTANTS
  w1 = w1
  w2 = w2
  Writers <- MCWriters
  Ops = {"registration", "multiline", "sms", "numeric", "handshake"}
  Emulator = {0, 1}
  UnsolPrefixes = {"CREG", "NO_CARRIER"}
  HANDSHAKE_RETRY_COUNT = 2
  MaxCalls = 2
  MaxInter = 2
  MaxUnsol = 1
  MaxTimeouts = 1
  MaxHangups = 1
  MaxOpens = 2
  NULL = NULL
SYMMETRY WriterSymmetry
SPECIFICATION Spec
INVARIANTS
  OneCommandAtATime
  WaiterOwnsResponseUntilReopen
  AnswersItsCommandInStep
  NoStrayLines
CHECK_DEADLOCK FALSE
