CONSTANTS
  MaxOpens = 2
  MaxInputs = 3
  MaxPolls = 1
SPECIFICATION Spec
INVARIANT NoPowerOnOnReader
