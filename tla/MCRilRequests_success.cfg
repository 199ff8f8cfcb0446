CONSTANTS
  Addrs = {a1, a2}
  Versions = {"1_0", "1_4"}
  MaxCalls = 2
SYMMETRY AddrSymmetry
SPECIFICATION Spec
INVARIANTS
  SuccessStaysSuccess
CHECK_DEADLOCK FALSE
