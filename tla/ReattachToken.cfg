CONSTANTS
  MaxConns = 2
  MaxChunks = 1
  OutCap = 1
SPECIFICATION Spec
INVARIANT TokenAgreement
CHECK_DEADLOCK FALSE
