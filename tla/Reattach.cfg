CONSTANTS
  MaxConns = 3
  MaxChunks = 2
  OutCap = 1
SPECIFICATION FairSpec
INVARIANTS TrimmedWasReceived OrphanTokenWasSent CounterNeverAhead
PROPERTIES NoSilentGap ClientSettles
CHECK_DEADLOCK FALSE
