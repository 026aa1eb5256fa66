CONSTANTS
  MaxGens = 2
  InCap = 1
  OutCap = 1
  PtyIn = 1
  PtyOut = 1
SPECIFICATION FairSpec
PROPERTY LossOrphansSession
CHECK_DEADLOCK FALSE
