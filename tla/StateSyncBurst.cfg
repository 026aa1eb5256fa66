CONSTANTS
  NumCells = 2
  Values = {0, 1}
  Blank = 0
  FitSizes = {1}
  BurstCap = 2
  SnapCap = 2
  MaxRuns = 2
  MaxChanges = 1
  MaxEpoch = 3
  MaxAsked = 1
  MaxFlight = 2
SPECIFICATION Spec
INVARIANT SettledIsConverged
