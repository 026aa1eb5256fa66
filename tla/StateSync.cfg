CONSTANTS
  NumCells = 2
  Values = {0, 1}
  Blank = 0
  FitSizes = {1, 2}
  BurstCap = 2
  SnapCap = 2
  MaxRuns = 3
  MaxChanges = 2
  MaxEpoch = 3
  MaxAsked = 2
  MaxFlight = 2
SPECIFICATION Spec
CONSTRAINT Budget
INVARIANTS BaselineWasSent SettledIsCurrent ScreenIsSnapshot
