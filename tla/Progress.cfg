CONSTANTS
  MaxGens = 3
  InCap = 1
  OutCap = 1
  PtyIn = 1
  PtyOut = 1
  Window = 4
  Chunk = 2
  PageSizes = {1, 4}
  PageLines = 1
  LineCap = 1
  EventCap = 2
  ServerCap = 1
  ClientCap = 2
  PageCap = 2
  ReqCap = 2
  StreamCap = 2
  MaxPageUps = 2
  MaxLines = 0
  Slots = {s1, s2}
  Identities = {alice}
  Handlers = {h1, h2}
  NoSlot = NoSlot
  MaxPerIdentity = 1
  IdleTimeout = TRUE
  NumCells = 2
  Values = {0, 1}
  Blank = 0
  FitSizes = {1}
  BurstCap = 2
  SnapCap = 1
  MaxRuns = 2
  MaxChanges = 1
  MaxEpoch = 2
  MaxAsked = 2
  MaxFlight = 2
SPECIFICATION MCSpec
INVARIANTS WriterOwnedOnce OneReader EarlierInputWritten
PROPERTIES AttachmentEnds ChannelEnds ExitedSessionLeaves NewestIsApplied
CHECK_DEADLOCK FALSE
