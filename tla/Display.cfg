CONSTANTS
  MaxBytes = 4
  ChunkSizes = {1, 2, 5}
  MaxChunks = 6
  TermSizes <- MCTermSizes
  MaxDim = 2
  LineCap = 3
  Counts <- MCCounts
  Positions <- MCPositions
  SgrInputs <- MCSgrInputs
  MaxResets = 1
  TermOps = 6
  ScreenSizes <- MCScreenSizes
  ScreenGlyphs = {"a", "b", "w"}
  Lines <- MCLines
  ScreenOps = 5
  PredictSizes <- MCPredictSizes
  Batches <- MCBatches
  Prompts = {"a"}
  Rtts = {20, 90}
  Mode = "Adaptive"
  MaxKeys = 3
  MaxFrames = 2
  MaxResizes = 1
  CSI_SHIFT_PAGEUP <- MCUp
  CSI_SHIFT_PAGEDOWN <- MCDown
  Bytes = {"ESC", "5", "6", "~", ".", "CR", "x", "ETX"}
  MaxTyped = 5
  PtyReads <- MCPtyReads
  Titles = {"T1", "T2"}
  Clips = {"C", "D"}
  Links = {"L"}
  Refused = {"D"}
  OSC_ACCUMULATION_MAX = 2
  MAX_TITLE_BYTES = 1
  OSC_52_MAX_BYTES = 1
  Status = FALSE
  NoControl = NoControl
  MaxRaw = 3
  WireCap = 2
  MaxReads = 4
SPECIFICATION MCSpec
INVARIANTS RingIsSuffixOfStream ReplayExact ScreensApart PagesTile TerminalIsSound NarrowRowsAgree TtyShowsPhysical ShownWasMatched PredictionsFit InputArrives ControlsArrive
PROPERTY ImplementsWindow
