CONSTANTS
  Window = 4
  Chunk = 2
  PageSizes = {1, 3, 4}
  PageLines = 1
  LineCap = 2
  EventCap = 2
  ServerCap = 1
  ClientCap = 2
  PageCap = 2
  ReqCap = 2
  StreamCap = 2
  MaxPageUps = 4
  MaxLines = 3
SPECIFICATION Spec
CONSTRAINT Budget
INVARIANTS CreditConserved OnlyLargePagesStarve PagesArrive
