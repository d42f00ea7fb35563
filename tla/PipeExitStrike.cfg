SPECIFICATION Spec
CONSTANTS
  CALL = CALL
  None = None
  Future = Future
  N = 1
  Expiry <- OneWeekly
  Typ <- CallOnly
  Listed <- CallsListed
  Spot <- FarSpots
  MaxBars = 2
  TicksCap = 1
  MgrCap = 1
  ClosedCap = 1
  BarsCap = 1
PROPERTIES
  ExitStrikeIsStreaming
