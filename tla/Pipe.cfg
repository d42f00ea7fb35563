SPECIFICATION FairSpec
CONSTANTS
  CALL = CALL
  N = 1
  Expiry <- OneWeekly
  Typ <- CallOnly
  Listed <- CallsListed
  Spot <- FarSpots
  None = None
  Future = Future
  MaxBars = 2
  TicksCap = 1
  MgrCap = 1
  ClosedCap = 1
  BarsCap = 1
INVARIANTS
  TypeOK
  FeedFollowsChain
  NeverBehind
PROPERTIES
  DrivenInOrder
  EveryBarIsDriven
  StopsAfterCancel
