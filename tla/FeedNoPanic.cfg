SPECIFICATION Spec
CONSTANTS
  c1 = c1
  c2 = c2
  fut = fut
  o1 = o1
  o2 = o2
  o3 = o3
  None = None
  Conn <- MCConn
  Base <- MCBase
  Windows <- MCWindows
  TickCap = 1
  MaxAttempt = 1
  Width = 10
  MaxBase = 40
  MaxTries = 12
INVARIANT NoPanic
CHECK_DEADLOCK FALSE
