SPECIFICATION Spec
CONSTANTS
  ORB = ORB
  VWAP = VWAP
  None = None
  Runner <- OrbOnly
  Order <- OrbOrder
  Price <- TwoPrices
  MaxBar = 3
  MaxCrashes = 1
  MaxFailures = 0
CHECK_DEADLOCK FALSE
INVARIANTS
  FlagsSurvive
