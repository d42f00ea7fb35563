SPECIFICATION Spec
CONSTANTS
  CALL = CALL
  PUT = PUT
  None = None
  N = 1
  Expiry <- Weeklies
  Typ <- BothTypes
  Listed <- OptionsListed
  Spot <- SomeSpots
  LastDay = 3
PROPERTIES
  ExpiryDayIsServed
