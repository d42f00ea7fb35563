SPECIFICATION Spec
CONSTANTS
  ORB = ORB
  VWAP = VWAP
  None = None
  Runner <- Book
  Order <- BookOrder
  Price <- OnePrice
  MaxBar = 3
  MaxCrashes = 2
  MaxFailures = 2
CHECK_DEADLOCK FALSE
INVARIANTS
  TypeOK
  ResumesExactly
  AuditedOnce
  NoStaleFill
PROPERTIES
  ImplementsLedger
