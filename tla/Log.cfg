SPECIFICATION Spec
CONSTANTS
  MaxRecords = 4
  MaxFailures = 3
  Broken = Broken
CHECK_DEADLOCK FALSE
INVARIANTS
  TypeOK
  NoSilentHole
  KeptBeforeTear
PROPERTIES
  SeenStaysRead
