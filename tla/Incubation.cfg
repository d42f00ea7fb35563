SPECIFICATION Spec
CONSTANTS
  ORB = ORB
  Release = Release
  DevA = DevA
  DevB = DevB
  Near = Near
  Far = Far
  None = None
  Runner = {ORB}
  Build <- MCBuild
  Version <- MCVersion
  Params <- MCParams
  Pinned = {Release}
  Future <- MCFuture
  ExpiryDay <- MCExpiryDay
  LotSize <- MCLotSize
  LotFlag <- MCLotFlag
  DefaultLot = 65
  MinSample = 2
  MaxDay = 1
  MaxStarts = 3
CHECK_DEADLOCK FALSE
SYMMETRY DevBuilds
INVARIANTS
  TypeOK
  MixIsNeverSilent
  LabelDescribesRecord
  OneTradeADay
  NoVerdictOnFallbacks
